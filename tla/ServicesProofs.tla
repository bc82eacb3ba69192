---------------------------- MODULE ServicesProofs ---------------------------
(***************************************************************************)
(* The services for every value of their constants.  The receive ring and  *)
(* the shell: no input is left while the shell sleeps, the ring is a queue *)
(* that drops its oldest byte, and the line holds what was echoed.  A      *)
(* command gets the arguments of its line as they were typed.  The console *)
(* device is a stream when it is printed on.  A search in a list of        *)
(* objects misses none that stays, mounts keep apart and take the paths    *)
(* that were meant, a lookup finds the nearest of them, and the RAM file   *)
(* system implements FileStore.                                            *)
(***************************************************************************)
EXTENDS Shell, Device, Ramfs, Objects, Dfs, MshLine, ListTheorems, FiniteSetTheorems

-----------------------------------------------------------------------------
(* Arithmetic around a ring. *)

\* A rest by comparison, one round below 0 and one above.
Rest(x, m) == IF x < 0 THEN x + m ELSE IF x >= m THEN x - m ELSE x

\* The remainder by comparison is the remainder.
LEMMA RestOK ==
  ASSUME NEW m \in Nat \ {0}, NEW x \in Int, -m <= x, x < 2 * m
  PROVE  x % m = Rest(x, m) /\ Rest(x, m) \in 0..(m - 1)
  <1>1. Rest(x, m) \in 0..(m - 1)  BY DEF Rest
  <1>2. CASE x < 0  BY <1>2 DEF Rest
  <1>3. CASE x >= m  BY <1>3 DEF Rest
  <1>4. CASE x >= 0 /\ x < m  BY <1>4 DEF Rest
  <1>. QED  BY <1>1, <1>2, <1>3, <1>4

\* What the assumptions say of the sizes, for the arithmetic below.
LEMMA SizesOK ==
  /\ NUL \in Byte /\ NL \in Byte /\ NL # NUL
  /\ bufsz \in Nat \ {0} /\ bufsz > 1
  /\ FINSH_CMD_SIZE \in Nat \ {0} /\ FINSH_CMD_SIZE > 1
  /\ HwDepth \in Nat /\ SemMax \in Nat
  BY RingAssumption, ShellAssumption

-----------------------------------------------------------------------------
(* The inductive invariant. *)

\* rx_sem has room for what the handler, and one more after it, may add.
SemOK ==
  /\ rx_sem <= SemMax
  /\ isr # "none" \/ hw # <<>> => rx_sem + 1 <= SemMax
  /\ isr = "indicate" /\ hw # <<>> => rx_sem + 2 <= SemMax

\* A byte in the ring is read before the shell sleeps: it still looks at the
\* ring, or has a token, or the handler is about to give one.
NoticeOK ==
  /\ indicate = (pc # "attach")
  /\ pc = "take" /\ ~IsEmpty => rx_sem > 0 \/ isr # "none"
  /\ InputNotStuck

EchoOK ==
  /\ pc = "attach" => echoed = <<>>
  /\ LineIsEcho

\* The line starts over with the oldest bytes of an echo as long as itself.
LineTypes ==
  /\ line \in [Cell -> Byte] /\ line_position \in Cell /\ line_curpos \in Cell
  /\ echoed \in Seq(Byte) /\ Len(echoed) <= FINSH_CMD_SIZE

IInv == TypeOK /\ LineTypes /\ NeverQuiteFull /\ SemOK /\ NoticeOK /\ EchoOK

-----------------------------------------------------------------------------
(* The ring. *)

RingOK == RxTypeOK /\ NeverQuiteFull

LengthIs ==
  /\ RxLength \in 0..(bufsz - 1)
  /\ IsEmpty <=> RxLength = 0
  /\ put_index = Rest(get_index + RxLength, bufsz)

\* The bytes in the ring, counted from the two indices.
LEMMA LengthOK == RingOK => LengthIs
  BY SizesOK DEF LengthIs, RingOK, RxTypeOK, NeverQuiteFull, Slot, RxLength, IsEmpty, Rest

\* The bytes of the ring one by one.
ContentIs ==
  /\ Content \in Seq(Byte) /\ Len(Content) = RxLength
  /\ \A i \in 1..RxLength :
       /\ Rest(get_index + i - 1, bufsz) \in Slot
       /\ Content[i] = buffer[Rest(get_index + i - 1, bufsz)]

\* The queue behind the ring has the bytes between the two indices.
LEMMA ContentOK == RingOK => ContentIs
  <1> SUFFICES ASSUME RingOK PROVE ContentIs  OBVIOUS
  <1>1. RxLength \in Nat /\ RxLength <= bufsz - 1  BY LengthOK, SizesOK DEF LengthIs
  <1>2. buffer \in [Slot -> Byte] /\ get_index \in 0..(bufsz - 1) /\ bufsz \in Nat \ {0}
    BY SizesOK DEF RingOK, RxTypeOK, Slot
  <1>3. ASSUME NEW i \in 1..RxLength
        PROVE  /\ (get_index + i - 1) % bufsz = Rest(get_index + i - 1, bufsz)
               /\ Rest(get_index + i - 1, bufsz) \in Slot
    <2>1. get_index + i - 1 \in Int /\ -bufsz <= get_index + i - 1 /\ get_index + i - 1 < 2 * bufsz
      BY <1>1, <1>2
    <2>. QED  BY <1>2, <2>1, RestOK DEF Slot
  <1>4. \A i \in 1..RxLength : buffer[(get_index + i - 1) % bufsz] \in Byte
    BY <1>2, <1>3
  <1>5. Content \in Seq(Byte)  BY <1>1, <1>4 DEF Content
  <1>6. Len(Content) = RxLength  BY <1>1 DEF Content
  <1>7. \A i \in 1..RxLength : Content[i] = buffer[(get_index + i - 1) % bufsz]
    BY DEF Content
  <1>. QED  BY <1>3, <1>5, <1>6, <1>7 DEF ContentIs

\* A byte from the UART goes behind the others; the oldest one gives way when
\* there are bufsz - 1.
LEMMA ByteOK ==
  ASSUME RingOK, IsrByte, UNCHANGED ch
  PROVE  RingOK' /\ isr' = isr /\ \E b \in Byte : Queue!Put(b)
  <1> DEFINE b == Head(hw)
             n == RxLength
             g == get_index
  <1>t. /\ buffer \in [Slot -> Byte] /\ put_index \in Slot /\ get_index \in Slot
        /\ is_full \in BOOLEAN /\ hw \in Seq(Byte) /\ Len(hw) <= HwDepth
    BY DEF RingOK, RxTypeOK
  <1>1. /\ hw # <<>> /\ hw' = Tail(hw) /\ isr' = isr /\ isr = "loop"
        /\ buffer' = [buffer EXCEPT ![put_index] = b]
        /\ put_index' = Inc(put_index) /\ PushedOut(put_index')
    BY DEF IsrByte
  <1>2. b \in Byte /\ hw' \in Seq(Byte) /\ Len(hw') <= HwDepth
    <2>1. Len(hw') = Len(hw) - 1 /\ Len(hw) \in Nat  BY <1>t, <1>1, HeadTailProperties, LenProperties
    <2>. QED  BY <1>t, <1>1, <2>1, HeadTailProperties, SizesOK
  <1>3. LengthIs /\ ContentIs  BY LengthOK, ContentOK
  <1>4. n \in 0..(bufsz - 1) /\ put_index = Rest(g + n, bufsz)  BY <1>3 DEF LengthIs
  <1>s. Slot = 0..(bufsz - 1) /\ bufsz \in Nat /\ bufsz > 1  BY SizesOK DEF Slot
  <1> HIDE DEF n
  <1>5. ASSUME n = bufsz - 1
        PROVE  RingOK' /\ get_index' = Inc(g) /\ RxLength' = n
    <2>1. Inc(put_index) = g  BY <1>t, <1>s, <1>4, <1>5 DEF Rest, Inc
    <2>2. get_index' = Inc(g) /\ is_full' = TRUE  BY <1>1, <2>1 DEF PushedOut
    <2>3. put_index' = g  BY <1>1, <2>1
    <2>4. RxLength' = bufsz - 1
      BY <1>t, <1>s, <2>2, <2>3 DEF RxLength, Inc
    <2>5. RingOK'
      <3>1. buffer' \in [Slot -> Byte]  BY <1>t, <1>1, <1>2
      <3>2. get_index' \in Slot  BY <1>t, <1>s, <2>2 DEF Inc
      <3>. QED  BY <1>t, <1>1, <1>2, <2>2, <2>3, <2>4, <3>1, <3>2 DEF RingOK, RxTypeOK, NeverQuiteFull
    <2>. QED  BY <1>5, <2>2, <2>4, <2>5
  <1>6. ASSUME n # bufsz - 1
        PROVE  RingOK' /\ get_index' = g /\ RxLength' = n + 1
    <2>1. Inc(put_index) # g  BY <1>t, <1>s, <1>4, <1>6 DEF Rest, Inc
    <2>2. get_index' = g /\ is_full' = is_full  BY <1>1, <2>1 DEF PushedOut
    <2>3. is_full = FALSE  BY <1>6, <1>t DEF RingOK, NeverQuiteFull, n
    <2>4. RxLength' = n + 1
      <3>1. put_index' = Inc(Rest(g + n, bufsz))  BY <1>1, <1>4
      <3>2. put_index' = Rest(g + n + 1, bufsz)  BY <1>t, <1>s, <1>4, <1>6, <3>1 DEF Rest, Inc
      <3>. QED  BY <1>t, <1>s, <1>4, <1>6, <2>2, <3>2 DEF RxLength, Rest
    <2>5. RingOK'
      <3>1. buffer' \in [Slot -> Byte]  BY <1>t, <1>1, <1>2
      <3>2. put_index' \in Slot  BY <1>t, <1>s, <1>1 DEF Inc
      <3>. QED  BY <1>t, <1>1, <1>2, <2>2, <2>3, <3>1, <3>2 DEF RingOK, RxTypeOK, NeverQuiteFull
    <2>. QED  BY <2>2, <2>4, <2>5
  <1>7. RingOK'  BY <1>5, <1>6
  <1>8. ContentIs'  BY <1>7, ContentOK, PTL
  <1> DEFINE old == IF n = bufsz - 1 THEN Tail(Content) ELSE Content
  <1>9. Content \in Seq(Byte) /\ Len(Content) = n /\ Content' \in Seq(Byte) /\ Len(Content') = RxLength'
    BY <1>3, <1>8 DEF ContentIs, n
  <1>10. old \in Seq(Byte) /\ Len(old) = (IF n = bufsz - 1 THEN n - 1 ELSE n)
    <2>1. CASE n = bufsz - 1
      <3>1. Content # <<>>  BY <1>s, <1>9, <2>1
      <3>. QED  BY <1>9, <2>1, <3>1, HeadTailProperties
    <2>2. CASE n # bufsz - 1  BY <1>9, <2>2
    <2>. QED  BY <2>1, <2>2
  <1>11. Append(old, b) \in Seq(Byte) /\ Len(Append(old, b)) = Len(old) + 1
    BY <1>2, <1>10
  <1>12. Len(Append(old, b)) = RxLength'
    BY <1>4, <1>5, <1>6, <1>10, <1>11
  <1>13. ASSUME NEW i \in 1..RxLength'
         PROVE  Content'[i] = Append(old, b)[i]
    <2>1. Content'[i] = buffer'[Rest(get_index' + i - 1, bufsz)]
          /\ Rest(get_index' + i - 1, bufsz) \in Slot
      BY <1>8 DEF ContentIs
    <2> DEFINE j == Rest(get_index' + i - 1, bufsz)
    <2>b. \A k \in Slot : buffer'[k] = IF k = put_index THEN b ELSE buffer[k]  BY <1>t, <1>1
    <2>2. CASE n = bufsz - 1
      <3>1. RxLength' = n /\ get_index' = Inc(g)  BY <1>5, <2>2
      <3>2. j = Rest(g + i, bufsz)  BY <1>t, <1>s, <1>4, <2>2, <3>1 DEF Rest, Inc
      <3>3. CASE i = n
        <4>1. j = put_index  BY <1>4, <3>2, <3>3
        <4>2. Append(old, b)[i] = b  BY <1>2, <1>10, <2>2, <3>3, <1>4, <1>s
        <4>. QED  BY <2>1, <2>b, <4>1, <4>2
      <3>4. CASE i # n
        <4>1. i + 1 \in 1..n /\ i \in 1..n - 1  BY <1>4, <3>1, <3>4
        <4>2. Content[i + 1] = buffer[Rest(g + (i + 1) - 1, bufsz)]  BY <1>3, <4>1 DEF ContentIs, n
        <4>3. g + (i + 1) - 1 = g + i  BY <1>t, <1>s, <4>1
        <4>4. j # put_index  BY <1>t, <1>s, <1>4, <2>2, <3>2, <4>1 DEF Rest
        <4>5. Tail(Content)[i] = Content[i + 1]
          <5>1. Content # <<>>  BY <1>9, <4>1
          <5>. QED  BY <1>9, <4>1, <5>1, HeadTailProperties
        <4>6. Append(old, b)[i] = old[i]  BY <1>2, <1>10, <2>2, <4>1
        <4>. QED  BY <2>1, <2>2, <2>b, <3>2, <4>2, <4>3, <4>4, <4>5, <4>6
      <3>. QED  BY <3>3, <3>4
    <2>3. CASE n # bufsz - 1
      <3>1. RxLength' = n + 1 /\ get_index' = g  BY <1>6, <2>3
      <3>3. CASE i = n + 1
        <4>1. j = put_index
          <5>1. g + i - 1 = g + n  BY <1>t, <1>s, <1>4, <3>3
          <5>. QED  BY <1>4, <3>1, <5>1
        <4>2. Append(old, b)[i] = b  BY <1>2, <1>10, <2>3, <3>3, <1>4
        <4>. QED  BY <2>1, <2>b, <4>1, <4>2
      <3>4. CASE i # n + 1
        <4>1. i \in 1..n  BY <1>4, <3>1, <3>4
        <4>2. Content[i] = buffer[Rest(g + i - 1, bufsz)]  BY <1>3, <4>1 DEF ContentIs, n
        <4>4. j # put_index  BY <1>t, <1>s, <1>4, <3>1, <4>1 DEF Rest
        <4>6. Append(old, b)[i] = old[i]  BY <1>2, <1>10, <2>3, <4>1
        <4>. QED  BY <2>1, <2>3, <2>b, <3>1, <4>2, <4>4, <4>6
      <3>. QED  BY <3>3, <3>4
    <2>. QED  BY <2>2, <2>3
  <1>14. Content' = Append(old, b)
    BY <1>9, <1>11, <1>12, <1>13, SeqEqual
  <1>15. Queue!Put(b)  BY <1>9, <1>14 DEF Queue!Put
  <1>. QED  BY <1>1, <1>2, <1>7, <1>15

\* A byte read is the oldest one.
LEMMA ReadOK ==
  ASSUME RingOK, NEW b \in Byte, ReadByte(b), ch' = b
  PROVE  RingOK' /\ Queue!Get
  <1> DEFINE n == RxLength
             g == get_index
  <1>t. /\ buffer \in [Slot -> Byte] /\ put_index \in Slot /\ get_index \in Slot
        /\ is_full \in BOOLEAN
    BY DEF RingOK, RxTypeOK
  <1>s. Slot = 0..(bufsz - 1) /\ bufsz \in Nat /\ bufsz > 1  BY SizesOK DEF Slot
  <1>1. /\ ~IsEmpty /\ b = buffer[g] /\ get_index' = Inc(g) /\ is_full' = FALSE
        /\ UNCHANGED <<buffer, put_index, hw, isr>>
    BY DEF ReadByte, Taken
  <1>3. LengthIs /\ ContentIs  BY LengthOK, ContentOK
  <1>4. n \in 1..(bufsz - 1) /\ put_index = Rest(g + n, bufsz)  BY <1>s, <1>1, <1>3 DEF LengthIs
  <1> HIDE DEF n
  <1>5. RingOK'
    <2>1. get_index' \in Slot  BY <1>t, <1>s, <1>1 DEF Inc
    <2>. QED  BY <1>1, <2>1 DEF RingOK, RxTypeOK, NeverQuiteFull
  <1>6. RxLength' = n - 1
    <2>1. put_index' = Rest(g + n, bufsz)  BY <1>1, <1>4
    <2>. QED  BY <1>t, <1>s, <1>1, <1>4, <2>1 DEF RxLength, Rest, Inc
  <1>8. ContentIs'  BY <1>5, ContentOK, PTL
  <1>9. Content \in Seq(Byte) /\ Len(Content) = n /\ Content' \in Seq(Byte) /\ Len(Content') = n - 1
    BY <1>3, <1>6, <1>8 DEF ContentIs, n
  <1>10. Content # <<>>  BY <1>4, <1>9
  <1>11. Tail(Content) \in Seq(Byte) /\ Len(Tail(Content)) = n - 1
         /\ \A i \in 1..(n - 1) : Tail(Content)[i] = Content[i + 1]
    BY <1>9, <1>10, HeadTailProperties
  <1>12. ASSUME NEW i \in 1..(n - 1) PROVE Content'[i] = Tail(Content)[i]
    <2>1. Content'[i] = buffer[Rest(Inc(g) + i - 1, bufsz)]  BY <1>1, <1>6, <1>8 DEF ContentIs
    <2>2. i + 1 \in 1..n  BY <1>4
    <2>3. Content[i + 1] = buffer[Rest(g + (i + 1) - 1, bufsz)]  BY <1>3, <2>2 DEF ContentIs, n
    <2>4. Rest(Inc(g) + i - 1, bufsz) = Rest(g + (i + 1) - 1, bufsz)
      BY <1>t, <1>s, <1>4 DEF Rest, Inc
    <2>. QED  BY <1>11, <2>1, <2>3, <2>4
  <1>13. Content' = Tail(Content)  BY <1>9, <1>11, <1>12, SeqEqual
  <1>14. ch' = Head(Content)
    <2>1. 1 \in 1..n  BY <1>4
    <2>2. Content[1] = buffer[Rest(g + 1 - 1, bufsz)]  BY <1>3, <2>1 DEF ContentIs, n
    <2>3. Rest(g + 1 - 1, bufsz) = g  BY <1>t, <1>s DEF Rest
    <2>4. Head(Content) = Content[1]  BY <1>9, <1>10
    <2>. QED  BY <1>1, <2>2, <2>3, <2>4
  <1>. QED  BY <1>5, <1>10, <1>13, <1>14 DEF Queue!Get

\* What leaves the ring alone leaves its content alone.
LEMMA RingStays ==
  ASSUME RingOK, UNCHANGED <<buffer, put_index, get_index, is_full>>
  PROVE  Content' = Content /\ NeverQuiteFull' /\ IsEmpty' = IsEmpty
  BY DEF RingOK, Content, RxLength, NeverQuiteFull, IsEmpty

-----------------------------------------------------------------------------
(* The line. *)

\* The cell of the i-th byte of the echo.
CellOf(i) == (line_position - Len(echoed) + i - 1) % FINSH_CMD_SIZE

CellsAre ==
  /\ Len(echoed) \in Nat
  /\ \A i \in 1..Len(echoed) :
       /\ CellOf(i) = Rest(line_position - Len(echoed) + i - 1, FINSH_CMD_SIZE)
       /\ CellOf(i) \in Cell

\* The cells of the line buffer that hold the last bytes echoed.
LEMMA CellsOK == LineTypes => CellsAre
  <1> SUFFICES ASSUME LineTypes PROVE CellsAre  OBVIOUS
  <1>1. Len(echoed) \in Nat  BY DEF LineTypes
  <1>2. line_position \in 0..(FINSH_CMD_SIZE - 1)  BY DEF LineTypes, Cell
  <1>3. ASSUME NEW i \in 1..Len(echoed)
        PROVE  /\ CellOf(i) = Rest(line_position - Len(echoed) + i - 1, FINSH_CMD_SIZE)
               /\ CellOf(i) \in Cell
    <2> DEFINE x == line_position - Len(echoed) + i - 1
    <2>1. x \in Int /\ -FINSH_CMD_SIZE <= x /\ x < 2 * FINSH_CMD_SIZE  BY <1>1, <1>2, SizesOK DEF LineTypes
    <2> HIDE DEF x
    <2>2. x % FINSH_CMD_SIZE = Rest(x, FINSH_CMD_SIZE) /\ Rest(x, FINSH_CMD_SIZE) \in Cell
      BY <2>1, RestOK, SizesOK DEF Cell
    <2>. QED  BY <2>2 DEF x, CellOf
  <1>. QED  BY <1>1, <1>3 DEF CellsAre

\* A byte that is put in: the echo is as long as the line, or turns with it.
LEMMA InsertOK ==
  ASSUME LineTypes, EchoOK, ch \in Byte, Insert
  PROVE  LineTypes' /\ EchoOK'
  <1> DEFINE n == Len(echoed)
             p == line_position
             S == FINSH_CMD_SIZE
  <1>t. /\ line \in [Cell -> Byte] /\ p \in 0..(S - 1) /\ line_curpos = p
        /\ echoed \in Seq(Byte) /\ n \in Nat /\ n <= S
    BY DEF LineTypes, EchoOK, LineIsEcho, Cell
  <1>s. S \in Nat /\ S > 1 /\ Cell = 0..(S - 1)  BY SizesOK DEF Cell
  <1>1. ~Wraps(p)  BY <1>t, <1>s DEF Wraps
  <1>2. /\ pc' = "read"
        /\ line' = [line EXCEPT ![p] = ch] /\ echoed' = LastOf(Append(echoed, ch))
        /\ line_position' = IF p + 1 >= S THEN 0 ELSE p + 1
        /\ line_curpos' = IF p + 1 >= S THEN 0 ELSE p + 1
    BY <1>1, <1>t DEF Insert, Editing, Wraps
  <1>3. /\ n < S => p = n /\ \A i \in Cell : i >= n => line[i] = NUL
        /\ \A i \in 1..n : line[CellOf(i)] = echoed[i]
    BY DEF EchoOK, LineIsEcho, CellOf
  <1>4. CellsAre  BY CellsOK
  <1>5. \A k \in Cell : line'[k] = IF k = p THEN ch ELSE line[k]  BY <1>t, <1>s, <1>2
  <1>a. Append(echoed, ch) \in Seq(Byte) /\ Len(Append(echoed, ch)) = n + 1
        /\ Append(echoed, ch)[n + 1] = ch
        /\ \A i \in 1..n : Append(echoed, ch)[i] = echoed[i]
    BY <1>t
  <1>6. ASSUME n < S
        PROVE  echoed' = Append(echoed, ch)
    BY <1>t, <1>s, <1>2, <1>a, <1>6 DEF LastOf
  <1>7. ASSUME n = S
        PROVE  /\ echoed' \in Seq(Byte) /\ Len(echoed') = n /\ echoed'[n] = ch
               /\ \A i \in 1..(n - 1) : echoed'[i] = echoed[i + 1]
    <2>1. echoed' = Tail(Append(echoed, ch))  BY <1>t, <1>s, <1>2, <1>a, <1>7 DEF LastOf
    <2>2. Append(echoed, ch) # <<>>  BY <1>t, <1>a
    <2>. QED  BY <1>t, <1>s, <1>a, <1>7, <2>1, <2>2, HeadTailProperties
  <1>8. echoed' \in Seq(Byte) /\ Len(echoed') = IF n < S THEN n + 1 ELSE n
    <2>1. CASE n < S  BY <1>a, <1>6, <2>1
    <2>2. CASE n = S  BY <1>7, <2>2
    <2>. QED  BY <1>t, <1>s, <2>1, <2>2
  <1>9. LineTypes'
    <2>1. line' \in [Cell -> Byte]  BY <1>t, <1>2
    <2>2. line_position' \in Cell /\ line_curpos' \in Cell  BY <1>t, <1>s, <1>2
    <2>3. Len(echoed') <= S  BY <1>t, <1>s, <1>8
    <2>. QED  BY <1>8, <2>1, <2>2, <2>3 DEF LineTypes
  <1>11. CellsAre'  BY <1>9, CellsOK, PTL
  <1> HIDE DEF CellOf
  <1>12. ASSUME NEW i \in 1..Len(echoed')
         PROVE  line'[CellOf(i)'] = echoed'[i]
    <2>1. /\ CellOf(i)' = Rest(line_position' - Len(echoed') + i - 1, S)
          /\ CellOf(i)' \in Cell
      BY <1>11 DEF CellsAre
    <2>2. CASE n < S
      <3>1. Len(echoed') = n + 1 /\ echoed' = Append(echoed, ch) /\ p = n
        <4>1. Len(echoed') = n + 1  BY <1>8, <2>2
        <4>2. echoed' = Append(echoed, ch)  BY <1>6, <2>2
        <4>3. p = n  BY <1>t, <1>s, <1>3, <2>2
        <4>. QED  BY <4>1, <4>2, <4>3
      <3>2. CellOf(i)' = i - 1
        <4>1. i \in 1..(n + 1)  BY <3>1
        <4>2. CellOf(i)' = Rest(line_position' - (n + 1) + i - 1, S)  BY <2>1, <3>1
        <4>3. CASE n + 1 >= S
          <5>1. line_position' = 0 /\ n + 1 = S  BY <1>t, <1>s, <1>2, <3>1, <4>3
          <5>2. CellOf(i)' = Rest(0 - S + i - 1, S)  BY <4>2, <5>1
          <5>. QED  BY <1>t, <1>s, <4>1, <5>1, <5>2 DEF Rest
        <4>4. CASE ~(n + 1 >= S)
          <5>1. line_position' = n + 1  BY <1>2, <3>1, <4>4
          <5>2. CellOf(i)' = Rest((n + 1) - (n + 1) + i - 1, S)  BY <4>2, <5>1
          <5>3. (n + 1) - (n + 1) + i - 1 = i - 1 /\ i - 1 >= 0 /\ i - 1 < S
            BY <1>t, <1>s, <4>1, <4>4
          <5>. QED  BY <1>t, <1>s, <4>1, <5>2, <5>3 DEF Rest
        <4>. QED  BY <4>3, <4>4
      <3>3. CASE i = n + 1  BY <1>t, <1>s, <1>5, <1>a, <2>1, <3>1, <3>2, <3>3
      <3>4. CASE i # n + 1
        <4>1. i \in 1..n  BY <1>t, <3>1, <3>4
        <4>2. line[CellOf(i)] = echoed[i]  BY <1>3, <4>1
        <4>3. CellOf(i) = i - 1  BY <1>t, <1>s, <1>4, <3>1, <4>1 DEF CellsAre, Rest
        <4>4. CellOf(i)' # p  BY <1>t, <3>1, <3>2, <4>1
        <4>5. line'[CellOf(i)'] = line[CellOf(i)]  BY <1>5, <2>1, <3>2, <4>3, <4>4
        <4>. QED  BY <1>a, <3>1, <4>1, <4>2, <4>5
      <3>. QED  BY <3>3, <3>4
    <2>3. CASE n = S
      <3>1. Len(echoed') = n  BY <1>8, <2>3, <1>t
      <3>2. CellOf(i)' = Rest(p - S + i, S)  BY <1>t, <1>s, <1>2, <2>1, <2>3, <3>1 DEF Rest
      <3>3. CASE i = n
        <4>1. CellOf(i)' = p  BY <1>t, <1>s, <2>3, <3>2, <3>3 DEF Rest
        <4>. QED  BY <1>5, <1>7, <2>1, <2>3, <3>3, <4>1
      <3>4. CASE i # n
        <4>1. i + 1 \in 1..n /\ i \in 1..(n - 1)  BY <1>t, <3>1, <3>4
        <4>2. line[CellOf(i + 1)] = echoed[i + 1]  BY <1>3, <4>1
        <4>3. CellOf(i + 1) = Rest(p - n + (i + 1) - 1, S)  BY <1>4, <4>1 DEF CellsAre
        <4>4. CellOf(i + 1) = CellOf(i)'  BY <1>t, <1>s, <2>3, <3>2, <4>1, <4>3 DEF Rest
        <4>5. CellOf(i)' # p  BY <1>t, <1>s, <2>3, <3>2, <4>1 DEF Rest
        <4>6. line'[CellOf(i)'] = line[CellOf(i + 1)]  BY <1>5, <2>1, <4>4, <4>5
        <4>. QED  BY <1>7, <2>3, <4>1, <4>2, <4>6
      <3>. QED  BY <3>3, <3>4
    <2>. QED  BY <1>t, <1>s, <2>2, <2>3
  <1>13. ASSUME Len(echoed') < S
         PROVE  line_position' = Len(echoed') /\ \A i \in Cell : i >= Len(echoed') => line'[i] = NUL
    <2>1. n < S /\ Len(echoed') = n + 1 /\ p = n  BY <1>t, <1>s, <1>3, <1>8, <1>13
    <2>2. line_position' = n + 1  BY <1>t, <1>s, <1>2, <1>13, <2>1
    <2>3. ASSUME NEW i \in Cell, i >= n + 1 PROVE line'[i] = NUL
      <3>1. i >= n /\ i # p  BY <1>t, <1>s, <2>1, <2>3
      <3>. QED  BY <1>3, <1>5, <2>1, <3>1
    <2>. QED  BY <2>1, <2>2, <2>3
  <1>14. \A i \in 1..Len(echoed') :
           line'[(line_position' - Len(echoed') + i - 1) % S] = echoed'[i]
    BY <1>12 DEF CellOf
  <1>15. LineIsEcho'  BY <1>2, <1>13, <1>14 DEF LineIsEcho
  <1>. QED  BY <1>2, <1>9, <1>15 DEF EchoOK

\* An empty line behind a prompt.
LEMMA EmptyLineOK ==
  ASSUME line' = Blank, line_position' = 0, line_curpos' = 0, echoed' = <<>>
  PROVE  LineTypes' /\ EchoOK'
  <1>1. Len(echoed') = 0 /\ echoed' \in Seq(Byte)  OBVIOUS
  <1>2. line' \in [Cell -> Byte] /\ \A i \in Cell : line'[i] = NUL  BY SizesOK DEF Blank
  <1>3. 0 \in Cell  BY SizesOK DEF Cell
  <1>4. LineIsEcho'  BY <1>1, <1>2 DEF LineIsEcho
  <1>. QED  BY <1>1, <1>2, <1>3, <1>4, SizesOK DEF LineTypes, EchoOK

\* What does not touch the line leaves what is known of it.
LEMMA LineStays ==
  ASSUME LineTypes, EchoOK, UNCHANGED lineVars, pc' = "attach" => pc = "attach"
  PROVE  LineTypes' /\ EchoOK'
  BY DEF LineTypes, EchoOK, LineIsEcho, lineVars

-----------------------------------------------------------------------------
(* The whole. *)

\* How a count may move below a bound.
LEMMA CountOK ==
  ASSUME NEW x \in Nat, NEW y \in Nat, NEW m \in Nat
  PROVE  /\ y <= x => (x <= m => y <= m) /\ (x + 1 <= m => y + 1 <= m)
         /\ y <= x + 1 => (x + 1 <= m => y <= m) /\ (x + 2 <= m => y + 1 <= m)
  OBVIOUS

\* The shell starts with an empty ring and line.
LEMMA InitOK == Init => IInv
  <1> SUFFICES ASSUME Init PROVE IInv  OBVIOUS
  <1>1. /\ buffer = [i \in Slot |-> NUL] /\ put_index = 0 /\ get_index = 0 /\ is_full = FALSE
        /\ hw = <<>> /\ isr = "none" /\ pc = "attach" /\ ch = buffer[0]
        /\ rx_sem = 0 /\ indicate = FALSE
        /\ line = Blank /\ line_position = 0 /\ line_curpos = 0 /\ echoed = <<>>
    BY DEF Init, RxInit
  <1>2. 0 \in Slot /\ buffer \in [Slot -> Byte] /\ ch \in Byte  BY <1>1, SizesOK DEF Slot
  <1>3. hw \in Seq(Byte) /\ Len(hw) = 0  BY <1>1
  <1>4. RxTypeOK  
    <2>1. is_full \in BOOLEAN  BY <1>1
    <2>2. isr \in {"none", "loop", "indicate"}  BY <1>1
    <2>3. Len(hw) <= HwDepth  BY <1>3, SizesOK
    <2>4. put_index \in Slot /\ get_index \in Slot  BY <1>1, <1>2
    <2>. QED  BY <1>2, <1>3, <2>1, <2>2, <2>3, <2>4 DEF RxTypeOK
  <1>5. Len(echoed) = 0 /\ echoed \in Seq(Byte)  BY <1>1
  <1>6. line \in [Cell -> Byte] /\ \A i \in Cell : line[i] = NUL  BY <1>1, SizesOK DEF Blank
  <1>7. 0 \in Cell  BY SizesOK DEF Cell
  <1>8. TypeOK  
    <2>1. indicate \in BOOLEAN  BY <1>1
    <2>2. pc \in {"attach", "read", "take", "wait", "edit"}  BY <1>1
    <2>3. rx_sem \in 0..SemMax  BY <1>1, SizesOK
    <2>4. line_position \in Cell /\ line_curpos \in Cell  BY <1>1, <1>7
    <2>. QED  BY <1>2, <1>4, <1>5, <1>6, <2>1, <2>2, <2>3, <2>4 DEF TypeOK
  <1>9. LineTypes  BY <1>1, <1>5, <1>6, <1>7, SizesOK DEF LineTypes
  <1>10. EchoOK  BY <1>1, <1>5, <1>6 DEF EchoOK, LineIsEcho
  <1>11. NeverQuiteFull /\ NoticeOK  BY <1>1 DEF NeverQuiteFull, NoticeOK, InputNotStuck
  <1>12. SemOK  BY <1>1, SizesOK DEF SemOK
  <1>. QED  BY <1>8, <1>9, <1>10, <1>11, <1>12 DEF IInv

\* A step keeps the invariant, and is one of the queue or none.
LEMMA StepOK == IInv /\ [Next]_vars => IInv' /\ [Queue!Next]_<<Content, ch>>
  <1> SUFFICES ASSUME IInv, [Next]_vars
               PROVE  IInv' /\ [Queue!Next]_<<Content, ch>>
    OBVIOUS
  <1>t. /\ RxTypeOK /\ NeverQuiteFull /\ RingOK /\ LineTypes /\ EchoOK
        /\ buffer \in [Slot -> Byte] /\ put_index \in Slot /\ get_index \in Slot
        /\ is_full \in BOOLEAN /\ hw \in Seq(Byte) /\ Len(hw) <= HwDepth
        /\ isr \in {"none", "loop", "indicate"}
        /\ pc \in {"attach", "read", "take", "wait", "edit"}
        /\ ch \in Byte /\ rx_sem \in 0..SemMax /\ indicate \in BOOLEAN
    BY DEF IInv, TypeOK, RxTypeOK, RingOK
  <1>p. rx_sem \in Nat /\ SemMax \in Nat  BY <1>t, SizesOK
  <1>q. SemOK  BY DEF IInv
  <1>n. /\ indicate = (pc # "attach")
        /\ pc = "take" /\ ~IsEmpty => rx_sem > 0 \/ isr # "none"
        /\ pc = "wait" /\ isr = "none" => IsEmpty
    BY DEF IInv, NoticeOK, InputNotStuck
  <1>r. ASSUME UNCHANGED <<buffer, put_index, get_index, is_full>>
        PROVE  Content' = Content /\ NeverQuiteFull' /\ IsEmpty' = IsEmpty
    BY <1>t, <1>r, RingStays
  <1>l. ASSUME UNCHANGED lineVars, pc' = "attach" => pc = "attach"
        PROVE  LineTypes' /\ EchoOK'
    BY <1>t, <1>l, LineStays
  <1>i. ASSUME RxTypeOK', NeverQuiteFull', LineTypes', EchoOK', SemOK', NoticeOK', rx_sem' \in Nat,
               pc' \in {"attach", "read", "take", "wait", "edit"}, ch' \in Byte, indicate' \in BOOLEAN
        PROVE  IInv'
    <2>2. rx_sem' \in 0..SemMax  BY <1>i, <1>p DEF SemOK
    <2>. QED  BY <1>i, <2>2 DEF IInv, TypeOK, LineTypes
  <1>1. ASSUME NEW b \in Byte, ByteComes(b)  PROVE IInv' /\ Content' = Content /\ ch' = ch
    <2>1. /\ rx_sem + 1 < SemMax /\ Len(hw) < HwDepth /\ hw' = Append(hw, b)
          /\ UNCHANGED <<buffer, put_index, get_index, is_full, isr, pc, ch, rx_sem, indicate, lineVars>>
      BY <1>1 DEF ByteComes, Arrive, fifo
    <2>2. Content' = Content /\ NeverQuiteFull' /\ IsEmpty' = IsEmpty  BY <2>1, <1>r
    <2>3. LineTypes' /\ EchoOK'  BY <2>1, <1>l
    <2>4. hw' \in Seq(Byte) /\ Len(hw') <= HwDepth  BY <1>t, <2>1, SizesOK
    <2>5. RxTypeOK'  BY <1>t, <2>1, <2>4 DEF RxTypeOK
    <2>6. SemOK'  BY <1>q, <1>p, <2>1 DEF SemOK
    <2>7. NoticeOK'  BY <1>n, <2>1, <2>2 DEF NoticeOK, InputNotStuck
    <2>. QED  BY <1>t, <1>i, <2>1, <2>2, <2>3, <2>5, <2>6, <2>7
  <1>2. CASE IsrEnter /\ UNCHANGED <<pc, ch, rx_sem, indicate, lineVars>>
    <2>1. /\ isr = "none" /\ hw # <<>> /\ isr' = "loop"
          /\ UNCHANGED <<buffer, put_index, get_index, is_full, hw, pc, ch, rx_sem, indicate, lineVars>>
      BY <1>2 DEF IsrEnter, fifo
    <2>2. Content' = Content /\ NeverQuiteFull' /\ IsEmpty' = IsEmpty  BY <2>1, <1>r
    <2>3. LineTypes' /\ EchoOK'  BY <2>1, <1>l
    <2>5. RxTypeOK'  BY <1>t, <2>1 DEF RxTypeOK
    <2>6. SemOK'  BY <1>q, <1>p, <2>1 DEF SemOK
    <2>7. NoticeOK'  BY <1>n, <2>1, <2>2 DEF NoticeOK, InputNotStuck
    <2>. QED  BY <1>t, <1>i, <2>1, <2>2, <2>3, <2>5, <2>6, <2>7
  <1>3. CASE IsrByte /\ UNCHANGED <<pc, ch, rx_sem, indicate, lineVars>>
    <2>1. RingOK' /\ isr' = isr /\ \E b \in Byte : Queue!Put(b)  BY <1>t, <1>3, ByteOK
    <2>2. isr = "loop"  BY <1>3 DEF IsrByte
    <2>3. LineTypes' /\ EchoOK'  BY <1>3, <1>l
    <2>4. RxTypeOK' /\ NeverQuiteFull'  BY <2>1 DEF RingOK
    <2>5. SemOK'  BY <1>q, <1>p, <1>3, <2>1, <2>2 DEF SemOK
    <2>6. NoticeOK'  BY <1>n, <1>3, <2>1, <2>2 DEF NoticeOK, InputNotStuck
    <2>7. IInv'  BY <1>t, <1>i, <1>3, <2>3, <2>4, <2>5, <2>6
    <2>. QED  BY <2>1, <2>7 DEF Queue!Next
  <1>4. CASE IsrDrained /\ UNCHANGED <<pc, ch, rx_sem, indicate, lineVars>>
    <2>1. /\ isr = "loop" /\ hw = <<>> /\ isr' = "indicate"
          /\ UNCHANGED <<buffer, put_index, get_index, is_full, hw, pc, ch, rx_sem, indicate, lineVars>>
      BY <1>4 DEF IsrDrained, fifo
    <2>2. Content' = Content /\ NeverQuiteFull' /\ IsEmpty' = IsEmpty  BY <2>1, <1>r
    <2>3. LineTypes' /\ EchoOK'  BY <2>1, <1>l
    <2>5. RxTypeOK'  BY <1>t, <2>1 DEF RxTypeOK
    <2>6. SemOK'  BY <1>q, <1>p, <2>1 DEF SemOK
    <2>7. NoticeOK'  BY <1>n, <2>1, <2>2 DEF NoticeOK, InputNotStuck
    <2>. QED  BY <1>t, <1>i, <2>1, <2>2, <2>3, <2>5, <2>6, <2>7
  <1>5. CASE IsrLeave
    <2>1. /\ isr = "indicate" /\ isr' = "none"
          /\ UNCHANGED <<buffer, put_index, get_index, is_full, hw, ch, indicate, lineVars>>
          /\ IF indicate THEN Release ELSE UNCHANGED <<pc, rx_sem>>
      BY <1>5 DEF IsrLeave, fifo
    <2>2. Content' = Content /\ NeverQuiteFull' /\ IsEmpty' = IsEmpty  BY <2>1, <1>r
    <2>r. /\ pc' = IF pc = "wait" THEN "read" ELSE pc
          /\ rx_sem' \in {rx_sem, rx_sem + 1}
          /\ pc \notin {"attach", "wait"} => rx_sem' = rx_sem + 1
      <3>1. CASE indicate  BY <2>1, <3>1, <1>t DEF Release
      <3>2. CASE ~indicate  BY <1>n, <2>1, <3>2
      <3>. QED  BY <3>1, <3>2, <1>t
    <2>3. LineTypes' /\ EchoOK'  BY <2>1, <2>r, <1>l
    <2>5. RxTypeOK'  BY <1>t, <2>1 DEF RxTypeOK
    <2>6. SemOK'
      <3>1. rx_sem' \in Nat /\ rx_sem' <= rx_sem + 1  BY <1>p, <2>r
      <3>2. /\ rx_sem + 1 <= SemMax => rx_sem' <= SemMax
            /\ rx_sem + 2 <= SemMax => rx_sem' + 1 <= SemMax
        BY <1>p, <3>1, CountOK
      <3>. QED  BY <1>q, <2>1, <3>2 DEF SemOK
    <2>7. NoticeOK'
      <3>1. indicate' = (pc' # "attach")  BY <1>n, <2>1, <2>r
      <3>2. pc' # "wait"  BY <2>r
      <3>3. pc' = "take" => rx_sem' > 0  BY <1>p, <2>r
      <3>. QED  BY <3>1, <3>2, <3>3 DEF NoticeOK, InputNotStuck
    <2>8. rx_sem' \in Nat /\ pc' \in {"attach", "read", "take", "wait", "edit"}  BY <1>t, <1>p, <2>r
    <2>. QED  BY <1>t, <1>i, <2>1, <2>2, <2>3, <2>5, <2>6, <2>7, <2>8
  <1>6. ASSUME isr = "none", UNCHANGED <<buffer, put_index, get_index, is_full, hw, isr, rx_sem>>,
               LineTypes', EchoOK', pc' \in {"read", "edit"}, indicate' = TRUE, ch' \in Byte
        PROVE  IInv' /\ Content' = Content
    <2>2. Content' = Content /\ NeverQuiteFull' /\ IsEmpty' = IsEmpty  BY <1>6, <1>r
    <2>5. RxTypeOK'  BY <1>t, <1>6 DEF RxTypeOK
    <2>6. SemOK'  BY <1>q, <1>p, <1>6 DEF SemOK
    <2>7. NoticeOK'  BY <1>6 DEF NoticeOK, InputNotStuck
    <2>. QED  BY <1>p, <1>i, <1>6, <2>2, <2>5, <2>6, <2>7
  <1>7. CASE Attach
    <2>1. /\ isr = "none" /\ pc = "attach" /\ pc' = "read" /\ indicate' = TRUE /\ line' = Blank
          /\ UNCHANGED <<buffer, put_index, get_index, is_full, hw, isr, rx_sem, ch,
                         line_position, line_curpos, echoed>>
      BY <1>7 DEF Attach, rxVars, fifo
    <2>2. echoed = <<>> /\ line_position = 0 /\ line_curpos = 0
      <3>1. echoed = <<>>  BY <2>1, <1>t DEF EchoOK
      <3>2. Len(echoed) = 0  BY <3>1
      <3>. QED  BY <3>1, <3>2, <1>t, SizesOK DEF EchoOK, LineIsEcho
    <2>3. LineTypes' /\ EchoOK'  BY <2>1, <2>2, EmptyLineOK
    <2>. QED  BY <1>t, <1>6, <2>1, <2>3
  <1>8. CASE GetChar
    <2>1. pc = "read" /\ UNCHANGED <<rx_sem, indicate, lineVars>>  BY <1>8 DEF GetChar
    <2>2. ASSUME NEW b \in Byte, ReadByte(b), ch' = b, pc' = "edit"
          PROVE  IInv' /\ [Queue!Next]_<<Content, ch>>
      <3>1. RingOK' /\ Queue!Get  BY <1>t, <2>2, ReadOK
      <3>2. UNCHANGED <<hw, isr>>  BY <2>2 DEF ReadByte
      <3>3. LineTypes' /\ EchoOK'  BY <2>1, <2>2, <1>l
      <3>4. RxTypeOK' /\ NeverQuiteFull'  BY <3>1 DEF RingOK
      <3>5. SemOK'  BY <1>q, <1>p, <2>1, <3>2 DEF SemOK
      <3>6. NoticeOK'  BY <1>n, <2>1, <2>2 DEF NoticeOK, InputNotStuck
      <3>7. IInv'  BY <1>t, <1>i, <2>1, <2>2, <3>3, <3>4, <3>5, <3>6
      <3>. QED  BY <3>1, <3>7 DEF Queue!Next
    <2>3. ASSUME ReadNone, pc' = "take", UNCHANGED ch
          PROVE  IInv' /\ Content' = Content
      <3>1. IsEmpty /\ UNCHANGED <<buffer, put_index, get_index, is_full, hw, isr>>
        BY <2>3 DEF ReadNone, rxVars, fifo
      <3>2. Content' = Content /\ NeverQuiteFull' /\ IsEmpty' = IsEmpty  BY <3>1, <1>r
      <3>3. LineTypes' /\ EchoOK'  BY <2>1, <2>3, <1>l
      <3>4. RxTypeOK'  BY <1>t, <3>1 DEF RxTypeOK
      <3>5. SemOK'  BY <1>q, <1>p, <2>1, <3>1 DEF SemOK
      <3>6. NoticeOK'  BY <1>n, <2>1, <2>3, <3>1, <3>2 DEF NoticeOK, InputNotStuck
      <3>. QED  BY <1>t, <1>i, <2>1, <2>3, <3>2, <3>3, <3>4, <3>5, <3>6
    <2>. QED  BY <1>8, <2>2, <2>3 DEF GetChar
  <1>9. CASE Take
    <2>1. /\ isr = "none" /\ pc = "take"
          /\ UNCHANGED <<buffer, put_index, get_index, is_full, hw, isr, ch, indicate, lineVars>>
          /\ IF rx_sem > 0 THEN rx_sem' = rx_sem - 1 /\ pc' = "read"
             ELSE pc' = "wait" /\ UNCHANGED rx_sem
      BY <1>9 DEF Take, rxVars, fifo
    <2>2. Content' = Content /\ NeverQuiteFull' /\ IsEmpty' = IsEmpty  BY <2>1, <1>r
    <2>3. LineTypes' /\ EchoOK'  BY <2>1, <1>l
    <2>4. RxTypeOK'  BY <1>t, <2>1 DEF RxTypeOK
    <2>5. rx_sem' \in Nat /\ rx_sem' <= rx_sem  BY <1>p, <2>1
    <2>6. SemOK'
      <3>1. /\ rx_sem <= SemMax => rx_sem' <= SemMax
            /\ rx_sem + 1 <= SemMax => rx_sem' + 1 <= SemMax
        BY <1>p, <2>5, CountOK
      <3>. QED  BY <1>q, <2>1, <3>1 DEF SemOK
    <2>7. NoticeOK'  BY <1>n, <1>p, <2>1, <2>2 DEF NoticeOK, InputNotStuck
    <2>. QED  BY <1>t, <1>i, <2>1, <2>2, <2>3, <2>4, <2>5, <2>6, <2>7
  <1>10. CASE SkipNul
    <2>1. /\ isr = "none" /\ pc = "edit" /\ pc' = "read"
          /\ UNCHANGED <<buffer, put_index, get_index, is_full, hw, isr, rx_sem, ch, indicate, lineVars>>
      BY <1>10 DEF SkipNul, Editing, rxVars, fifo
    <2>2. LineTypes' /\ EchoOK'  BY <2>1, <1>l
    <2>. QED  BY <1>t, <1>n, <1>6, <2>1, <2>2
  <1>11. CASE Enter
    <2>1. /\ isr = "none" /\ pc = "edit" /\ pc' = "read"
          /\ line' = Blank /\ line_position' = 0 /\ line_curpos' = 0 /\ echoed' = <<>>
          /\ UNCHANGED <<buffer, put_index, get_index, is_full, hw, isr, rx_sem, ch, indicate>>
      BY <1>11 DEF Enter, Editing, Cleared, rxVars, fifo
    <2>2. LineTypes' /\ EchoOK'  BY <2>1, EmptyLineOK
    <2>. QED  BY <1>t, <1>n, <1>6, <2>1, <2>2
  <1>12. CASE Insert
    <2>1. /\ isr = "none" /\ pc = "edit" /\ pc' = "read"
          /\ UNCHANGED <<buffer, put_index, get_index, is_full, hw, isr, rx_sem, ch, indicate>>
      BY <1>12 DEF Insert, Editing, rxVars, fifo
    <2>2. LineTypes' /\ EchoOK'  BY <1>t, <1>12, InsertOK
    <2>. QED  BY <1>t, <1>n, <1>6, <2>1, <2>2
  <1>13. CASE UNCHANGED vars
    <2>1. UNCHANGED <<buffer, put_index, get_index, is_full, hw, isr, pc, ch, rx_sem, indicate, lineVars>>
      BY <1>13 DEF vars, rxVars, fifo
    <2>2. Content' = Content /\ NeverQuiteFull' /\ IsEmpty' = IsEmpty  BY <2>1, <1>r
    <2>3. LineTypes' /\ EchoOK'  BY <2>1, <1>l
    <2>4. RxTypeOK'  BY <1>t, <2>1 DEF RxTypeOK
    <2>6. SemOK'  BY <1>q, <1>p, <2>1 DEF SemOK
    <2>7. NoticeOK'  BY <1>n, <2>1, <2>2 DEF NoticeOK, InputNotStuck
    <2>. QED  BY <1>t, <1>i, <2>1, <2>2, <2>3, <2>4, <2>6, <2>7
  <1>s. ASSUME ShellStep  PROVE IInv' /\ [Queue!Next]_<<Content, ch>>
    <2>1. CASE Attach
      <3>1. ch' = ch  BY <2>1 DEF Attach
      <3>. QED  BY <1>7, <2>1, <3>1
    <2>2. CASE Take
      <3>1. ch' = ch  BY <2>2 DEF Take
      <3>. QED  BY <1>9, <2>2, <3>1
    <2>3. CASE SkipNul \/ Enter \/ Insert
      <3>1. ch' = ch  BY <2>3 DEF SkipNul, Enter, Insert
      <3>. QED  BY <1>10, <1>11, <1>12, <2>3, <3>1
    <2>. QED  BY <1>8, <1>s, <2>1, <2>2, <2>3 DEF ShellStep
  <1>. QED  BY <1>1, <1>2, <1>3, <1>4, <1>5, <1>s, <1>13 DEF Next, Isr

\* The inductive invariant holds always.
THEOREM ShellInvariance == Spec => []IInv
  BY InitOK, StepOK, PTL DEF Spec

\* For rings, registers and lines of every size, the shell never sleeps beside
\* input, and equal indices of the ring never mean that it is full.
THEOREM NoInputStuck == Spec => [](TypeOK /\ NeverQuiteFull /\ InputNotStuck)
  <1>1. IInv => TypeOK /\ NeverQuiteFull /\ InputNotStuck  BY DEF IInv, NoticeOK
  <1>. QED  BY <1>1, ShellInvariance, PTL

\* For every size, the line the shell executes is the echo since the prompt, or
\* the end of it.
THEOREM ExecutesEcho == Spec => []LineIsEcho
  <1>1. IInv => LineIsEcho  BY DEF IInv, EchoOK
  <1>. QED  BY <1>1, ShellInvariance, PTL

\* The ring of any size, with its handler and its reader, is a queue that keeps
\* the newest bufsz - 1 bytes.
THEOREM RingIsQueue == Spec => InOrder
  <1>1. Init => Queue!Init
    <2> SUFFICES ASSUME Init PROVE Queue!Init  OBVIOUS
    <2>1. IInv  BY InitOK
    <2>2. RingOK /\ ch \in Byte  BY <2>1 DEF IInv, TypeOK, RingOK
    <2>3. Content \in Seq(Byte) /\ Len(Content) = RxLength  BY <2>2, ContentOK DEF ContentIs
    <2>4. RxLength = 0  BY SizesOK DEF Init, RxInit, RxLength
    <2>. QED  BY <2>2, <2>3, <2>4 DEF Queue!Init
  <1>. QED  BY <1>1, StepOK, ShellInvariance, PTL DEF Spec, InOrder, Queue!Spec

-----------------------------------------------------------------------------
(* The console device. *)

\* Between the critical steps of an open: the first one activates the device,
\* the flags stand before the ring, and the ring before the reference.
Opening ==
  /\ step # "none" => "STREAM" \in oflag /\ ref_count < RefMax /\ (setting \/ console)
  /\ step \notin {"none", "init"} => activated
  /\ step \in {"ring", "ref"} => "STREAM" \in open_flag
  /\ step = "ref" => serial_rx
  /\ serial_rx => activated /\ unmasked
  /\ ref_count > 0 => serial_rx

\* A console that keeps its last reference is printed on with the flag set, and
\* no thread has saved flags without it: those that would are the flags of a
\* device that is no console yet, and on that no one prints.
Streaming ==
  /\ console => "STREAM" \in open_flag
  /\ ~console => ref_count = 0
  /\ \A p \in Printer : printing[p] # "out" => console /\ "STREAM" \in old_flag[p]

DeviceIInv == DeviceTypes /\ Opening /\ Streaming

\* No device is open at the start.
LEMMA DeviceInitOK == DeviceInit => DeviceIInv
  <1> SUFFICES ASSUME DeviceInit PROVE DeviceIInv  OBVIOUS
  <1>1. DeviceTypes
    <2>1. {activated, serial_rx, unmasked, console} \subseteq BOOLEAN /\ setting \in BOOLEAN
      BY Zenon DEF DeviceInit
    <2>. QED  BY <2>1, DeviceAssumption DEF DeviceInit, DeviceTypes, Flag
  <1>2. Opening /\ Streaming  BY DEF DeviceInit, Opening, Streaming
  <1>. QED  BY <1>1, <1>2 DEF DeviceIInv

\* The truth values stay truth values.
DeviceFlags == {activated, serial_rx, unmasked, console} \subseteq BOOLEAN /\ setting \in BOOLEAN

\* Only registration sets the flags of a device.
LEMMA FlagsStay == DeviceFlags /\ [DeviceNext]_deviceVars => DeviceFlags'
  <1> SUFFICES ASSUME DeviceFlags, [DeviceNext]_deviceVars  PROVE DeviceFlags'  OBVIOUS
  <1> USE DEF DeviceFlags, devVars, openVars, printVars
  <1>1. CASE Close \/ SetShell  BY <1>1, Zenon DEF Close, SetShell
  <1>2. CASE SetConsole  BY <1>2, Zenon DEF SetConsole
  <1>3. CASE Activate  BY <1>3, Zenon DEF Activate
  <1>4. CASE SetFlags \/ MakeRing \/ CountRef  BY <1>4, Zenon DEF SetFlags, MakeRing, CountRef
  <1>5. ASSUME NEW p \in Printer, SaveFlags(p) \/ Write(p) \/ RestoreFlags(p)  PROVE DeviceFlags'
    BY <1>5, Zenon DEF SaveFlags, Write, RestoreFlags
  <1>6. CASE UNCHANGED deviceVars  BY <1>6, Zenon DEF deviceVars
  <1>. QED  BY <1>1, <1>2, <1>3, <1>4, <1>5, <1>6, Zenon DEF DeviceNext

\* Every call of the device layer keeps the invariant.
LEMMA DeviceStepOK == KeepsConsole /\ DeviceIInv /\ [DeviceNext]_deviceVars => DeviceIInv'
  <1> SUFFICES ASSUME KeepsConsole, DeviceIInv, [DeviceNext]_deviceVars  PROVE DeviceIInv'
    OBVIOUS
  <1>t. DeviceFlags /\ DeviceFlags'  BY FlagsStay DEF DeviceIInv, DeviceTypes, DeviceFlags
  <1> USE <1>t, DeviceAssumption DEF DeviceIInv, DeviceTypes, DeviceFlags, Opening, Streaming, Flag,
                                     devVars, openVars, printVars
  <1>1. CASE Close
    <2>1. ref_count > 1 /\ ref_count' = ref_count - 1 /\ open_flag' = open_flag  BY <1>1 DEF Close
    <2>2. UNCHANGED <<activated, serial_rx, unmasked, console, openVars, printVars>>  BY <1>1 DEF Close
    <2>. QED  BY <2>1, <2>2
  <1>2. CASE SetConsole
    <2>1. /\ ~console /\ step = "none" /\ ref_count = 0
          /\ step' = "init" /\ oflag' = ConsoleFlags /\ setting'
          /\ ref_count' = ref_count /\ open_flag' = open_flag
          /\ UNCHANGED <<activated, serial_rx, unmasked, console, printVars>>
      BY <1>2 DEF SetConsole
    <2>. QED  BY <2>1 DEF ConsoleFlags
  <1>3. CASE SetShell  BY <1>3 DEF SetShell, ShellFlags
  <1>4. CASE Activate  BY <1>4 DEF Activate
  <1>5. CASE SetFlags  BY <1>5 DEF SetFlags
  <1>6. CASE MakeRing
    <2>1. step = "ring" /\ UNCHANGED <<activated, ref_count, oflag, setting, printVars>>  BY <1>6 DEF MakeRing
    <2>2. CASE serial_rx' /\ unmasked' /\ open_flag' = open_flag \cup {"INT_RX"} /\ step' = "ref" /\ UNCHANGED console
      BY <2>1, <2>2
    <2>3. CASE step' = "none" /\ console' = (console \/ setting) /\ UNCHANGED <<serial_rx, unmasked, open_flag>>
      <3>1. console'  BY <2>1, <2>3
      <3>. QED  BY <2>1, <2>3, <3>1
    <2>. QED  BY <1>6, <2>2, <2>3 DEF MakeRing
  <1>7. CASE CountRef  BY <1>7 DEF CountRef
  <1>8. ASSUME NEW p \in Printer, SaveFlags(p)  PROVE DeviceIInv'  BY <1>8 DEF SaveFlags
  <1>9. ASSUME NEW p \in Printer, Write(p)  PROVE DeviceIInv'  BY <1>9 DEF Write
  <1>10. ASSUME NEW p \in Printer, RestoreFlags(p)  PROVE DeviceIInv'  BY <1>10 DEF RestoreFlags
  <1>11. CASE UNCHANGED deviceVars  BY <1>11 DEF deviceVars
  <1>. QED  BY <1>1, <1>2, <1>3, <1>4, <1>5, <1>6, <1>7, <1>8, <1>9, <1>10, <1>11 DEF DeviceNext

\* With any number of threads that print, a console that is not given up keeps
\* its carriage returns, and a device that is open has its ring.
THEOREM ConsoleStreams == KeepsConsole /\ DeviceSpec => []PrintsStream
  <1>1. DeviceIInv => PrintsStream
    BY DEF DeviceIInv, PrintsStream, StreamSet, OpenHasRing, Opening, Streaming
  <1>2. SUFFICES ASSUME KeepsConsole PROVE DeviceSpec => []PrintsStream  OBVIOUS
  <1>3. DeviceIInv /\ [DeviceNext]_deviceVars => DeviceIInv'  BY <1>2, DeviceStepOK
  <1>. QED  BY <1>1, <1>3, DeviceInitOK, PTL DEF DeviceSpec

-----------------------------------------------------------------------------
(* The list of an object class and the walks over it. *)

Chain == linked \cup {head}

\* The list is linked in both directions, and who left it is linked to itself.
Doubly ==
  /\ \A n \in Chain : /\ next[n] \in Chain /\ prev[next[n]] = n
                      /\ prev[n] \in Chain /\ next[prev[n]] = n
  /\ \A o \in Object \ linked : next[o] = o

\* r numbers the list from its head on, which has the last number, 0: the next
\* node has the next number in use.
Numbered(r) ==
  /\ r \in [Node -> Int] /\ r[head] = 0
  /\ \A o \in linked : r[o] < 0 /\ r[next[head]] <= r[o] /\ r[o] < r[next[o]]
  /\ \A o, p \in linked : r[o] = r[p] => o = p
  /\ \A o, p \in linked : r[p] <= r[o] \/ r[next[o]] <= r[p]

\* What a walk has not seen yet is not behind it, and what it has seen was not
\* what it looks for.
OnItsWay(t, r) ==
  /\ stayed[t] \subseteq linked
  /\ at[t] \in Chain => \A o \in stayed[t] \ seen[t] : r[at[t]] <= r[o]
  /\ \A o \in stayed[t] \cap seen[t] : name[o] # seek[t]

ObjectsInv ==
  /\ ObjectsTypes /\ Doubly
  /\ \E r \in [Node -> Int] : Numbered(r) /\ \A t \in walking : OnItsWay(t, r)

\* The empty list is numbered by any rank that puts the head first.
LEMMA ObjectsInitInv == ObjectsInit => ObjectsInv
<1> SUFFICES ASSUME ObjectsInit PROVE ObjectsInv
  OBVIOUS
<1> USE ObjectsAssumption DEF ObjectsInit
<1>1. ObjectsTypes
  BY DEF ObjectsTypes, AllOf, Node
<1>2. Doubly
  BY DEF Doubly, Chain, Node
<1> DEFINE zero == [n \in Node |-> 0]
<1>3. zero \in [Node -> Int] /\ Numbered(zero) /\ \A t \in walking : OnItsWay(t, zero)
  BY DEF Numbered, OnItsWay, Node
<1>4. QED
  BY <1>1, <1>2, <1>3 DEF ObjectsInv

\* rt_object_init: the new object gets the rank before the first.
LEMMA LinkKeeps ==
  ASSUME ObjectsInv, NEW o \in Object, ObjectInit(o)
  PROVE  ObjectsInv'
<1> USE ObjectsAssumption
<1> PICK r \in [Node -> Int] : Numbered(r) /\ \A t \in walking : OnItsWay(t, r)
  BY DEF ObjectsInv
<1>0. next[head] \in Node /\ [r EXCEPT ![o] = r[next[head]] - 1] \in [Node -> Int]
  BY DEF ObjectsInv, ObjectsTypes, Node
<1> PICK first \in Node : first = next[head]
  BY <1>0
<1> PICK s \in [Node -> Int] : s = [r EXCEPT ![o] = r[first] - 1]
  BY <1>0
<1>1. ObjectsTypes /\ Doubly /\ o \in Node /\ head \in Node /\ o # head /\ first \in Node
      /\ first \in Chain /\ o \notin Chain /\ o # first
  BY DEF ObjectsInv, ObjectsTypes, Doubly, Node, Chain, ObjectInit
<1>2. /\ next' = [next EXCEPT ![o] = first, ![head] = o]
      /\ prev' = [prev EXCEPT ![first] = o, ![o] = head]
      /\ linked' = linked \cup {o} /\ o \notin linked
      /\ UNCHANGED <<at, seek, walking, result, seen, stayed>>
  BY DEF ObjectInit, LinkObject, walkVars
<1>3. /\ next'[o] = first /\ next'[head] = o
      /\ \A n \in Node \ {o, head} : next'[n] = next[n]
      /\ prev'[first] = o /\ prev'[o] = head
      /\ \A n \in Node \ {o, first} : prev'[n] = prev[n]
  BY <1>1, <1>2 DEF ObjectsTypes
<1>4. ObjectsTypes'
  BY <1>1, <1>2 DEF ObjectsTypes, Node
<1>5. Doubly'
  BY <1>1, <1>2, <1>3 DEF Doubly, Chain, Node, ObjectsTypes
<1>6. /\ s \in [Node -> Int] /\ s[o] = r[first] - 1
      /\ \A n \in Node \ {o} : s[n] = r[n]
  BY <1>1
<1>7. \A p \in linked : p \in Node /\ p # o /\ p # head /\ next[p] \in Node /\ next[p] # o
                        /\ next'[p] = next[p]
  BY <1>1, <1>2, <1>3 DEF ObjectsTypes, Node, Doubly, Chain
<1>8. r[first] <= 0
  BY <1>1 DEF Numbered, Chain
<1>9. Numbered(s)'
  <2>1. \A p \in linked' : p = o \/ p \in linked
    BY <1>2
  <2>2. \A p \in linked : /\ s[p] = r[p] /\ s[p] < 0 /\ r[first] <= s[p]
                          /\ s[next[p]] = r[next[p]] /\ s[p] < s[next[p]] /\ s[p] \in Int
    BY <1>6, <1>7 DEF Numbered
  <2>3. s[first] = r[first] /\ s[o] < 0 /\ s[o] < s[first] /\ s[first] \in Int /\ s[head] = 0
    BY <1>1, <1>6, <1>8 DEF Numbered
  <2>4. \A p, q \in linked : /\ s[p] = s[q] => p = q
                             /\ s[q] <= s[p] \/ s[next[p]] <= s[q]
    BY <2>2 DEF Numbered
  <2>5. \A p \in linked' : s[p] < 0 /\ s[next'[head]] <= s[p] /\ s[p] < s[next'[p]]
    BY <2>1, <2>2, <2>3, <1>3, <1>6, <1>7
  <2>6. \A p, q \in linked' : s[p] = s[q] => p = q
    BY <2>1, <2>2, <2>3, <2>4
  <2>7. \A p, q \in linked' : s[q] <= s[p] \/ s[next'[p]] <= s[q]
    BY <2>1, <2>2, <2>3, <2>4, <1>3, <1>6, <1>7
  <2> QED
    BY <2>3, <2>5, <2>6, <2>7, <1>6 DEF Numbered
<1>10. ASSUME NEW t \in walking PROVE OnItsWay(t, s)'
  <2>1. OnItsWay(t, r)
    OBVIOUS
  <2>2. at'[t] = at[t] /\ at[t] \in Node /\ stayed'[t] = stayed[t] /\ seen'[t] = seen[t]
        /\ seek'[t] = seek[t] /\ Chain' = Chain \cup {o}
    BY <1>1, <1>2 DEF ObjectsTypes, Chain
  <2>3. ASSUME at[t] \in Chain \cup {o}, NEW p \in stayed[t] \ seen[t] PROVE s[at[t]] <= s[p]
    <3>1. p \in linked /\ s[p] = r[p] /\ s[p] \in Int
      BY <2>1, <2>3, <1>6, <1>7 DEF OnItsWay
    <3>2. CASE at[t] = o
      BY <3>1, <3>2, <1>6, <1>1 DEF Numbered
    <3>3. CASE at[t] # o
      <4>1. at[t] \in Chain /\ r[at[t]] <= r[p]
        BY <2>1, <2>3, <3>3 DEF OnItsWay
      <4> QED
        BY <4>1, <3>1, <3>3, <2>2, <1>6
    <3> QED
      BY <3>2, <3>3
  <2> QED
    BY <2>1, <2>2, <2>3, <1>2 DEF OnItsWay
<1>11. QED
  BY <1>4, <1>5, <1>6, <1>9, <1>10, <1>2 DEF ObjectsInv

\* rt_object_detach: a walk that stands on the object goes on at its successor.
LEMMA DetachKeeps ==
  ASSUME ObjectsInv, NEW o \in Object, ObjectDetach(o)
  PROVE  ObjectsInv'
<1> USE ObjectsAssumption
<1> PICK r \in [Node -> Int] : Numbered(r) /\ \A t \in walking : OnItsWay(t, r)
  BY DEF ObjectsInv
<1> DEFINE before == prev[o]
           after == next[o]
<1>1. ObjectsTypes /\ Doubly /\ o \in Node /\ head \in Node /\ o # head /\ o \in linked
      /\ before \in Chain /\ after \in Chain /\ before \in Node /\ after \in Node
      /\ next[before] = o /\ prev[after] = o
  BY DEF ObjectsInv, ObjectsTypes, Doubly, Node, Chain, ObjectDetach
<1>2. before # o /\ after # o
  BY <1>1 DEF Numbered
<1>3. /\ next' = [next EXCEPT ![before] = after, ![o] = o]
      /\ prev' = [prev EXCEPT ![after] = before, ![o] = o]
      /\ linked' = linked \ {o}
      /\ stayed' = [t \in Walker |-> stayed[t] \ {o}]
      /\ UNCHANGED <<at, seek, walking, result, seen>>
  BY DEF ObjectDetach, walkVars
<1>4. /\ next'[before] = after /\ next'[o] = o
      /\ \A n \in Node \ {o, before} : next'[n] = next[n]
      /\ prev'[after] = before /\ prev'[o] = o
      /\ \A n \in Node \ {o, after} : prev'[n] = prev[n]
  BY <1>1, <1>2, <1>3 DEF ObjectsTypes
<1>5. ObjectsTypes'
  BY <1>1, <1>3 DEF ObjectsTypes
<1>6. Doubly'
  BY <1>1, <1>2, <1>3, <1>4 DEF Doubly, Chain, Node, ObjectsTypes
<1>7. \A n \in Chain : n \in Node /\ r[n] \in Int /\ (n # before => next'[n] = next[n] \/ n = o)
                       /\ next[n] \in Chain
  BY <1>1, <1>4 DEF ObjectsTypes, Node, Chain, Doubly
<1>8. Numbered(r)'
  <2>1. \A p \in linked : p \in Chain /\ r[p] < 0 /\ r[next[head]] <= r[p] /\ r[p] < r[next[p]]
    BY DEF Numbered, Chain
  <2>2. \A p, q \in linked : /\ r[p] = r[q] => p = q
                             /\ r[q] <= r[p] \/ r[next[p]] <= r[q]
    BY DEF Numbered
  <2>3. \A p \in linked : p # o => r[p] # r[o] /\ (r[p] < r[o] \/ r[after] <= r[p])
    BY <2>1, <2>2, <1>7, <1>1
  <2>4. r[o] < r[after]
    BY <2>1, <1>1
  <2>5. \A p \in linked' : r[next'[head]] <= r[p]
    <3> TAKE p \in linked'
    <3>1. p \in linked /\ p # o /\ r[next[head]] <= r[p] /\ p \in Chain /\ r[p] \in Int
      BY <1>3, <2>1, <1>7
    <3>2. CASE before = head
      BY <3>1, <3>2, <1>1, <1>4, <2>3, <1>7
    <3>3. CASE before # head
      BY <3>1, <3>3, <1>4, <1>1
    <3> QED
      BY <3>2, <3>3
  <2>6. \A p \in linked' : r[p] < r[next'[p]]
    <3> TAKE p \in linked'
    <3>1. p \in linked /\ p # o /\ r[p] < r[next[p]] /\ p \in Chain /\ r[p] \in Int /\ r[o] \in Int
      BY <1>3, <1>1, <2>1, <1>7
    <3>2. CASE before = p
      BY <3>1, <3>2, <1>1, <1>4, <2>4, <1>7
    <3>3. CASE before # p
      BY <3>1, <3>3, <1>7
    <3> QED
      BY <3>2, <3>3
  <2>7. \A p, q \in linked' : r[q] <= r[p] \/ r[next'[p]] <= r[q]
    <3> TAKE p, q \in linked'
    <3>1. p \in linked /\ p # o /\ q \in linked /\ q # o /\ p \in Chain /\ q \in Chain
      BY <1>3, <2>1
    <3>2. r[q] <= r[p] \/ r[next[p]] <= r[q]
      BY <3>1, <2>2
    <3>3. CASE before = p
      BY <3>1, <3>2, <3>3, <1>1, <1>4, <2>3, <1>7
    <3>4. CASE before # p
      BY <3>1, <3>2, <3>4, <1>7
    <3> QED
      BY <3>3, <3>4
  <2>8. \A p, q \in linked' : r[p] < 0 /\ (r[p] = r[q] => p = q)
    BY <2>1, <2>2, <1>3
  <2>9. QED
    BY <2>5, <2>6, <2>7, <2>8, <1>3 DEF Numbered
<1>9. ASSUME NEW t \in walking PROVE OnItsWay(t, r)'
  <2>1. OnItsWay(t, r) /\ t \in Walker
    BY <1>1 DEF ObjectsTypes
  <2>2. at'[t] = at[t] /\ stayed'[t] = stayed[t] \ {o} /\ seen'[t] = seen[t]
        /\ seek'[t] = seek[t] /\ Chain' \subseteq Chain
    BY <2>1, <1>3 DEF Chain
  <2> QED
    BY <2>1, <2>2, <1>3 DEF OnItsWay
<1>10. QED
  BY <1>3, <1>5, <1>6, <1>8, <1>9 DEF ObjectsInv

\* One step of rt_object_find ranks no object it has not seen below its place.
LEMMA WalksKeep ==
  ASSUME ObjectsInv, NEW u \in Walker,
         (\E x \in ObjectName \cup {NoObject} : StartWalk(u, x)) \/ Walk(u)
  PROVE  ObjectsInv'
<1> USE ObjectsAssumption
<1> PICK r \in [Node -> Int] : Numbered(r) /\ \A t \in walking : OnItsWay(t, r)
  BY DEF ObjectsInv
<1>1. ObjectsTypes /\ Doubly
  BY DEF ObjectsInv
<1>2. UNCHANGED <<next, prev, linked>> /\ Chain' = Chain
  BY DEF StartWalk, Walk, Found, Advance, Through, Ends, listVars, Chain
<1>3. Numbered(r)' /\ Doubly'
  BY <1>1, <1>2 DEF Numbered, Doubly
<1>4. \A n \in Chain : n \in Node /\ r[n] \in Int /\ next[n] \in Chain
  BY <1>1 DEF ObjectsTypes, Node, Chain, Doubly
<1>5. CASE \E x \in ObjectName \cup {NoObject} : StartWalk(u, x)
  <2> PICK x \in ObjectName \cup {NoObject} : StartWalk(u, x)
    BY <1>5
  <2>1. ObjectsTypes'
    BY <1>1 DEF ObjectsTypes, StartWalk, listVars, Node
  <2>2. ASSUME NEW t \in walking' PROVE OnItsWay(t, r)'
    <3>1. CASE t # u
      BY <1>1, <1>2, <2>2, <3>1 DEF OnItsWay, StartWalk, ObjectsTypes
    <3>2. CASE t = u
      <4>1. at'[t] = next[head] /\ stayed'[t] = linked /\ seen'[t] = {} /\ linked' = linked
        BY <1>1, <1>2, <3>2 DEF StartWalk, ObjectsTypes
      <4> QED
        BY <4>1 DEF OnItsWay, Numbered
    <3> QED
      BY <3>1, <3>2
  <2> QED
    BY <1>3, <2>1, <2>2 DEF ObjectsInv
<1>6. CASE Advance(u)
  <2>1. ObjectsTypes'
    BY <1>1, <1>6 DEF ObjectsTypes, Advance, listVars, Node
  <2>2. ASSUME NEW t \in walking' PROVE OnItsWay(t, r)'
    <3>0. t \in walking /\ OnItsWay(t, r) /\ u \in walking
      BY <1>6, <2>2 DEF Advance
    <3>1. CASE t # u
      BY <1>1, <1>2, <1>6, <3>0, <3>1 DEF OnItsWay, Advance, ObjectsTypes
    <3>2. CASE t = u
      <4>1. /\ at'[t] = next[at[t]] /\ stayed'[t] = stayed[t] /\ seen'[t] = seen[t] \cup {at[t]}
            /\ seek'[t] = seek[t] /\ at[t] # head /\ at[t] \in Object
            /\ seek[t] = NoObject \/ name[at[t]] # seek[t]
        BY <1>1, <1>6, <3>2 DEF Advance, ObjectsTypes, Matches, Node
      <4>2. name[at[t]] # seek[t]
        BY <4>1
      <4>3. ASSUME at'[t] \in Chain, NEW o \in stayed'[t] \ seen'[t] PROVE r[at'[t]] <= r[o]
        <5>1. at[t] \in linked
          BY <4>1, <4>3, <1>1 DEF Doubly, Chain
        <5>2. o \in linked /\ o # at[t] /\ r[at[t]] <= r[o] /\ r[o] \in Int /\ r[at[t]] \in Int
          BY <3>0, <4>1, <4>3, <5>1, <1>4 DEF OnItsWay, Chain
        <5>3. r[at[t]] # r[o] /\ (r[o] <= r[at[t]] \/ r[next[at[t]]] <= r[o])
          BY <5>1, <5>2 DEF Numbered
        <5> QED
          BY <5>2, <5>3, <4>1
      <4> QED
        BY <3>0, <4>1, <4>2, <4>3, <1>2 DEF OnItsWay
    <3> QED
      BY <3>1, <3>2
  <2> QED
    BY <1>3, <2>1, <2>2 DEF ObjectsInv
<1>7. ASSUME NEW x \in Object \cup {NoObject}, Ends(u, x) PROVE ObjectsInv'
  <2>1. ObjectsTypes'
    BY <1>1, <1>7 DEF ObjectsTypes, Ends, listVars
  <2>2. ASSUME NEW t \in walking' PROVE OnItsWay(t, r)'
    BY <1>2, <1>7, <2>2 DEF OnItsWay, Ends
  <2> QED
    BY <1>3, <2>1, <2>2 DEF ObjectsInv
<1>8. CASE Found(u)
  BY <1>1, <1>7, <1>8 DEF Found, ObjectsTypes, Node
<1>9. CASE Through(u)
  BY <1>7, <1>9 DEF Through
<1>10. QED
  BY <1>5, <1>6, <1>8, <1>9 DEF Walk

\* Every step keeps the invariant.
LEMMA ObjectsStep == ObjectsInv /\ [ObjectsNext]_objectVars => ObjectsInv'
<1> SUFFICES ASSUME ObjectsInv, [ObjectsNext]_objectVars PROVE ObjectsInv'
  OBVIOUS
<1>1. CASE UNCHANGED objectVars
  BY <1>1 DEF ObjectsInv, ObjectsTypes, Doubly, Chain, Numbered, OnItsWay, objectVars,
              listVars, walkVars
<1>2. CASE ObjectsNext
  BY <1>2, LinkKeeps, DetachKeeps, WalksKeep DEF ObjectsNext
<1>3. QED
  BY <1>1, <1>2

SearchStep ==
  \A t \in walking : t \notin walking' =>
       /\ result'[t] = NoObject => /\ stayed[t] \subseteq seen[t]
                               /\ \A o \in stayed[t] : name[o] # seek[t]
       /\ result'[t] # NoObject => name[result'[t]] = seek[t]

\* A walk that ends in this step has seen what stayed, or found the name.
LEMMA WalkEnds == ObjectsInv /\ ObjectsNext => SearchStep
<1> SUFFICES ASSUME ObjectsInv, ObjectsNext, NEW t \in walking, t \notin walking'
             PROVE  /\ result'[t] = NoObject => /\ stayed[t] \subseteq seen[t]
                                                /\ \A o \in stayed[t] : name[o] # seek[t]
                    /\ result'[t] # NoObject => name[result'[t]] = seek[t]
  BY DEF SearchStep
<1> USE ObjectsAssumption
<1>1. ObjectsTypes /\ t \in Walker
  BY DEF ObjectsInv, ObjectsTypes
<1> PICK r \in [Node -> Int] : Numbered(r) /\ OnItsWay(t, r)
  BY DEF ObjectsInv
<1>2. Found(t) \/ Through(t)
  BY DEF ObjectsNext, ObjectInit, ObjectDetach, StartWalk, Walk, Found, Through, Advance,
         Ends, walkVars
<1>3. CASE Found(t)
  <2>1. result'[t] = at[t] /\ at[t] \in Object /\ name[at[t]] = seek[t]
    BY <1>1, <1>3 DEF Found, Ends, Matches, ObjectsTypes, Node
  <2> QED
    BY <2>1
<1>4. CASE Through(t)
  <2>1. result'[t] = NoObject /\ at[t] = head
    BY <1>1, <1>4 DEF Through, Ends, ObjectsTypes
  <2>2. stayed[t] \subseteq seen[t]
    <3> SUFFICES ASSUME NEW o \in stayed[t] \ seen[t] PROVE FALSE
      OBVIOUS
    <3>1. o \in linked /\ r[head] <= r[o]
      BY <2>1 DEF OnItsWay, Chain
    <3>2. r[head] = 0 /\ r[o] < 0 /\ r[o] \in Int
      BY <3>1, <1>1 DEF Numbered, ObjectsTypes, Node
    <3> QED
      BY <3>1, <3>2
  <2> QED
    BY <2>1, <2>2 DEF OnItsWay
<1>5. QED
  BY <1>2, <1>3, <1>4

\* SearchComplete, for any objects, names and threads: a search of rt_device_find or
\* list_thread that finds no object has passed every object that was linked all the
\* time, and none of them has the name; what it finds has the name.
THEOREM SearchesComplete == ObjectsSpec => SearchComplete
<1>1. ObjectsInit => ObjectsInv
  BY ObjectsInitInv
<1>2. ObjectsInv /\ [ObjectsNext]_objectVars => ObjectsInv'
  BY ObjectsStep
<1>3. ObjectsInv /\ [ObjectsNext]_objectVars => [SearchStep]_objectVars
  BY WalkEnds
<1>4. [SearchStep]_objectVars = [\A t \in walking : t \notin walking' =>
       /\ result'[t] = NoObject => /\ stayed[t] \subseteq seen[t]
                               /\ \A o \in stayed[t] : name[o] # seek[t]
       /\ result'[t] # NoObject => name[result'[t]] = seek[t]]_objectVars
  BY DEF SearchStep
<1>5. QED
  BY <1>1, <1>2, <1>3, PTL DEF ObjectsSpec, SearchComplete, SearchStep

-----------------------------------------------------------------------------
(* The mount table. *)

\* Who has a place in the table.
HasSlot(t) == mountPc[t] \in {"open", "mount"}

MountTypes ==
  /\ DOMAIN table = FsSlot /\ DOMAIN arg = Mounter
  /\ \A s \in FsSlot : table[s] = [path |-> table[s].path, type |-> table[s].type,
                                   data |-> table[s].data]
  /\ \A t \in Mounter :
       arg[t] = [type |-> arg[t].type, path |-> arg[t].path, typed |-> arg[t].typed,
                 dev |-> arg[t].dev, slot |-> arg[t].slot]
  /\ mountPc \in [Mounter -> {"out", "slot", "open", "mount"}]
  /\ mounted \subseteq FsSlot /\ ops \subseteq Type

\* A place that a mount has is its own, in use and not mounted; one that is
\* mounted has its data.
SlotsKept ==
  /\ \A t \in Mounter : IF HasSlot(t) THEN arg[t].slot \in FsSlot ELSE arg[t].slot = none
  /\ \A t \in Mounter : mountPc[t] # "out" => arg[t].type \in Type
  /\ \A t \in Mounter : HasSlot(t) =>
       /\ arg[t].slot \notin mounted /\ table[arg[t].slot].type # none
       /\ table[arg[t].slot].path = arg[t].path
  /\ \A t, u \in Mounter : HasSlot(t) /\ HasSlot(u) /\ t # u => arg[t].slot # arg[u].slot
  /\ \A s \in mounted : table[s].type # none /\ table[s].data

MountsInv == MountTypes /\ SlotsKept

\* What a step may do to the table: the steps of OncePerPath and MountedStays.
OnceStep ==
  \A t \in Mounter, s \in FsSlot :
    arg[t].slot = none /\ arg'[t].slot # none /\ table[s].path = arg[t].path
      => Text(arg[t].typed) # arg[t].path

StaysStep == \A s \in mounted : table'[s] = table[s] /\ table[s].data

MountStep == MountsInv' /\ OnceStep /\ StaysStep

\* At the start no slot of the table is taken.
LEMMA MountsBegin == DfsInit => MountsInv
<1> SUFFICES ASSUME DfsInit PROVE MountsInv
  OBVIOUS
<1>1. MountTypes
  BY DEF DfsInit, MountTypes, NoFs, NoArg
<1>2. \A t \in Mounter : mountPc[t] = "out" /\ ~ HasSlot(t) /\ arg[t].slot = none
  BY DEF DfsInit, HasSlot, NoArg
<1>3. mounted = {}
  BY DEF DfsInit
<1>4. QED
  BY <1>1, <1>2, <1>3 DEF MountsInv, SlotsKept

\* The slot that dfs_mount takes is a free one.
LEMMA FirstFreeOK ==
  ASSUME MountsInv, FreeSlots # {}
  PROVE  FirstFree \in FsSlot /\ table[FirstFree].type = none /\ FirstFree # none
<1>1. FreeSlots \in SUBSET Nat
  BY DfsAssumption DEF FreeSlots
<1>2. FirstFree = Least(FreeSlots)
  BY DEF FirstFree, Least
<1>3. FirstFree \in FreeSlots
  BY <1>1, <1>2, LeastOK
<1>4. QED
  BY <1>3, DfsAssumption DEF FreeSlots

\* A mount enters, or fails without a place.
LEMMA EntersOK ==
  ASSUME MountsInv, NEW t \in Mounter, ~ HasSlot(t), UNCHANGED <<table, mounted, ops>>,
         NEW p \in {"out", "slot"}, mountPc' = [mountPc EXCEPT ![t] = p],
         NEW y, NEW q, NEW w, NEW d, p = "slot" => y \in Type,
         arg' = [arg EXCEPT ![t] = [type |-> y, path |-> q, typed |-> w, dev |-> d, slot |-> none]]
  PROVE  MountStep
<1> USE DfsAssumption
<1>1. MountTypes /\ SlotsKept
  BY DEF MountsInv
<1>2. /\ arg'[t] = [type |-> y, path |-> q, typed |-> w, dev |-> d, slot |-> none]
      /\ mountPc'[t] = p /\ ~ HasSlot(t)'
      /\ \A u \in Mounter \ {t} : arg'[u] = arg[u] /\ mountPc'[u] = mountPc[u]
                                  /\ (HasSlot(u)' <=> HasSlot(u))
  BY <1>1 DEF MountTypes, HasSlot
<1>3. arg'[t].slot = none /\ arg'[t].type = y
  BY <1>2
<1>4. MountTypes'
  BY <1>1, <1>2, <1>3 DEF MountTypes
<1>5. SlotsKept'
  <2>1. \A u \in Mounter : IF HasSlot(u)' THEN arg'[u].slot \in FsSlot ELSE arg'[u].slot = none
    BY <1>1, <1>2, <1>3 DEF SlotsKept
  <2>2. \A u \in Mounter : mountPc'[u] # "out" => arg'[u].type \in Type
    BY <1>1, <1>2, <1>3 DEF SlotsKept
  <2>3. \A u \in Mounter : HasSlot(u)' =>
         /\ arg'[u].slot \notin mounted /\ table[arg'[u].slot].type # none
         /\ table[arg'[u].slot].path = arg'[u].path
    BY <1>1, <1>2 DEF SlotsKept
  <2>4. \A u, v \in Mounter : HasSlot(u)' /\ HasSlot(v)' /\ u # v => arg'[u].slot # arg'[v].slot
    BY <1>1, <1>2 DEF SlotsKept
  <2>5. QED
    BY <1>1, <2>1, <2>2, <2>3, <2>4 DEF SlotsKept
<1>6. OnceStep
  BY <1>2, <1>3 DEF OnceStep
<1>7. StaysStep
  BY <1>1 DEF StaysStep, SlotsKept
<1>8. QED
  BY <1>4, <1>5, <1>6, <1>7 DEF MountStep, MountsInv

\* A mount takes the first free place.
LEMMA TakesOK ==
  ASSUME MountsInv, NEW t \in Mounter, mountPc[t] = "slot",
         ~MountedAt(Text(arg[t].typed)), FreeSlots # {},
         table' = [table EXCEPT ![FirstFree] =
                       [path |-> arg[t].path, type |-> arg[t].type, data |-> FALSE]],
         arg' = [arg EXCEPT ![t].slot = FirstFree],
         mountPc' = [mountPc EXCEPT ![t] = IF arg[t].dev THEN "open" ELSE "mount"],
         UNCHANGED <<ops, mounted>>
  PROVE  MountStep
<1> USE DfsAssumption
<1>1. MountTypes /\ SlotsKept /\ ~ HasSlot(t)
  BY DEF MountsInv, HasSlot
<1> PICK f \in FsSlot : f = FirstFree /\ table[f].type = none /\ f # none
  BY FirstFreeOK
<1>2. f \notin mounted /\ \A u \in Mounter : HasSlot(u) => arg[u].slot # f
  BY <1>1 DEF SlotsKept
<1>3. /\ table'[f] = [path |-> arg[t].path, type |-> arg[t].type, data |-> FALSE]
      /\ \A s \in FsSlot \ {f} : table'[s] = table[s]
  BY <1>1 DEF MountTypes
<1>4. /\ arg'[t] = [type |-> arg[t].type, path |-> arg[t].path, typed |-> arg[t].typed,
                    dev |-> arg[t].dev, slot |-> f]
      /\ \A u \in Mounter \ {t} : arg'[u] = arg[u] /\ mountPc'[u] = mountPc[u]
                                  /\ (HasSlot(u)' <=> HasSlot(u))
      /\ HasSlot(t)' /\ mountPc'[t] \in {"open", "mount"}
      /\ mountPc' \in [Mounter -> {"out", "slot", "open", "mount"}]
  BY <1>1 DEF MountTypes, HasSlot
<1>5. /\ arg'[t].slot = f /\ arg'[t].type = arg[t].type /\ arg'[t].path = arg[t].path
      /\ arg'[t].typed = arg[t].typed /\ arg'[t].dev = arg[t].dev
      /\ table'[f].type = arg[t].type /\ table'[f].path = arg[t].path
      /\ table'[f].data = FALSE /\ arg[t].type \in Type
  BY <1>1, <1>3, <1>4 DEF SlotsKept
<1>6. MountTypes'
  <2>1. DOMAIN table' = FsSlot /\ DOMAIN arg' = Mounter
    BY <1>1 DEF MountTypes
  <2>2. \A s \in FsSlot : table'[s] = [path |-> table'[s].path, type |-> table'[s].type,
                                       data |-> table'[s].data]
    BY <1>1, <1>3, <1>5 DEF MountTypes
  <2>3. \A u \in Mounter :
          arg'[u] = [type |-> arg'[u].type, path |-> arg'[u].path, typed |-> arg'[u].typed,
                     dev |-> arg'[u].dev, slot |-> arg'[u].slot]
    BY <1>1, <1>4, <1>5 DEF MountTypes
  <2>4. QED
    BY <1>1, <1>4, <2>1, <2>2, <2>3 DEF MountTypes
<1>7. SlotsKept'
  <2>1. \A u \in Mounter : IF HasSlot(u)' THEN arg'[u].slot \in FsSlot ELSE arg'[u].slot = none
    BY <1>1, <1>4, <1>5 DEF SlotsKept
  <2>2. \A u \in Mounter : mountPc'[u] # "out" => arg'[u].type \in Type
    BY <1>1, <1>4, <1>5 DEF SlotsKept
  <2>3. \A u \in Mounter : HasSlot(u)' =>
         /\ arg'[u].slot \notin mounted /\ table'[arg'[u].slot].type # none
         /\ table'[arg'[u].slot].path = arg'[u].path
    BY <1>1, <1>2, <1>3, <1>4, <1>5 DEF SlotsKept
  <2>4. \A u, v \in Mounter : HasSlot(u)' /\ HasSlot(v)' /\ u # v => arg'[u].slot # arg'[v].slot
    BY <1>1, <1>2, <1>4, <1>5 DEF SlotsKept
  <2>5. \A s \in mounted : table'[s].type # none /\ table'[s].data
    BY <1>1, <1>2, <1>3 DEF SlotsKept, MountTypes
  <2>6. QED
    BY <2>1, <2>2, <2>3, <2>4, <2>5 DEF SlotsKept
<1>8. OnceStep
  <2>1. \A s \in FsSlot : table[s].path # Text(arg[t].typed)
    BY DEF MountedAt
  <2>2. QED
    BY <1>4, <2>1 DEF OnceStep
<1>9. StaysStep
  BY <1>1, <1>2, <1>3 DEF StaysStep, SlotsKept, MountTypes
<1>10. QED
  BY <1>6, <1>7, <1>8, <1>9 DEF MountStep, MountsInv

\* A mount gives its place up, or hands it over to the table.
LEMMA LeavesOK ==
  ASSUME MountsInv, NEW t \in Mounter, HasSlot(t), Fails(t), ops' = ops,
         NEW d \in BOOLEAN,
         IF d THEN /\ table' = [table EXCEPT ![arg[t].slot].data = TRUE]
                   /\ mounted' = mounted \cup {arg[t].slot}
              ELSE /\ table' = [table EXCEPT ![arg[t].slot] = NoFs]
                   /\ mounted' = mounted
  PROVE  MountStep
<1> USE DfsAssumption
<1>1. MountTypes /\ SlotsKept
  BY DEF MountsInv
<1> PICK f \in FsSlot : f = arg[t].slot /\ f # none /\ f \notin mounted /\ table[f].type # none
  BY <1>1 DEF SlotsKept
<1>2. \A u \in Mounter \ {t} : HasSlot(u) => arg[u].slot # f
  BY <1>1 DEF SlotsKept
<1>3. /\ \A s \in FsSlot \ {f} : table'[s] = table[s]
      /\ table'[f] = [path |-> table'[f].path, type |-> table'[f].type, data |-> table'[f].data]
      /\ d => table'[f].type = table[f].type /\ table'[f].data
      /\ mounted' = IF d THEN mounted \cup {f} ELSE mounted
  <2>1. table[f] = [path |-> table[f].path, type |-> table[f].type, data |-> table[f].data]
    BY <1>1 DEF MountTypes
  <2>2. CASE d
    <3>1. table'[f] = [table[f] EXCEPT !.data = TRUE]
      BY <1>1, <2>2 DEF MountTypes
    <3>2. table'[f] = [path |-> table[f].path, type |-> table[f].type, data |-> TRUE]
      BY <2>1, <3>1
    <3>3. QED
      BY <1>1, <2>2, <3>2 DEF MountTypes
  <2>3. CASE ~d
    BY <1>1, <2>3 DEF MountTypes, NoFs
  <2>4. QED
    BY <2>2, <2>3
<1>4. /\ arg'[t] = NoArg /\ mountPc'[t] = "out" /\ ~ HasSlot(t)' /\ arg'[t].slot = none
      /\ \A u \in Mounter \ {t} : arg'[u] = arg[u] /\ mountPc'[u] = mountPc[u]
                                  /\ (HasSlot(u)' <=> HasSlot(u))
      /\ mountPc' \in [Mounter -> {"out", "slot", "open", "mount"}]
  BY <1>1 DEF MountTypes, HasSlot, Fails, NoArg
<1>5. MountTypes'
  <2>1. DOMAIN table' = FsSlot /\ DOMAIN arg' = Mounter
    BY <1>1 DEF MountTypes, Fails
  <2>2. \A s \in FsSlot : table'[s] = [path |-> table'[s].path, type |-> table'[s].type,
                                       data |-> table'[s].data]
    BY <1>1, <1>3 DEF MountTypes
  <2>3. \A u \in Mounter :
          arg'[u] = [type |-> arg'[u].type, path |-> arg'[u].path, typed |-> arg'[u].typed,
                     dev |-> arg'[u].dev, slot |-> arg'[u].slot]
    BY <1>1, <1>4 DEF MountTypes, NoArg
  <2>4. mounted' \subseteq FsSlot /\ ops' \subseteq Type
    BY <1>1, <1>3 DEF MountTypes
  <2>5. QED
    BY <1>4, <2>1, <2>2, <2>3, <2>4 DEF MountTypes
<1>6. SlotsKept'
  <2>1. \A u \in Mounter : IF HasSlot(u)' THEN arg'[u].slot \in FsSlot ELSE arg'[u].slot = none
    BY <1>1, <1>4 DEF SlotsKept
  <2>2. \A u \in Mounter : mountPc'[u] # "out" => arg'[u].type \in Type
    BY <1>1, <1>4 DEF SlotsKept
  <2>3. \A u \in Mounter : HasSlot(u)' =>
         /\ arg'[u].slot \notin mounted' /\ table'[arg'[u].slot].type # none
         /\ table'[arg'[u].slot].path = arg'[u].path
    <3> SUFFICES ASSUME NEW u \in Mounter, HasSlot(u)'
                 PROVE  /\ arg'[u].slot \notin mounted' /\ table'[arg'[u].slot].type # none
                        /\ table'[arg'[u].slot].path = arg'[u].path
      OBVIOUS
    <3>1. u \in Mounter \ {t} /\ HasSlot(u) /\ arg'[u] = arg[u]
      BY <1>4
    <3>2. /\ arg[u].slot \in FsSlot /\ arg[u].slot \notin mounted
          /\ table[arg[u].slot].type # none /\ table[arg[u].slot].path = arg[u].path
      BY <1>1, <3>1 DEF SlotsKept
    <3>3. arg[u].slot \in FsSlot \ {f}
      BY <1>2, <3>1, <3>2
    <3>4. QED
      BY <1>3, <3>1, <3>2, <3>3
  <2>4. \A u, v \in Mounter : HasSlot(u)' /\ HasSlot(v)' /\ u # v => arg'[u].slot # arg'[v].slot
    BY <1>1, <1>4 DEF SlotsKept
  <2>5. \A s \in mounted' : table'[s].type # none /\ table'[s].data
    BY <1>1, <1>3 DEF SlotsKept, MountTypes
  <2>6. QED
    BY <2>1, <2>2, <2>3, <2>4, <2>5 DEF SlotsKept
<1>7. OnceStep
  BY <1>4 DEF OnceStep
<1>8. StaysStep
  BY <1>1, <1>3 DEF StaysStep, SlotsKept, MountTypes
<1>9. QED
  BY <1>5, <1>6, <1>7, <1>8 DEF MountStep, MountsInv

\* The device has been opened.
LEMMA OpenedOK ==
  ASSUME MountsInv, NEW t \in Mounter, mountPc[t] = "open",
         mountPc' = [mountPc EXCEPT ![t] = "mount"], UNCHANGED <<ops, table, arg, mounted>>
  PROVE  MountStep
<1>1. MountTypes /\ SlotsKept
  BY DEF MountsInv
<1>2. /\ mountPc' \in [Mounter -> {"out", "slot", "open", "mount"}]
      /\ \A u \in Mounter : /\ HasSlot(u)' <=> HasSlot(u)
                            /\ mountPc'[u] = "out" <=> mountPc[u] = "out"
  BY <1>1 DEF MountTypes, HasSlot
<1>3. MountsInv'
  BY <1>1, <1>2 DEF MountsInv, MountTypes, SlotsKept
<1>4. OnceStep /\ StaysStep
  BY <1>1 DEF OnceStep, StaysStep, SlotsKept
<1>5. QED
  BY <1>3, <1>4 DEF MountStep

\* Every step keeps the invariant and what the two step properties say.
LEMMA MountsKeep == MountsInv /\ [DfsNext]_mountVars => MountStep
<1> SUFFICES ASSUME MountsInv, [DfsNext]_mountVars PROVE MountStep
  OBVIOUS
<1>1. MountTypes /\ SlotsKept
  BY DEF MountsInv
<1>2. ASSUME UNCHANGED <<table, mountPc, arg, mounted>>, ops' \subseteq Type PROVE MountStep
  BY <1>1, <1>2 DEF MountStep, MountsInv, MountTypes, SlotsKept, HasSlot, OnceStep, StaysStep
<1>3. CASE UNCHANGED mountVars
  BY <1>1, <1>2, <1>3 DEF mountVars, MountTypes
<1>4. CASE \E y \in Type : Register(y)
  BY <1>1, <1>2, <1>4 DEF Register, MountTypes
<1>5. CASE \E p \in Path : LookupPath(p)
  BY <1>1, <1>2, <1>5 DEF LookupPath, MountTypes
<1>6. ASSUME NEW t \in Mounter, NEW y \in Type, NEW typed \in Typed, NEW dev \in Device,
             Mount(t, y, typed, dev)
      PROVE  MountStep
  <2>1. ~ HasSlot(t) /\ UNCHANGED <<table, mounted, ops>>
        /\ mountPc' = [mountPc EXCEPT ![t] = "slot"]
    BY <1>6 DEF Mount, HasSlot
  <2>2. arg' = [arg EXCEPT ![t] = [type |-> y, path |-> dfs_normalize_path(typed),
                                   typed |-> typed, dev |-> dev, slot |-> none]]
    BY <1>6 DEF Mount
  <2>3. QED
    BY <2>1, <2>2, EntersOK
<1>7. ASSUME NEW t \in Mounter, TakeSlot(t) PROVE MountStep
  <2>1. CASE Fails(t) /\ UNCHANGED table
    <3>1. ~ HasSlot(t) /\ UNCHANGED <<table, mounted, ops>>
          /\ mountPc' = [mountPc EXCEPT ![t] = "out"]
          /\ arg' = [arg EXCEPT ![t] = [type |-> none, path |-> none, typed |-> none,
                                        dev |-> FALSE, slot |-> none]]
      BY <1>7, <2>1 DEF TakeSlot, Fails, HasSlot, NoArg
    <3>2. QED
      BY <3>1, EntersOK
  <2>2. CASE ~ (Fails(t) /\ UNCHANGED table)
    BY <1>7, <2>2, TakesOK DEF TakeSlot
  <2>3. QED
    BY <2>1, <2>2
<1>8. ASSUME NEW t \in Mounter, HasSlot(t), GiveUp(t) PROVE MountStep
  BY <1>8, LeavesOK DEF GiveUp
<1>9. ASSUME NEW t \in Mounter, OpenDevice(t) PROVE MountStep
  BY <1>8, <1>9, OpenedOK DEF OpenDevice, HasSlot
<1>10. ASSUME NEW t \in Mounter, DoMount(t) PROVE MountStep
  BY <1>8, <1>10, LeavesOK DEF DoMount, HasSlot
<1>11. QED
  BY <1>3, <1>4, <1>5, <1>6, <1>7, <1>9, <1>10 DEF DfsNext

\* Two mounts in progress never hold one slot.
LEMMA MountsAreApart == MountsInv => MountsApart
<1> SUFFICES ASSUME MountsInv PROVE MountsApart
  OBVIOUS
<1>1. \A t \in Mounter : arg[t].slot # none => HasSlot(t)
  BY DEF MountsInv, SlotsKept
<1>2. \A t, u \in Mounter : t # u /\ arg[t].slot # none => arg[t].slot # arg[u].slot
  BY <1>1 DEF MountsInv, SlotsKept
<1>3. QED
  BY <1>1, <1>2 DEF MountsInv, SlotsKept, MountsApart

\* MountsKept, for any table, paths and threads: mounts in dfs_mount hold places of
\* their own, none takes one that is mounted, and none mounts at a path twice.
THEOREM MountsStayApart == DfsSpec => MountsKept
<1>1. DfsInit => MountsInv
  BY MountsBegin
<1>2. MountsInv /\ [DfsNext]_mountVars => MountsInv'
  BY MountsKeep DEF MountStep
<1>3. MountsInv /\ DfsNext => OnceStep /\ StaysStep
  BY MountsKeep DEF MountStep
<1>4. DfsSpec => []MountsApart
  BY <1>1, <1>2, MountsAreApart, PTL DEF DfsSpec
<1>5. DfsSpec => OncePerPath
  BY <1>1, <1>2, <1>3, PTL DEF DfsSpec, OncePerPath, OnceStep
<1>6. DfsSpec => MountedStays
  BY <1>1, <1>2, <1>3, PTL DEF DfsSpec, MountedStays, StaysStep
<1>7. QED
  BY <1>4, <1>5, <1>6 DEF MountsKept

-----------------------------------------------------------------------------
(* The RAM file system. *)

\* The definitions of Ramfs that look into the list, for any list and entries.
NamedAt(l, en, n) == {i \in DOMAIN l : en[l[i]].name = n}
Bytes(x) == IF x.data = NULL THEN <<>> ELSE x.data
ContentIn(l, en, n) ==
  IF NamedAt(l, en, n) = {} THEN NULL ELSE Bytes(en[l[Least(NamedAt(l, en, n))]])

FileEntry == [name : FileName \cup {NULL}, size : Nat, data : Seq(FileByte) \cup {NULL}]
FileDesc ==
  [path : FileName \cup {NULL}, data : Entry \cup {NULL, "root"}, size : Nat, pos : Nat]
FileList == [stayed : SUBSET FileName, listed : Seq(FileName)]

\* A name stands in the list once, and an entry has the bytes its size says.
Files(l, en) ==
  /\ l \in Seq(Entry) /\ Once(l)
  /\ en \in [Entry -> FileEntry]
  /\ \A e \in ToSet(l) : /\ en[e].name \in FileName
                         /\ en[e].size = IF en[e].data = NULL THEN 0 ELSE Len(en[e].data)
  /\ \A e, d \in ToSet(l) : en[e].name = en[d].name => e = d

\* A descriptor has the name of its file, and stands inside of it, as it knows it.
DescOK(x) == x.data \in Entry => x.path \in FileName /\ x.pos <= x.size

Descs(fs) == fs \in [Fd -> FileDesc] /\ \A f \in Fd : DescOK(fs[f])

\* What was there all the time and is not listed yet stands behind the place
\* the handle has reached.
Listings(ls, fs, l, en) ==
  /\ ls \in [Fd -> FileList]
  /\ \A f \in Fd : fs[f].data = "root" =>
       \A n \in ls[f].stayed :
         \/ n \in ToSet(ls[f].listed)
         \/ \E i \in (fs[f].pos + 1)..Len(l) : en[l[i]].name = n

FilesInv ==
  /\ Files(list, entry) /\ Descs(fd) /\ Listings(listing, fd, list, entry)
  /\ buf \in Seq(FileByte)

-----------------------------------------------------------------------------

\* What a write leaves.
LEMMA OverOK ==
  ASSUME NEW S, NEW d \in Seq(S), NEW p \in 0..Len(d), NEW b \in Seq(S)
  PROVE  /\ Over(d, p, b) \in Seq(S)
         /\ Len(Over(d, p, b)) = IF p + Len(b) <= Len(d) THEN Len(d) ELSE p + Len(b)
<1> DEFINE u == SubSeq(d, 1, p)
           v == SubSeq(d, p + Len(b) + 1, Len(d))
           w == u \o b
<1>1. Len(d) \in Nat /\ Len(b) \in Nat /\ \A i \in 1..Len(d) : d[i] \in S
  BY LenProperties, ElementOfSeq
<1>2. u \in Seq(S) /\ Len(u) = p
  BY <1>1, SubSeqProperties
<1>3. v \in Seq(S) /\ Len(v) = IF p + Len(b) + 1 <= Len(d) THEN Len(d) - p - Len(b) ELSE 0
  BY <1>1, SubSeqProperties
<1>4. Over(d, p, b) = w \o v
  BY DEF Over
<1> HIDE DEF u, v
<1>5. w \in Seq(S) /\ Len(w) = p + Len(b)
  BY <1>2, ConcatProperties
<1> HIDE DEF w
<1>6. w \o v \in Seq(S) /\ Len(w \o v) = Len(w) + Len(v)
  BY <1>3, <1>5, ConcatProperties
<1>7. Len(w \o v) = IF p + Len(b) <= Len(d) THEN Len(d) ELSE p + Len(b)
  <2> PICK x \in Nat, y \in Nat, z \in Nat : x = Len(d) /\ y = Len(b) /\ z = Len(v)
    BY <1>1, <1>3, LenProperties
  <2>1. p \in Nat /\ z = IF p + y + 1 <= x THEN x - p - y ELSE 0
    BY <1>3
  <2>2. p + y + z = IF p + y <= x THEN x ELSE p + y
    BY ONLY <2>1, x \in Nat, y \in Nat
  <2>3. QED
    BY <1>5, <1>6, <2>2
<1>8. QED
  BY <1>4, <1>6, <1>7

\* A write of nothing changes nothing.
LEMMA OverNothing ==
  ASSUME NEW S, NEW d \in Seq(S), NEW p \in 0..Len(d)
  PROVE  Over(d, p, <<>>) = d
<1> DEFINE u == SubSeq(d, 1, p)
           v == SubSeq(d, p + 1, Len(d))
<1>1. Len(d) \in Nat /\ \A i \in 1..Len(d) : d[i] \in S
  BY LenProperties, ElementOfSeq
<1>2. u \in Seq(S) /\ Len(u) = p /\ \A i \in 1..p : u[i] = d[i]
  BY <1>1, SubSeqProperties
<1>3. v \in Seq(S) /\ Len(v) = Len(d) - p /\ \A i \in 1..(Len(d) - p) : v[i] = d[p + i]
  BY <1>1, SubSeqProperties
<1>4. Over(d, p, <<>>) = u \o v
  <2>1. u \o <<>> = u
    BY <1>2, ConcatEmptySeq
  <2>2. Len(<<>>) = 0 /\ p + 0 + 1 = p + 1
    OBVIOUS
  <2>3. QED
    BY <2>1, <2>2 DEF Over
<1> HIDE DEF u, v
<1>5. /\ u \o v \in Seq(S) /\ Len(u \o v) = Len(d)
      /\ \A i \in 1..Len(d) : (u \o v)[i] = IF i <= p THEN u[i] ELSE v[i - p]
  BY <1>1, <1>2, <1>3, ConcatProperties
<1>6. \A i \in 1..Len(d) : (u \o v)[i] = d[i]
  BY <1>1, <1>2, <1>3, <1>5
<1>7. QED
  BY <1>4, <1>5, <1>6, SeqEqual

\* A file that is in the list has the bytes of its entry.
LEMMA ContentOf ==
  ASSUME NEW l, NEW en, Files(l, en), NEW e \in ToSet(l)
  PROVE  /\ ContentIn(l, en, en[e].name) = Bytes(en[e])
         /\ Bytes(en[e]) \in Seq(FileByte) /\ Len(Bytes(en[e])) = en[e].size
         /\ e \in Entry /\ en[e].name \in FileName
<1> DEFINE I == NamedAt(l, en, en[e].name)
<1>1. /\ Len(l) \in Nat /\ DOMAIN l = 1..Len(l) /\ ToSet(l) \subseteq Entry
      /\ \A i \in DOMAIN l : l[i] \in ToSet(l)
  BY LenProperties, ElementOfSeq DEF Files, ToSet
<1>2. I \in SUBSET Nat /\ I # {}
  BY <1>1 DEF NamedAt, ToSet
<1>3. Least(I) \in I
  BY <1>2, LeastOK
<1>4. l[Least(I)] = e
  BY <1>1, <1>3 DEF NamedAt, Files
<1>5. Bytes(en[e]) \in Seq(FileByte) /\ Len(Bytes(en[e])) = en[e].size
  BY <1>1, LenProperties, EmptySeq DEF Files, Bytes, FileEntry
<1>6. QED
  BY <1>1, <1>2, <1>4, <1>5 DEF ContentIn, Files

\* One that is not has none.
LEMMA ContentNone ==
  ASSUME NEW l, NEW en, NEW n, \A e \in ToSet(l) : en[e].name # n
  PROVE  ContentIn(l, en, n) = NULL
BY DEF ContentIn, NamedAt, ToSet

\* dfs_ramfs_lookup goes to the first entry of the name.
LEMMA LookupIs ==
  \A n : LookupEntry(n) =
           IF NamedAt(list, entry, n) = {} THEN NULL
           ELSE list[Least(NamedAt(list, entry, n))]
  BY DEF LookupEntry, NamedAt, Least

\* dfs_ramfs_lookup finds the file of the name when there is one.
LEMMA LookupFinds ==
  ASSUME FilesInv, NEW n
  PROVE  IF LookupEntry(n) = NULL THEN \A e \in Listed : entry[e].name # n
         ELSE LookupEntry(n) \in Listed /\ entry[LookupEntry(n)].name = n
<1> DEFINE I == NamedAt(list, entry, n)
<1>1. /\ Len(list) \in Nat /\ DOMAIN list = 1..Len(list) /\ NULL \notin Listed
      /\ \A i \in DOMAIN list : list[i] \in Listed
  BY LenProperties, ElementOfSeq, RamfsAssumption DEF FilesInv, Files, Listed, ToSet
<1>2. LookupEntry(n) = IF I = {} THEN NULL ELSE list[Least(I)]
  BY LookupIs
<1>3. CASE I = {}
  BY <1>2, <1>3 DEF NamedAt, Listed, ToSet
<1>4. CASE I # {}
  <2>1. I \in SUBSET Nat
    BY <1>1 DEF NamedAt
  <2>2. Least(I) \in I
    BY <1>4, <2>1, LeastOK
  <2>3. QED
    BY <1>1, <1>2, <1>4, <2>2 DEF NamedAt
<1>5. QED
  BY <1>3, <1>4

\* The contents are those of the list and the entries.
LEMMA ContentsAre ==
  ASSUME FilesInv, NEW n
  PROVE  FileContent(n) = ContentIn(list, entry, n)
<1>1. CASE LookupEntry(n) = NULL
  <2>1. ContentIn(list, entry, n) = NULL
    BY <1>1, LookupFinds, ContentNone DEF Listed
  <2>2. QED
    BY <1>1, <2>1 DEF FileContent
<1>2. CASE LookupEntry(n) # NULL
  <2> PICK e \in Listed : e = LookupEntry(n) /\ entry[e].name = n
    BY <1>2, LookupFinds
  <2>1. Files(list, entry) /\ e \in ToSet(list)
    BY DEF FilesInv, Listed
  <2>2. ContentIn(list, entry, entry[e].name) = Bytes(entry[e])
    BY <2>1, ContentOf
  <2>3. QED
    BY <1>2, <2>2 DEF FileContent, Kept, Bytes
<1>3. QED
  BY <1>1, <1>2

\* What an entry of the list holds is the content of its name.
LEMMA ContentsAlways ==
  FilesInv => \A n : FileContent(n) = ContentIn(list, entry, n)
  BY ContentsAre

\* The same after a step.
LEMMA ContentsNext ==
  (FilesInv => \A n : FileContent(n) = ContentIn(list, entry, n))'
  BY ContentsAlways, PTL

\* What does not touch a name leaves its content.
Alike(l, en, m, dn, k) ==
  /\ \A e \in Entry : e \in ToSet(l) /\ en[e].name = k <=> e \in ToSet(m) /\ dn[e].name = k
  /\ \A e \in ToSet(l) : en[e].name = k => Bytes(dn[e]) = Bytes(en[e])

\* A name that a step leaves alone keeps its content.
LEMMA ContentSame ==
  ASSUME NEW l, NEW en, Files(l, en), NEW m, NEW dn, Files(m, dn), NEW k,
         Alike(l, en, m, dn, k)
  PROVE  ContentIn(m, dn, k) = ContentIn(l, en, k)
<1> USE DEF Alike
<1>1. CASE \E e \in ToSet(l) : en[e].name = k
  <2> PICK e \in ToSet(l) : en[e].name = k
    BY <1>1
  <2>1. ContentIn(l, en, en[e].name) = Bytes(en[e]) /\ e \in Entry
    BY ContentOf
  <2>2. e \in ToSet(m) /\ dn[e].name = k
    BY <2>1
  <2>3. ContentIn(m, dn, dn[e].name) = Bytes(dn[e])
    BY <2>2, ContentOf
  <2>4. QED
    BY <2>1, <2>2, <2>3
<1>2. CASE \A e \in ToSet(l) : en[e].name # k
  <2>1. \A e \in ToSet(m) : e \in Entry
    BY ContentOf
  <2>2. \A e \in ToSet(m) : dn[e].name # k
    BY <1>2, <2>1
  <2>3. QED
    BY <1>2, <2>2, ContentNone
<1>3. QED
  BY <1>1, <1>2

\* An entry gets other bytes.
Rewritten(l, en, e, x) ==
  /\ Files(l, [en EXCEPT ![e] = x])
  /\ \A k \in FileName \ {en[e].name} :
       ContentIn(l, [en EXCEPT ![e] = x], k) = ContentIn(l, en, k)
  /\ ContentIn(l, [en EXCEPT ![e] = x], en[e].name) = Bytes(x)

\* An entry is written again: only its own name has another content.
LEMMA EntryRewritten ==
  ASSUME NEW l, NEW en, Files(l, en), NEW e \in ToSet(l), NEW x \in FileEntry,
         x.name = en[e].name, x.size = IF x.data = NULL THEN 0 ELSE Len(x.data)
  PROVE  Rewritten(l, en, e, x)
<1> PICK dn : dn = [en EXCEPT ![e] = x]
  OBVIOUS
<1>1. e \in Entry
  BY ContentOf
<1>2. dn[e] = x /\ (\A d \in Entry \ {e} : dn[d] = en[d]) /\ dn \in [Entry -> FileEntry]
  BY <1>1 DEF Files
<1>3. \A d \in Entry : dn[d].name = en[d].name
  BY <1>2
<1>4. Files(l, dn)
  <2>1. \A d \in ToSet(l) : d \in Entry
    BY ContentOf
  <2>2. QED
    BY <1>2, <1>3, <2>1 DEF Files
<1>5. ASSUME NEW k \in FileName \ {en[e].name} PROVE ContentIn(l, dn, k) = ContentIn(l, en, k)
  <2>1. \A d \in ToSet(l) : en[d].name = k => Bytes(dn[d]) = Bytes(en[d])
    <3>1. \A d \in ToSet(l) : d \in Entry
      BY ContentOf
    <3>2. QED
      BY <1>2, <3>1
  <2>2. \A d \in Entry : d \in ToSet(l) /\ en[d].name = k <=> d \in ToSet(l) /\ dn[d].name = k
    BY <1>3
  <2>3. Alike(l, en, l, dn, k)
    BY <2>1, <2>2 DEF Alike
  <2>4. QED
    BY ONLY Files(l, en), <1>4, <2>3, ContentSame
<1>6. ContentIn(l, dn, dn[e].name) = Bytes(dn[e])
  BY ONLY <1>4, e \in ToSet(l), ContentOf
<1>7. QED
  BY <1>2, <1>3, <1>4, <1>5, <1>6 DEF Rewritten

\* A new entry comes in front.
Prepended(l, en, e, x) ==
  /\ Files(<<e>> \o l, [en EXCEPT ![e] = x])
  /\ Len(<<e>> \o l) = Len(l) + 1
  /\ \A i \in 1..Len(l) : (<<e>> \o l)[i + 1] = l[i] /\ l[i] # e /\ l[i] \in Entry
  /\ ToSet(<<e>> \o l) = ToSet(l) \cup {e}
  /\ \A k \in FileName \ {x.name} :
       ContentIn(<<e>> \o l, [en EXCEPT ![e] = x], k) = ContentIn(l, en, k)
  /\ ContentIn(<<e>> \o l, [en EXCEPT ![e] = x], x.name) = <<>>

\* A new file is empty, and the others are as they were.
LEMMA EntryPrepended ==
  ASSUME NEW l, NEW en, Files(l, en), NEW e \in Entry \ ToSet(l), NEW n \in FileName,
         \A d \in ToSet(l) : en[d].name # n
  PROVE  Prepended(l, en, e, [NoEntry EXCEPT !.name = n])
<1> PICK dn, m, x : /\ dn = [en EXCEPT ![e] = [NoEntry EXCEPT !.name = n]] /\ m = <<e>> \o l
                    /\ x = [NoEntry EXCEPT !.name = n]
  OBVIOUS
<1>1. /\ l \in Seq(Entry) /\ Len(l) \in Nat /\ DOMAIN l = 1..Len(l) /\ Once(l)
      /\ \A i \in 1..Len(l) : l[i] \in ToSet(l) /\ l[i] \in Entry /\ l[i] # e
  BY LenProperties, ElementOfSeq DEF Files, ToSet
<1>2. /\ x \in FileEntry /\ x.name = n /\ x.data = NULL /\ x.size = 0
  BY DEF NoEntry, FileEntry
<1>3. dn[e] = x /\ (\A d \in Entry \ {e} : dn[d] = en[d]) /\ dn \in [Entry -> FileEntry]
  BY <1>2 DEF Files
<1>4. /\ m \in Seq(Entry) /\ Len(m) = Len(l) + 1 /\ DOMAIN m = 1..(Len(l) + 1)
      /\ m[1] = e /\ \A i \in 1..Len(l) : m[i + 1] = l[i]
  <2>1. <<e>> \in Seq(Entry) /\ Len(<<e>>) = 1 /\ <<e>>[1] = e
    OBVIOUS
  <2>2. /\ m \in Seq(Entry) /\ Len(m) = 1 + Len(l)
        /\ \A i \in 1..(1 + Len(l)) : m[i] = IF i <= 1 THEN e ELSE l[i - 1]
    BY <1>1, <2>1, ConcatProperties
  <2>3. m[1] = e /\ \A i \in 1..Len(l) : m[i + 1] = l[i]
    BY <1>1, <2>2
  <2>4. QED
    BY <1>1, <2>2, <2>3, LenProperties
<1>5. \A i \in 1..(Len(l) + 1) : i = 1 \/ (i - 1 \in 1..Len(l) /\ i = (i - 1) + 1)
  BY <1>1
<1>6. ToSet(m) = ToSet(l) \cup {e}
  <2>1. \A i \in DOMAIN m : m[i] \in ToSet(l) \cup {e}
    BY <1>1, <1>4, <1>5
  <2>2. e \in ToSet(m) /\ \A i \in DOMAIN l : l[i] \in ToSet(m)
    <3>1. 1 \in DOMAIN m /\ \A i \in DOMAIN l : i + 1 \in DOMAIN m /\ m[i + 1] = l[i]
      BY <1>1, <1>4
    <3>2. QED
      BY <1>4, <3>1 DEF ToSet
  <2>3. QED
    BY <2>1, <2>2 DEF ToSet
<1>7. Once(m)
  BY <1>1, <1>4, <1>5 DEF Once
<1>8. Files(m, dn)
  BY <1>2, <1>3, <1>4, <1>6, <1>7, ContentOf DEF Files
<1>9. ASSUME NEW k \in FileName \ {n} PROVE ContentIn(m, dn, k) = ContentIn(l, en, k)
  <2>1. \A d \in Entry : d \in ToSet(l) /\ en[d].name = k <=> d \in ToSet(m) /\ dn[d].name = k
    BY <1>2, <1>3, <1>6
  <2>2. \A d \in ToSet(l) : d \in Entry /\ dn[d] = en[d]
    BY <1>3, ContentOf
  <2>3. Alike(l, en, m, dn, k)
    BY <2>1, <2>2 DEF Alike
  <2>4. QED
    BY ONLY Files(l, en), <1>8, <2>3, ContentSame
<1>10. ContentIn(m, dn, dn[e].name) = Bytes(dn[e])
  <2>1. e \in ToSet(m)
    BY <1>6
  <2>2. QED
    BY ONLY <1>8, <2>1, ContentOf
<1>11. ContentIn(m, dn, n) = <<>>
  BY <1>2, <1>3, <1>10 DEF Bytes
<1>12. QED
  BY <1>1, <1>2, <1>4, <1>6, <1>8, <1>9, <1>11 DEF Prepended

\* An entry leaves the list.
Unlinked(l, en, e) ==
  /\ Files(Without(l, e), [en EXCEPT ![e] = NoEntry])
  /\ ToSet(Without(l, e)) = ToSet(l) \ {e}
  /\ \A k \in FileName \ {en[e].name} :
       ContentIn(Without(l, e), [en EXCEPT ![e] = NoEntry], k) = ContentIn(l, en, k)
  /\ ContentIn(Without(l, e), [en EXCEPT ![e] = NoEntry], en[e].name) = NULL

\* A file that is removed has no content, and the others are as they were.
LEMMA EntryUnlinked ==
  ASSUME NEW l, NEW en, Files(l, en), NEW e \in ToSet(l)
  PROVE  Unlinked(l, en, e)
<1> PICK dn, m : dn = [en EXCEPT ![e] = NoEntry] /\ m = Without(l, e)
  OBVIOUS
<1>1. e \in Entry /\ \A d \in ToSet(l) : d \in Entry
  BY ContentOf
<1>2. m \in Seq(Entry) /\ Once(m) /\ ToSet(m) = ToSet(l) \ {e}
  BY WithoutOK DEF Files
<1>3. (\A d \in Entry \ {e} : dn[d] = en[d]) /\ dn \in [Entry -> FileEntry]
  BY DEF Files, NoEntry, FileEntry
<1>4. Files(m, dn)
  BY <1>1, <1>2, <1>3 DEF Files
<1>5. \A d \in ToSet(l) : en[d].name = en[e].name => d = e
  BY DEF Files
<1>6. ASSUME NEW k \in FileName \ {en[e].name} PROVE ContentIn(m, dn, k) = ContentIn(l, en, k)
  <2>1. \A d \in Entry : d \in ToSet(l) /\ en[d].name = k <=> d \in ToSet(m) /\ dn[d].name = k
    BY <1>1, <1>2, <1>3
  <2>2. \A d \in ToSet(l) : en[d].name = k => Bytes(dn[d]) = Bytes(en[d])
    BY <1>1, <1>3
  <2>3. Alike(l, en, m, dn, k)
    BY <2>1, <2>2 DEF Alike
  <2>4. QED
    BY ONLY Files(l, en), <1>4, <2>3, ContentSame
<1>7. ContentIn(m, dn, en[e].name) = NULL
  <2>1. \A d \in ToSet(m) : dn[d].name # en[e].name
    BY <1>1, <1>2, <1>3, <1>5
  <2>2. QED
    BY <2>1, ContentNone
<1>8. QED
  BY <1>2, <1>4, <1>6, <1>7 DEF Unlinked

-----------------------------------------------------------------------------

\* The descriptor f becomes x and its listing y.
LEMMA ListingStep ==
  ASSUME NEW ls, NEW fs, NEW l, NEW en, Listings(ls, fs, l, en), fs \in [Fd -> FileDesc],
         NEW f \in Fd, NEW x \in FileDesc, NEW y \in FileList, NEW dn,
         x.data = "root" =>
           \A n \in y.stayed :
             n \in ToSet(y.listed) \/ \E i \in (x.pos + 1)..Len(l) : dn[l[i]].name = n,
         l \in Seq(Entry), \A e \in Entry : dn[e].name = en[e].name
  PROVE  Listings([ls EXCEPT ![f] = y], [fs EXCEPT ![f] = x], l, dn)
<1> PICK gs, ks : gs = [fs EXCEPT ![f] = x] /\ ks = [ls EXCEPT ![f] = y]
  OBVIOUS
<1>1. gs \in [Fd -> FileDesc] /\ gs[f] = x /\ \A g \in Fd \ {f} : gs[g] = fs[g]
  OBVIOUS
<1>2. ks \in [Fd -> FileList] /\ ks[f] = y /\ \A g \in Fd \ {f} : ks[g] = ls[g]
  BY DEF Listings
<1>3. \A i \in 1..Len(l) : dn[l[i]].name = en[l[i]].name
  BY ElementOfSeq
<1>4. Len(l) \in Nat
  BY LenProperties
<1>5. ASSUME NEW g \in Fd, gs[g].data = "root"
      PROVE  \A n \in ks[g].stayed :
               \/ n \in ToSet(ks[g].listed)
               \/ \E i \in (gs[g].pos + 1)..Len(l) : dn[l[i]].name = n
  <2>1. CASE g = f
    BY <1>1, <1>2, <1>5, <2>1
  <2>2. CASE g # f
    <3>1. fs[g].data = "root" /\ fs[g].pos \in Nat /\ gs[g] = fs[g] /\ ks[g] = ls[g]
      BY <1>1, <1>2, <1>5, <2>2 DEF FileDesc
    <3>2. \A n \in ls[g].stayed :
            n \in ToSet(ls[g].listed) \/ \E i \in (fs[g].pos + 1)..Len(l) : en[l[i]].name = n
      BY <3>1 DEF Listings
    <3>3. \A i \in (fs[g].pos + 1)..Len(l) : dn[l[i]].name = en[l[i]].name
      BY <1>3, <1>4, <3>1
    <3>4. QED
      BY <3>1, <3>2, <3>3
  <2>3. QED
    BY <2>1, <2>2
<1>6. QED
  BY <1>2, <1>5 DEF Listings

\* A new entry in front moves the others on.
LEMMA ListingShift ==
  ASSUME NEW ls, NEW fs, NEW l, NEW en, Listings(ls, fs, l, en), fs \in [Fd -> FileDesc],
         NEW e, NEW x, en \in [Entry -> FileEntry], Len(l) \in Nat, Prepended(l, en, e, x)
  PROVE  Listings(ls, fs, <<e>> \o l, [en EXCEPT ![e] = x])
<1> PICK dn, m : dn = [en EXCEPT ![e] = x] /\ m = <<e>> \o l
  OBVIOUS
<1>1. Len(m) = Len(l) + 1 /\ \A i \in 1..Len(l) : m[i + 1] = l[i] /\ l[i] # e /\ l[i] \in Entry
  BY DEF Prepended
<1>2. \A i \in 1..Len(l) : dn[m[i + 1]].name = en[l[i]].name
  BY <1>1
<1>3. ASSUME NEW g \in Fd, fs[g].data = "root"
      PROVE  \A n \in ls[g].stayed :
               \/ n \in ToSet(ls[g].listed)
               \/ \E i \in (fs[g].pos + 1)..Len(m) : dn[m[i]].name = n
  <2>1. fs[g].pos \in Nat /\ \A n \in ls[g].stayed :
          n \in ToSet(ls[g].listed) \/ \E i \in (fs[g].pos + 1)..Len(l) : en[l[i]].name = n
    BY <1>3 DEF Listings, FileDesc
  <2>2. ASSUME NEW i \in (fs[g].pos + 1)..Len(l)
        PROVE  i + 1 \in (fs[g].pos + 1)..Len(m) /\ dn[m[i + 1]].name = en[l[i]].name
    <3>1. i \in 1..Len(l)
      BY <2>1
    <3>2. i + 1 \in (fs[g].pos + 1)..Len(m)
      BY <1>1, <2>1
    <3>3. QED
      BY <1>2, <3>1, <3>2
  <2>3. \A n \in ls[g].stayed :
          \/ n \in ToSet(ls[g].listed)
          \/ \E i \in (fs[g].pos + 1)..Len(m) : dn[m[i]].name = n
    BY <2>1, <2>2, SMTT(30)
  <2>4. QED
    BY <2>3
<1>4. ls \in [Fd -> FileList]
  BY DEF Listings
<1>5. Listings(ls, fs, m, dn)
  BY ONLY <1>3, <1>4 DEF Listings
<1>6. QED
  BY <1>5

-----------------------------------------------------------------------------

\* What a call does to the files: nothing, or what FileStore allows.
StoreMove == Store!Next \/ UNCHANGED Store!fsVars

\* A descriptor becomes lost only when another call changes the length of its file.
LosesFew ==
  \A g \in Fd : g \in Lost' /\ g \notin Lost =>
    \E n \in FileName : /\ n = OpenName(g) /\ n # NULL
                        /\ Store!Length(FileContent(n)) # Store!Length(FileContent(n)')

\* A descriptor as the other files and calls see it.
SameDesc(g) ==
  OpenName(g)' = OpenName(g) /\ OpenAt(g)' = OpenAt(g) /\ (g \in Lost' <=> g \in Lost)

StoreSame ==
  /\ \A n \in FileName : FileContent(n)' = FileContent(n)
  /\ \A g \in Fd : SameDesc(g)
  /\ buf' = buf

FileMove == StoreSame \/ (LosesFew /\ Store!Call)

\* A call of the list of files is one of the store, or changes nothing of it.
LEMMA MovesStore ==
  ASSUME FileMove, ~ wild, UNCHANGED wild
  PROVE  StoreMove
<1>1. CASE StoreSame
  <2>1. Lost' = Lost
    BY <1>1 DEF StoreSame, SameDesc, Lost
  <2>2. /\ [n \in FileName |-> FileContent(n)]' = [n \in FileName |-> FileContent(n)]
        /\ [f \in Fd |-> OpenName(f)]' = [f \in Fd |-> OpenName(f)]
        /\ [f \in Fd |-> OpenAt(f)]' = [f \in Fd |-> OpenAt(f)]
    BY <1>1 DEF StoreSame, SameDesc
  <2>3. QED
    BY <1>1, <2>1, <2>2 DEF StoreMove, StoreSame, Store!fsVars
<1>2. CASE LosesFew /\ Store!Call
  <2>1. Store!LosesOnly
    <3> SUFFICES ASSUME NEW g \in Lost' \ Lost
                 PROVE  /\ OpenName(g) # NULL
                        /\ Store!Length([n \in FileName |-> FileContent(n)][OpenName(g)])
                           # Store!Length([n \in FileName |-> FileContent(n)]'[OpenName(g)])
      BY DEF Store!LosesOnly, Lost
    <3>1. g \in Fd
      BY DEF Lost
    <3> PICK n \in FileName : /\ n = OpenName(g) /\ n # NULL
                              /\ Store!Length(FileContent(n)) # Store!Length(FileContent(n)')
      BY <1>2, <3>1 DEF LosesFew
    <3>2. QED
      OBVIOUS
  <2>2. QED
    BY <1>2, <2>1 DEF StoreMove, Store!Next
<1>3. QED
  BY <1>1, <1>2 DEF FileMove

Views(n) ==
  /\ FileContent(n) = ContentIn(list, entry, n)
  /\ FileContent(n)' = ContentIn(list', entry', n)

\* The content of each name, before and after a step.
LEMMA ViewsOK == FilesInv /\ FilesInv' => \A n : Views(n)
  BY ContentsAlways, ContentsNext DEF Views

\* A descriptor that points at an entry.
LEMMA OpenDesc ==
  ASSUME FilesInv, NEW f \in Fd, NEW e \in Entry, e = fd[f].data
  PROVE  /\ fd[f] \in FileDesc /\ fd[f].pos <= fd[f].size /\ fd[f].path \in FileName
         /\ fd[f].pos \in Nat /\ fd[f].size \in Nat
         /\ OpenName(f) = fd[f].path /\ OpenName(f) # NULL /\ OpenAt(f) = fd[f].pos
         /\ f \in Lost <=> ~ KnowsFile(f)
<1>1. fd \in [Fd -> FileDesc] /\ DescOK(fd[f])
  BY DEF FilesInv, Descs
<1>2. fd[f] \in FileDesc /\ fd[f].pos <= fd[f].size /\ fd[f].path \in FileName
  BY <1>1 DEF DescOK
<1>3. fd[f].pos \in Nat /\ fd[f].size \in Nat
  BY <1>2 DEF FileDesc
<1>4. QED
  BY <1>2, <1>3, RamfsAssumption DEF OpenName, OpenAt, Lost

\* An entry that is in the list, whoever has it open.
LEMMA ListedEntry ==
  ASSUME FilesInv, NEW e \in ToSet(list)
  PROVE  /\ e \in Entry /\ entry[e] \in FileEntry /\ entry[e].name \in FileName
         /\ Bytes(entry[e]) \in Seq(FileByte) /\ Len(Bytes(entry[e])) = entry[e].size
         /\ FileContent(entry[e].name) = Bytes(entry[e]) /\ Bytes(entry[e]) # NULL
         /\ entry[e].size = IF entry[e].data = NULL THEN 0 ELSE Len(entry[e].data)
<1>1. Files(list, entry)
  BY DEF FilesInv
<1>2. /\ ContentIn(list, entry, entry[e].name) = Bytes(entry[e])
      /\ Bytes(entry[e]) \in Seq(FileByte) /\ Len(Bytes(entry[e])) = entry[e].size
      /\ e \in Entry /\ entry[e].name \in FileName
  BY <1>1, ContentOf
<1>3. entry[e] \in FileEntry
      /\ entry[e].size = IF entry[e].data = NULL THEN 0 ELSE Len(entry[e].data)
  BY <1>1, <1>2 DEF Files
<1>4. FileContent(entry[e].name) = ContentIn(list, entry, entry[e].name)
  BY ContentsAre
<1>5. QED
  BY <1>2, <1>3, <1>4, RamfsAssumption

\* One that knows its file.
LEMMA KnownFile ==
  ASSUME FilesInv, NEW f \in Fd, NEW e \in Entry, e = fd[f].data, KnowsFile(f)
  PROVE  e \in ToSet(list) /\ fd[f].size = entry[e].size /\ fd[f].path = entry[e].name
BY DEF KnowsFile, Listed

\* What a call through a lost descriptor may do.
LEMMA LostCalls ==
  ASSUME NEW f \in Fd, f \in Lost, NEW n \in FileName, OpenName(f)' = OpenName(f),
         \A m \in FileName \ {n} : FileContent(m)' = FileContent(m),
         \A g \in Fd \ {f} : OpenName(g)' = OpenName(g) /\ OpenAt(g)' = OpenAt(g)
  PROVE  Store!Call
<1>1. [m \in FileName |-> FileContent(m)]' =
        [[m \in FileName |-> FileContent(m)] EXCEPT ![n] = FileContent(n)']
  OBVIOUS
<1>2. [g \in Fd |-> OpenAt(g)]' = [[g \in Fd |-> OpenAt(g)] EXCEPT ![f] = OpenAt(f)']
  OBVIOUS
<1>3. [g \in Fd |-> OpenName(g)]' = [g \in Fd |-> OpenName(g)]
  OBVIOUS
<1>4. Store!LostCall(f)
  BY <1>1, <1>2, <1>3 DEF Store!LostCall
<1>5. QED
  BY <1>4 DEF Store!Call

\* A call that moves no bytes: the descriptor f becomes x, its listing y.
Turns(f, x, y) ==
  /\ UNCHANGED <<list, entry>> /\ buf' \in Seq(FileByte)
  /\ fd' = [fd EXCEPT ![f] = x] /\ listing' = [listing EXCEPT ![f] = y]
  /\ x.data \in Entry => /\ x.data = fd[f].data /\ x.path = fd[f].path
                         /\ x.size = fd[f].size /\ x.pos <= x.size
  /\ x.data = "root" =>
       \A n \in y.stayed :
         n \in ToSet(y.listed) \/ \E i \in (x.pos + 1)..Len(list) : entry[list[i]].name = n

Turned(f, x) ==
  /\ FilesInv' /\ \A n : FileContent(n)' = FileContent(n)
  /\ fd'[f] = x /\ \A g \in Fd \ {f} : SameDesc(g)
  /\ f \in Lost' <=> x.data \in Entry /\ f \in Lost
  /\ LosesFew

\* A call that moves only one descriptor leaves every file.
LEMMA OnlyDescs ==
  ASSUME FilesInv, NEW f \in Fd, NEW x \in FileDesc, NEW y \in FileList, Turns(f, x, y)
  PROVE  Turned(f, x)
<1> USE DEF Turns
<1>1. Files(list, entry) /\ Descs(fd) /\ Listings(listing, fd, list, entry)
      /\ fd \in [Fd -> FileDesc] /\ list \in Seq(Entry)
  BY DEF FilesInv, Descs, Files
<1>2. Descs([fd EXCEPT ![f] = x])
  <2>1. DescOK(x)
    BY <1>1 DEF Descs, DescOK
  <2>2. QED
    BY <1>1, <2>1 DEF Descs
<1>3. Listings([listing EXCEPT ![f] = y], [fd EXCEPT ![f] = x], list, entry)
  BY <1>1, ListingStep
<1>4. FilesInv'
  BY <1>1, <1>2, <1>3 DEF FilesInv
<1>5. fd'[f] = x /\ \A g \in Fd \ {f} : fd'[g] = fd[g]
  BY <1>1
<1>6. \A g \in Fd \ {f} : SameDesc(g)
  BY <1>5 DEF SameDesc, OpenName, OpenAt, Lost, KnowsFile, Listed
<1>7. \A n : FileContent(n)' = FileContent(n)
  BY <1>4, ViewsOK DEF Views
<1>8. f \in Lost' <=> x.data \in Entry /\ f \in Lost
  BY <1>5 DEF Lost, KnowsFile, Listed
<1>9. LosesFew
  BY <1>6, <1>8 DEF LosesFew, SameDesc
<1>10. QED
  BY <1>4, <1>5, <1>6, <1>7, <1>8, <1>9 DEF Turned

-----------------------------------------------------------------------------

\* The places from p + 1 to q of a sequence.
LEMMA SliceOK ==
  ASSUME NEW S, NEW s \in Seq(S), NEW p \in Nat, NEW q \in Nat, p <= q, q <= Len(s)
  PROVE  /\ SubSeq(s, p + 1, q) \in Seq(S) /\ Len(SubSeq(s, p + 1, q)) = q - p
         /\ \A i \in 1..(q - p) : SubSeq(s, p + 1, q)[i] = s[p + i]
<1> PICK u : u = SubSeq(s, p + 1, q)
  OBVIOUS
<1>1. \A i \in (p + 1)..q : s[i] \in S
  BY ElementOfSeq, LenProperties
<1>2. /\ u \in Seq(S) /\ Len(u) = IF p + 1 <= q THEN q - (p + 1) + 1 ELSE 0
      /\ \A i \in 1..(q - (p + 1) + 1) : u[i] = s[p + 1 + i - 1]
  BY <1>1, SubSeqProperties
<1>3. q - (p + 1) + 1 = q - p /\ (~ (p + 1 <= q) => q - p = 0)
  OBVIOUS
<1>4. \A i \in 1..(q - p) : p + 1 + i - 1 = p + i
  OBVIOUS
<1>5. QED
  BY <1>2, <1>3, <1>4

\* The members of two sequences one behind the other.
LEMMA ConcatMembers ==
  ASSUME NEW S, NEW s \in Seq(S), NEW u \in Seq(S)
  PROVE  ToSet(s) \subseteq ToSet(s \o u) /\ ToSet(u) \subseteq ToSet(s \o u)
<1> PICK a : a = s \o u
  OBVIOUS
<1>1. /\ Len(s) \in Nat /\ DOMAIN s = 1..Len(s) /\ Len(u) \in Nat /\ DOMAIN u = 1..Len(u)
      /\ a \in Seq(S)
  BY LenProperties, ConcatProperties
<1>2. /\ Len(a) = Len(s) + Len(u) /\ DOMAIN a = 1..(Len(s) + Len(u))
      /\ \A i \in 1..(Len(s) + Len(u)) : a[i] = IF i <= Len(s) THEN s[i] ELSE u[i - Len(s)]
  BY <1>1, ConcatProperties, LenProperties
<1>3. /\ \A i \in 1..Len(s) : i \in DOMAIN a /\ a[i] = s[i]
      /\ \A i \in 1..Len(u) : Len(s) + i \in DOMAIN a /\ a[Len(s) + i] = u[i]
  BY <1>1, <1>2
<1>4. QED
  BY <1>1, <1>3, ZenonT(30) DEF ToSet

-----------------------------------------------------------------------------

\* Calls that leave the files as they are.

\* dfs_ramfs_open of the root directory.
LEMMA OpenRootOK ==
  ASSUME FilesInv, NEW f \in Fd, OpenRoot(f)
  PROVE  FilesInv' /\ FileMove
<1> PICK x, y : /\ x = [path |-> NULL, data |-> "root", size |-> 0, pos |-> 0]
                /\ y = [stayed |-> NamesOf(Listed), listed |-> <<>>]
  OBVIOUS
<1>1. /\ list \in Seq(Entry) /\ Len(list) \in Nat /\ \A e \in Listed : entry[e].name \in FileName
      /\ Listed = {list[i] : i \in 1..Len(list)}
  BY LenProperties DEF FilesInv, Files, Listed, ToSet
<1>2. x \in FileDesc /\ y \in FileList /\ x.data = "root" /\ x.pos = 0 /\ x.data \notin Entry
      /\ x.path = NULL /\ y.stayed = NamesOf(Listed)
  BY <1>1, RamfsAssumption DEF FileDesc, FileList, NamesOf
<1>3. UNCHANGED <<list, entry>> /\ fd' = [fd EXCEPT ![f] = x] /\ listing' = [listing EXCEPT ![f] = y]
      /\ buf' \in Seq(FileByte)
  BY DEF OpenRoot, Opened, FilesInv
<1>4. \A n \in y.stayed :
        n \in ToSet(y.listed) \/ \E i \in (x.pos + 1)..Len(list) : entry[list[i]].name = n
  <2>1. \A n \in y.stayed : \E i \in 1..Len(list) : entry[list[i]].name = n
    BY <1>1, <1>2 DEF NamesOf
  <2>2. x.pos + 1 = 1
    BY <1>2
  <2>3. QED
    BY <2>1, <2>2
<1>5. Turned(f, x)
  <2>1. Turns(f, x, y) /\ x \in FileDesc /\ y \in FileList
    BY <1>2, <1>3, <1>4 DEF Turns
  <2>2. QED
    BY ONLY <2>1, FilesInv, f \in Fd, OnlyDescs
<1>6. SameDesc(f)
  <2>1. fd[f].data = NULL /\ fd[f].path = NULL /\ fd'[f] = x /\ ~ (f \in Lost')
    BY <1>2, <1>5 DEF OpenRoot, Closed, Turned
  <2>2. f \notin Lost
    BY <2>1, RamfsAssumption DEF Lost
  <2>3. QED
    BY <1>2, <2>1, <2>2, RamfsAssumption DEF SameDesc, OpenName, OpenAt
<1>7. StoreSame
  BY <1>5, <1>6 DEF StoreSame, Turned, OpenRoot
<1>8. QED
  BY <1>5, <1>7 DEF FileMove, Turned

\* dfs_ramfs_close.
LEMMA CloseOK ==
  ASSUME FilesInv, NEW f \in Fd, CloseFd(f)
  PROVE  FilesInv' /\ FileMove
<1> PICK y : y = [stayed |-> {}, listed |-> <<>>]
  OBVIOUS
<1>1. Closed \in FileDesc /\ y \in FileList /\ Closed.data = NULL /\ Closed.path = NULL /\ y.stayed = {}
  BY DEF Closed, FileDesc, FileList
<1>2. UNCHANGED <<list, entry>> /\ buf' = <<>> /\ fd' = [fd EXCEPT ![f] = Closed]
      /\ listing' = [listing EXCEPT ![f] = y] /\ buf' \in Seq(FileByte)
  BY DEF CloseFd, FilesInv
<1>3. Turned(f, Closed)
  <2>1. Turns(f, Closed, y) /\ Closed \in FileDesc /\ y \in FileList
    BY <1>1, <1>2, RamfsAssumption DEF Turns
  <2>2. QED
    BY ONLY <2>1, FilesInv, f \in Fd, OnlyDescs
<1>4. OpenName(f)' = NULL /\ OpenAt(f)' = 0 /\ f \notin Lost'
  BY <1>1, <1>3, RamfsAssumption DEF OpenName, OpenAt, Turned
<1>5. Store!Close(f)
  BY <1>2, <1>3, <1>4 DEF Store!Close, Turned, SameDesc
<1>6. QED
  BY <1>3, <1>5 DEF FileMove, Turned, Store!Call

\* dfs_ramfs_lseek.
LEMMA SeekOK ==
  ASSUME FilesInv, NEW f \in Fd, NEW i \in 0..SizeMax, Seek(f, i)
  PROVE  FilesInv' /\ FileMove
<1> PICK e \in Entry : e = fd[f].data
  BY DEF Seek
<1> PICK x : x = [fd[f] EXCEPT !.pos = i]
  OBVIOUS
<1>1. /\ fd \in [Fd -> FileDesc] /\ listing \in [Fd -> FileList]
      /\ i <= fd[f].size /\ fd[f] \in FileDesc /\ fd[f].path \in FileName
      /\ OpenName(f) = fd[f].path /\ OpenName(f) # NULL
      /\ f \in Lost <=> ~ KnowsFile(f)
  BY OpenDesc DEF FilesInv, Descs, Listings, Seek
<1>2. x \in FileDesc /\ x.data = e /\ x.size = fd[f].size /\ x.pos = i /\ x.path = fd[f].path
      /\ e # "root"
  <2>1. x = [fd[f] EXCEPT !.pos = i] /\ fd[f] \in FileDesc /\ fd[f].data = e /\ i \in Nat
    BY <1>1, RamfsAssumption
  <2>2. x \in FileDesc /\ x.data = e /\ x.size = fd[f].size /\ x.pos = i /\ x.path = fd[f].path
    BY ONLY <2>1 DEF FileDesc
  <2>3. QED
    BY <2>2, RamfsAssumption
<1>3. UNCHANGED <<list, entry>> /\ buf' = <<>> /\ fd' = [fd EXCEPT ![f] = x]
      /\ listing' = [listing EXCEPT ![f] = listing[f]] /\ buf' \in Seq(FileByte)
  BY <1>1 DEF Seek, FilesInv
<1>4. Turned(f, x)
  <2>1. Turns(f, x, listing[f]) /\ x \in FileDesc /\ listing[f] \in FileList
    BY <1>1, <1>2, <1>3 DEF Turns
  <2>2. QED
    BY ONLY <2>1, FilesInv, f \in Fd, OnlyDescs
<1> PICK n \in FileName : n = fd[f].path
  BY <1>1
<1>5. OpenName(f) = n /\ OpenName(f)' = n /\ OpenAt(f)' = i /\ n # NULL
  BY <1>1, <1>2, <1>4 DEF OpenName, OpenAt, Turned
<1>6. CASE f \in Lost
  <2>1. Store!Call
    BY <1>4, <1>5, <1>6, LostCalls DEF Turned, SameDesc
  <2>2. QED
    BY <1>4, <2>1 DEF Turned, FileMove
<1>7. CASE f \notin Lost
  <2>1. e \in ToSet(list) /\ fd[f].size = entry[e].size /\ n = entry[e].name
    BY <1>1, <1>7, KnownFile
  <2>2. Len(FileContent(n)) = fd[f].size
    BY <2>1, ListedEntry
  <2>3. Store!Seek(f, i) /\ i \in 0..Len(FileContent(n))
    <3>1. i \in 0..Len(FileContent(n))
      BY <1>1, <2>2 DEF FileDesc
    <3>2. QED
      BY <1>3, <1>4, <1>5, <1>7, <3>1 DEF Store!Seek, Store!Knows, Turned, SameDesc
  <2>4. Store!Call
    BY <1>5, <1>7, <2>3 DEF Store!Call, Store!Knows
  <2>5. QED
    BY <1>4, <2>4 DEF Turned, FileMove
<1>8. QED
  BY <1>6, <1>7

\* dfs_ramfs_read returns what is left of the file, and moves on by it.
LEMMA FileReadOK ==
  ASSUME FilesInv, NEW f \in Fd, NEW k \in Count, Read(f, k)
  PROVE  FilesInv' /\ FileMove
<1> PICK e \in Entry : e = fd[f].data
  BY DEF Read
<1> PICK p, z : p = fd[f].pos /\ z = fd[f].size
  OBVIOUS
<1> PICK n : n = ToRead(f, k)
  OBVIOUS
<1> PICK x : x = [fd[f] EXCEPT !.pos = p + n]
  OBVIOUS
<1>1. /\ fd \in [Fd -> FileDesc] /\ listing \in [Fd -> FileList]
      /\ p <= z /\ p \in Nat /\ z \in Nat /\ fd[f].path \in FileName
      /\ fd[f] \in FileDesc /\ fd[f].data = e
      /\ OpenName(f) = fd[f].path /\ OpenName(f) # NULL /\ OpenAt(f) = p
      /\ f \in Lost <=> ~ KnowsFile(f)
  BY OpenDesc DEF FilesInv, Descs, Listings
<1>2. n \in Nat /\ p + n <= z /\ n = IF k < z - p THEN k ELSE z - p
  <2>1. n = (IF k < z - p THEN k ELSE z - p) /\ k \in Nat
    BY RamfsAssumption DEF ToRead
  <2>2. QED
    BY ONLY <1>1, <2>1
<1>3. x \in FileDesc /\ x.data = e /\ x.size = z /\ x.pos = p + n /\ x.path = fd[f].path /\ e # "root"
  <2> PICK q \in Nat : q = p + n
    BY <1>1, <1>2
  <2>1. x = [fd[f] EXCEPT !.pos = q] /\ fd[f] \in FileDesc /\ fd[f].data = e /\ fd[f].size = z
    BY <1>1
  <2>2. x \in FileDesc /\ x.data = e /\ x.size = z /\ x.pos = q /\ x.path = fd[f].path
    BY ONLY <2>1, q \in Nat DEF FileDesc
  <2>3. QED
    BY <2>2, RamfsAssumption
<1> PICK c : c = Bytes(entry[e])
  OBVIOUS
<1>4. n # 0 => e \in ToSet(list) /\ p + n <= Len(c) /\ c \in Seq(FileByte)
  <2>1. InFile(f, n)
    BY DEF Read
  <2>2. Kept(e) = c
    BY DEF Kept, Bytes
  <2>3. n # 0 => e \in ToSet(list) /\ p + n <= Len(c)
    BY <2>1, <2>2 DEF InFile, Listed
  <2>4. QED
    BY <2>3, ListedEntry
<1>5. buf' \in Seq(FileByte) /\ Len(buf') = n /\ (n # 0 => buf' = SubSeq(c, p + 1, p + n))
  <2>1. buf' = [i \in 1..n |-> entry[e].data[p + i]]
    BY DEF Read
  <2>2. CASE n = 0
    <3>1. buf' = [i \in 1..0 |-> entry[e].data[p + i]] /\ 1..0 = {}
      BY <2>1, <2>2
    <3>2. buf' = <<>>
      BY ONLY <3>1
    <3>3. QED
      BY <2>2, <3>2
  <2>3. CASE n # 0
    <3>1. c = entry[e].data
      <4>1. c # <<>>
        BY <1>1, <1>2, <1>4, <2>3, EmptySeq
      <4>2. QED
        BY <4>1 DEF Bytes
    <3> PICK q \in Nat : q = p + n
      BY <1>1, <1>2
    <3> PICK s : s = SubSeq(c, p + 1, q)
      OBVIOUS
    <3>2. s \in Seq(FileByte) /\ Len(s) = n /\ \A i \in 1..n : s[i] = c[p + i]
      <4>1. c \in Seq(FileByte) /\ p \in Nat /\ q \in Nat /\ p <= q /\ q <= Len(c)
        BY <1>1, <1>2, <1>4, <2>3
      <4>2. /\ SubSeq(c, p + 1, q) \in Seq(FileByte) /\ Len(SubSeq(c, p + 1, q)) = q - p
            /\ \A i \in 1..(q - p) : SubSeq(c, p + 1, q)[i] = c[p + i]
        BY ONLY <4>1, SliceOK
      <4>3. q - p = n
        <5>1. p \in Nat /\ n \in Nat
          BY <1>1, <1>2
        <5>2. QED
          BY ONLY <5>1, q = p + n
      <4>4. QED
        BY <4>2, <4>3
    <3>3. s = [i \in 1..n |-> c[p + i]]
      BY <3>2, LenProperties
    <3>4. QED
      BY <2>1, <3>1, <3>2, <3>3
  <2>4. QED
    BY <2>2, <2>3
<1>6. UNCHANGED <<list, entry>> /\ fd' = [fd EXCEPT ![f] = x]
      /\ listing' = [listing EXCEPT ![f] = listing[f]]
  BY <1>1 DEF Read
<1>7. Turned(f, x)
  <2>1. Turns(f, x, listing[f]) /\ x \in FileDesc /\ listing[f] \in FileList
    BY <1>1, <1>2, <1>3, <1>5, <1>6 DEF Turns
  <2>2. QED
    BY ONLY <2>1, FilesInv, f \in Fd, OnlyDescs
<1> PICK m \in FileName : m = fd[f].path
  BY <1>1
<1>8. OpenName(f) = m /\ OpenName(f)' = m /\ OpenAt(f) = p /\ OpenAt(f)' = p + n /\ m # NULL
  BY <1>1, <1>3, <1>7 DEF OpenName, OpenAt, Turned
<1>9. CASE f \in Lost
  <2>1. Store!Call
    BY <1>7, <1>8, <1>9, LostCalls DEF Turned, SameDesc
  <2>2. QED
    BY <1>7, <2>1 DEF Turned, FileMove
<1>10. CASE f \notin Lost
  <2>1. /\ e \in ToSet(list) /\ m = entry[e].name /\ FileContent(m) = c /\ c \in Seq(FileByte)
        /\ Len(c) = z
    BY <1>1, <1>10, KnownFile, ListedEntry
  <2>2. buf' = SubSeq(c, p + 1, p + n)
    <3>1. CASE n = 0
      <4>1. SubSeq(c, p + 1, p + n) \in Seq(FileByte) /\ Len(SubSeq(c, p + 1, p + n)) = 0
        <5>1. /\ SubSeq(c, p + 1, p) \in Seq(FileByte) /\ Len(SubSeq(c, p + 1, p)) = p - p
          BY ONLY <1>1, <2>1, SliceOK
        <5>2. p + n = p /\ p - p = 0
          BY <1>1, <3>1
        <5>3. QED
          BY <5>1, <5>2
      <4>2. QED
        BY <1>5, <3>1, <4>1, EmptySeq
    <3>2. QED
      BY <1>5, <3>1
  <2>3. Len(FileContent(m)) - OpenAt(f) = z - p
    BY <1>8, <2>1
  <2>4. buf' = SubSeq(FileContent(m), OpenAt(f) + 1,
                      OpenAt(f) + IF k < z - p THEN k ELSE z - p)
    BY <1>2, <1>8, <2>1, <2>2
  <2>5. OpenAt(f)' = OpenAt(f) + Len(buf')
    BY <1>5, <1>8
  <2>6. Store!Read(f, k)
    BY <1>7, <1>8, <1>10, <2>3, <2>4, <2>5 DEF Store!Read, Store!Knows, Turned, SameDesc
  <2>7. QED
    BY <1>7, <2>6 DEF Turned, FileMove, Store!Call
<1>11. QED
  BY <1>9, <1>10

\* What is not among the names of s yet stands behind place p.
Awaited(there, s, p) ==
  \A m \in there : m \in ToSet(s) \/ \E i \in (p + 1)..Len(list) : entry[list[i]].name = m

\* Names are listed up to place q, from place p on.
LEMMA ListedFurther ==
  ASSUME Files(list, entry), NEW p \in Nat, NEW q \in Nat, p <= q, q <= Len(list),
         NEW there, NEW s \in Seq(FileName), Awaited(there, s, p), NEW names,
         names = [i \in 1..(q - p) |-> entry[list[p + i]].name]
  PROVE  s \o names \in Seq(FileName) /\ Awaited(there, s \o names, q)
<1>1. Len(list) \in Nat 
      /\ \A i \in 1..Len(list) : entry[list[i]].name \in FileName
  BY LenProperties DEF Files, ToSet
<1>2. \A i \in 1..(q - p) : p + i \in 1..Len(list)
  BY <1>1
<1>3. names \in Seq(FileName) /\ Len(names) = q - p /\ DOMAIN names = 1..(q - p)
  <2>1. q - p \in Nat /\ names \in [1..(q - p) -> FileName]
    BY <1>1, <1>2
  <2> PICK k \in Nat : k = q - p
    BY <2>1
  <2>2. names \in [1..k -> FileName]
    BY <2>1
  <2>3. names \in Seq(FileName)
    BY ONLY <2>2, k \in Nat
  <2>4. QED
    BY <2>2, <2>3, LenProperties
<1>4. /\ s \o names \in Seq(FileName)
      /\ ToSet(s) \subseteq ToSet(s \o names)
      /\ ToSet(names) \subseteq ToSet(s \o names)
  BY <1>1, <1>3, ConcatProperties, ConcatMembers
<1>5. ASSUME NEW m \in there
      PROVE  \/ m \in ToSet(s \o names)
             \/ \E i \in (q + 1)..Len(list) : entry[list[i]].name = m
  <2>1. CASE m \in ToSet(s)
    BY <1>4, <2>1
  <2>2. CASE \E i \in (p + 1)..Len(list) : entry[list[i]].name = m
    <3> PICK i \in (p + 1)..Len(list) : entry[list[i]].name = m
      BY <2>2
    <3>1. CASE i > q
      <4>1. i \in (q + 1)..Len(list)
        BY <1>1, <3>1
      <4>2. QED
        BY <4>1
    <3>2. CASE i <= q
      <4>1. i - p \in 1..(q - p) /\ p + (i - p) = i
        BY <1>1, <3>2
      <4>2. names[i - p] = m
        BY <4>1
      <4>3. m \in ToSet(names)
        BY <1>3, <4>1, <4>2 DEF ToSet
      <4>4. QED
        BY <1>4, <4>3
    <3>3. QED
      BY <1>1, <3>1, <3>2
  <2>3. QED
    BY <2>1, <2>2 DEF Awaited
<1>6. QED
  BY <1>4, <1>5 DEF Awaited

\* dfs_ramfs_getdents goes on where the listing stopped.
LEMMA GetDentsOK ==
  ASSUME FilesInv, NEW f \in Fd, NEW k \in Count, GetDents(f, k)
  PROVE  FilesInv' /\ FileMove
<1> PICK p, old : p = fd[f].pos /\ old = listing[f]
  OBVIOUS
<1>1. /\ fd \in [Fd -> FileDesc] /\ listing \in [Fd -> FileList] /\ Files(list, entry)
      /\ p \in Nat /\ Len(list) \in Nat /\ fd[f].data = "root" /\ k \in Nat
      /\ fd[f] \in FileDesc /\ old \in FileList /\ list \in Seq(Entry)
      /\ old.listed \in Seq(FileName) /\ Awaited(old.stayed, old.listed, p)
  <2>1. list \in Seq(Entry) /\ Files(list, entry) /\ fd \in [Fd -> FileDesc] /\ fd[f].data = "root"
    BY DEF FilesInv, Descs, Files, GetDents
  <2>2. Len(list) \in Nat /\ k \in Nat
    BY <2>1, LenProperties, RamfsAssumption
  <2>3. p \in Nat
    BY <2>1 DEF FileDesc
  <2>4. old \in FileList /\ old.listed \in Seq(FileName)
    BY DEF FilesInv, Listings, FileList
  <2>5. Awaited(old.stayed, old.listed, p)
    BY <2>1 DEF FilesInv, Listings, Awaited
  <2>6. QED
    BY <2>1, <2>2, <2>3, <2>4, <2>5 DEF FilesInv, Listings
<1> PICK end : end = IF p + k < Len(list) THEN p + k ELSE Len(list)
  OBVIOUS
<1> PICK give : give = SubSeq(list, p + 1, end)
  OBVIOUS
<1>2. end \in Nat /\ end <= Len(list) /\ (p <= Len(list) => p <= end)
      /\ (~ (p <= Len(list)) => end = Len(list))
  <2>1. p \in Nat /\ k \in Nat /\ Len(list) \in Nat
    BY <1>1
  <2>2. QED
    BY ONLY <2>1, end = IF p + k < Len(list) THEN p + k ELSE Len(list)
<1>3. /\ fd' = [fd EXCEPT ![f].pos = @ + Len(give)]
      /\ listing' = [listing EXCEPT ![f].listed =
                       @ \o [i \in 1..Len(give) |-> entry[give[i]].name]]
      /\ UNCHANGED <<list, entry, buf>>
  BY DEF GetDents, From
<1> PICK n : n = Len(give)
  OBVIOUS
<1>4. /\ n \in Nat /\ \A i \in 1..n : give[i] = list[p + i]
      /\ IF p <= Len(list) THEN p + n <= Len(list) ELSE n = 0
  <2>1. CASE p <= Len(list)
    <3>1. list \in Seq(Entry) /\ p \in Nat /\ end \in Nat /\ p <= end /\ end <= Len(list)
      BY <1>1, <1>2, <2>1
    <3>2. Len(give) = end - p /\ \A i \in 1..(end - p) : give[i] = list[p + i]
      BY ONLY <3>1, SliceOK, give = SubSeq(list, p + 1, end)
    <3>3. n = end - p
      BY <3>2
    <3>4. n \in Nat /\ p + n <= Len(list)
      BY ONLY <1>1, <3>1, <3>3
    <3>5. QED
      BY <2>1, <3>2, <3>3, <3>4
  <2>2. CASE ~ (p <= Len(list))
    <3>1. p + 1 \in Int /\ end \in Int /\ ~ (p + 1 <= end)
      BY <1>1, <1>2, <2>2
    <3>2. \A i \in (p + 1)..end : list[i] \in Entry
      BY <3>1
    <3>3. give \in Seq(Entry) /\ Len(give) = 0
      BY <1>1, <1>2, <3>1, <3>2, SubSeqProperties
    <3>4. QED
      BY <2>2, <3>3
  <2>3. QED
    BY <2>1, <2>2
<1> PICK names : names = [i \in 1..n |-> entry[list[p + i]].name]
  OBVIOUS
<1> PICK q \in Nat : q = p + n
  BY <1>1, <1>4
<1>5. old.listed \o names \in Seq(FileName) /\ Awaited(old.stayed, old.listed \o names, q)
  <2>1. CASE p <= Len(list)
    <3>1. p \in Nat /\ q \in Nat /\ p <= q /\ q <= Len(list) /\ q - p = n
      <4>1. p \in Nat /\ n \in Nat /\ p + n <= Len(list)
        BY <1>1, <1>4, <2>1
      <4>2. QED
        BY ONLY <4>1, q \in Nat, q = p + n
    <3>2. names = [i \in 1..(q - p) |-> entry[list[p + i]].name]
      BY <3>1
    <3>3. /\ Files(list, entry) /\ old.listed \in Seq(FileName)
          /\ Awaited(old.stayed, old.listed, p)
      BY <1>1
    <3>4. QED
      BY ONLY <3>1, <3>2, <3>3, ListedFurther
  <2>2. CASE ~ (p <= Len(list))
    <3>1. n = 0 /\ q = p
      <4>1. p \in Nat /\ n = 0
        BY <1>1, <1>4, <2>2
      <4>2. QED
        BY ONLY <4>1, q = p + n
    <3>2. names = [i \in 1..0 |-> entry[list[p + i]].name] /\ 1..0 = {}
      BY ONLY <3>1, names = [i \in 1..n |-> entry[list[p + i]].name]
    <3>3. names = <<>>
      BY ONLY <3>2
    <3>4. old.listed \o names = old.listed
      BY <1>1, <3>3, ConcatEmptySeq
    <3>5. QED
      BY <1>1, <3>1, <3>4
  <2>3. QED
    BY <2>1, <2>2
<1> PICK s : s = old.listed \o names
  OBVIOUS
<1>6. /\ fd' = [fd EXCEPT ![f] = [fd[f] EXCEPT !.pos = q]]
      /\ listing' = [listing EXCEPT ![f] = [listing[f] EXCEPT !.listed = s]]
  <2>1. [i \in 1..Len(give) |-> entry[give[i]].name] = names
    BY <1>4
  <2>2. fd[f].pos + Len(give) = q /\ listing[f].listed \o names = s
    OBVIOUS
  <2>3. QED
    BY <1>3, <2>1, <2>2
<1> PICK x, y : x = [fd[f] EXCEPT !.pos = q] /\ y = [listing[f] EXCEPT !.listed = s]
  OBVIOUS
<1>7. x \in FileDesc /\ x.data = "root" /\ x.pos = q /\ x.path = fd[f].path /\ x.data \notin Entry
  <2>1. x \in FileDesc /\ x.data = "root" /\ x.pos = q /\ x.path = fd[f].path
    BY ONLY <1>1, q \in Nat, x = [fd[f] EXCEPT !.pos = q] DEF FileDesc
  <2>2. QED
    BY <2>1, RamfsAssumption
<1>8. y \in FileList /\ y.stayed = old.stayed /\ y.listed = s
  <2>1. old \in FileList /\ s \in Seq(FileName) /\ y = [old EXCEPT !.listed = s]
    BY <1>1, <1>5
  <2>2. QED
    BY ONLY <2>1 DEF FileList
<1>9. Turned(f, x)
  <2>1. Turns(f, x, y)
    BY <1>3, <1>5, <1>6, <1>7, <1>8 DEF Turns, FilesInv, Awaited
  <2>2. x \in FileDesc /\ y \in FileList
    BY <1>7, <1>8
  <2>3. QED
    BY ONLY <2>1, <2>2, FilesInv, f \in Fd, OnlyDescs
<1>10. SameDesc(f)
  <2>1. fd'[f] = x /\ ~ (f \in Lost')
    BY <1>7, <1>9 DEF Turned
  <2>2. f \notin Lost /\ fd[f].data \notin Entry
    BY <1>1, RamfsAssumption DEF Lost
  <2>3. QED
    BY <1>7, <2>1, <2>2 DEF SameDesc, OpenName, OpenAt
<1>11. StoreSame
  BY <1>3, <1>9, <1>10 DEF StoreSame, Turned
<1>12. QED
  BY <1>9, <1>11 DEF FileMove, Turned

-----------------------------------------------------------------------------

\* Calls that change a file that is there: the entry e becomes w, and the
\* descriptor f, which points at it, x.
Changes(f, e, w, x) ==
  /\ entry' = [entry EXCEPT ![e] = w] /\ fd' = [fd EXCEPT ![f] = x]
  /\ buf' = <<>> /\ UNCHANGED <<list, listing>>
  /\ w \in FileEntry /\ w.name = entry[e].name
  /\ w.size = IF w.data = NULL THEN 0 ELSE Len(w.data)
  /\ x \in FileDesc /\ x.data = e /\ DescOK(x)

Changed(f, e, w, x) ==
  /\ FilesInv' /\ entry[e].name \in FileName
  /\ \A m \in FileName : IF m = entry[e].name
                          THEN FileContent(m)' = Bytes(w) /\ FileContent(m) = Bytes(entry[e])
                          ELSE FileContent(m)' = FileContent(m)
  /\ Bytes(w) \in Seq(FileByte) /\ Len(Bytes(w)) = w.size
  /\ Bytes(entry[e]) \in Seq(FileByte) /\ Len(Bytes(entry[e])) = entry[e].size
  /\ OpenName(f)' = x.path /\ OpenAt(f)' = x.pos
  /\ f \in Lost' <=> ~ (x.path = entry[e].name /\ x.size = w.size)
  /\ \A g \in Fd \ {f} :
       /\ OpenName(g)' = OpenName(g) /\ OpenAt(g)' = OpenAt(g)
       /\ g \in Lost' /\ g \notin Lost =>
            OpenName(g) = entry[e].name /\ entry[e].size # w.size

\* A call that rewrites one entry and moves one descriptor on it.
LEMMA EntryStep ==
  ASSUME FilesInv, NEW f \in Fd, NEW e \in ToSet(list), NEW w, NEW x, Changes(f, e, w, x)
  PROVE  Changed(f, e, w, x)
<1> PICK dn : dn = entry'
  OBVIOUS
<1>1. Files(list, entry) /\ Descs(fd) /\ Listings(listing, fd, list, entry)
      /\ fd \in [Fd -> FileDesc] /\ list \in Seq(Entry) /\ entry \in [Entry -> FileEntry]
      /\ listing \in [Fd -> FileList] /\ listing[f] \in FileList
  BY DEF FilesInv, Descs, Files, Listings
<1>2. e \in Entry /\ e # "root" /\ entry[e].name \in FileName
      /\ Bytes(entry[e]) \in Seq(FileByte) /\ Len(Bytes(entry[e])) = entry[e].size
      /\ \A d \in ToSet(list) : d \in Entry
  BY <1>1, ContentOf, RamfsAssumption
<1>3. Rewritten(list, entry, e, w) /\ dn = [entry EXCEPT ![e] = w] /\ w.name = entry[e].name
  <2>1. w \in FileEntry /\ w.name = entry[e].name
        /\ w.size = (IF w.data = NULL THEN 0 ELSE Len(w.data)) /\ dn = [entry EXCEPT ![e] = w]
    BY DEF Changes
  <2>2. Files(list, entry)
    BY <1>1
  <2>3. Rewritten(list, entry, e, w)
    BY ONLY <2>1, <2>2, e \in ToSet(list), EntryRewritten
  <2>4. QED
    BY <2>1, <2>3
<1>4. dn[e] = w /\ (\A d \in Entry \ {e} : dn[d] = entry[d]) /\ \A d \in Entry : dn[d].name = entry[d].name
  BY <1>1, <1>2, <1>3
<1>5. Files(list, dn)
  BY <1>3 DEF Rewritten
<1>6. Descs([fd EXCEPT ![f] = x])
  BY <1>1 DEF Changes, Descs
<1>7. Listings([listing EXCEPT ![f] = listing[f]], [fd EXCEPT ![f] = x], list, dn)
  <2>1. x \in FileDesc /\ x.data # "root"
    BY <1>2 DEF Changes
  <2>2. QED
    BY ONLY <1>1, <1>4, <2>1, f \in Fd, ListingStep
<1>8. fd' = [fd EXCEPT ![f] = x] /\ listing' = [listing EXCEPT ![f] = listing[f]] /\ list' = list
      /\ buf' \in Seq(FileByte)
  BY <1>1 DEF Changes
<1>9. FilesInv'
  BY <1>5, <1>6, <1>7, <1>8 DEF FilesInv
<1>10. \A m : FileContent(m)' = ContentIn(list, dn, m) /\ FileContent(m) = ContentIn(list, entry, m)
  BY <1>8, <1>9, ViewsOK DEF Views
<1>11. ContentIn(list, entry, entry[e].name) = Bytes(entry[e])
  BY <1>1, ContentOf
<1>12. fd'[f] = x /\ x.data = e /\ \A g \in Fd \ {f} : fd'[g] = fd[g]
  BY <1>1, <1>8 DEF Changes
<1>13. \A m \in FileName : IF m = entry[e].name
                           THEN FileContent(m)' = Bytes(w) /\ FileContent(m) = Bytes(entry[e])
                           ELSE FileContent(m)' = FileContent(m)
  <2>1. /\ ContentIn(list, dn, entry[e].name) = Bytes(w)
        /\ \A m \in FileName \ {entry[e].name} : ContentIn(list, dn, m) = ContentIn(list, entry, m)
    BY <1>3 DEF Rewritten
  <2>2. QED
    BY ONLY <1>10, <1>11, <2>1
<1>14. Bytes(w) \in Seq(FileByte) /\ Len(Bytes(w)) = w.size
  <2>1. Files(list, dn) /\ e \in ToSet(list)
    BY <1>5
  <2>2. Bytes(dn[e]) \in Seq(FileByte) /\ Len(Bytes(dn[e])) = dn[e].size
    BY ONLY <2>1, ContentOf
  <2>3. QED
    BY <1>4, <2>2
<1>15. OpenName(f)' = x.path /\ OpenAt(f)' = x.pos
  BY <1>2, <1>12 DEF OpenName, OpenAt
<1>16. f \in Lost' <=> ~ (x.path = entry[e].name /\ x.size = w.size)
  BY <1>2, <1>3, <1>4, <1>8, <1>12 DEF Lost, KnowsFile, Listed
<1>17. ASSUME NEW g \in Fd \ {f}
       PROVE  /\ OpenName(g)' = OpenName(g) /\ OpenAt(g)' = OpenAt(g)
              /\ g \in Lost' /\ g \notin Lost =>
                   OpenName(g) = entry[e].name /\ entry[e].size # w.size
  <2>1. OpenName(g)' = OpenName(g) /\ OpenAt(g)' = OpenAt(g)
    BY <1>12 DEF OpenName, OpenAt
  <2> SUFFICES ASSUME g \in Lost', g \notin Lost
               PROVE  OpenName(g) = entry[e].name /\ entry[e].size # w.size
    BY <2>1
  <2> PICK d \in Entry : d = fd[g].data
    BY <1>12 DEF Lost
  <2>2. d \in ToSet(list) /\ entry[d].name = fd[g].path /\ entry[d].size = fd[g].size
    BY DEF Lost, KnowsFile, Listed
  <2>3. ~ (d \in ToSet(list) /\ dn[d].name = fd[g].path /\ dn[d].size = fd[g].size)
    BY <1>8, <1>12 DEF Lost, KnowsFile, Listed
  <2>4. d = e
    BY <1>4, <2>2, <2>3
  <2>5. QED
    BY <1>3, <1>4, <2>2, <2>3, <2>4 DEF OpenName
<1>18. QED
  BY <1>2, <1>9, <1>13, <1>14, <1>15, <1>16, <1>17 DEF Changed

\* Only those who have the file open lose it, and only when its length changes.
LEMMA ChangeLoses ==
  ASSUME NEW f, NEW e, NEW w, NEW x, Changed(f, e, w, x), f \in Lost' => f \in Lost
  PROVE  LosesFew
<1> SUFFICES ASSUME NEW g \in Fd, g \in Lost', g \notin Lost
             PROVE  \E n \in FileName :
                      /\ n = OpenName(g) /\ n # NULL
                      /\ Store!Length(FileContent(n)) # Store!Length(FileContent(n)')
  BY DEF LosesFew
<1> PICK n \in FileName : n = entry[e].name
  BY DEF Changed
<1>1. n = OpenName(g) /\ n # NULL /\ entry[e].size # w.size
  BY RamfsAssumption DEF Changed
<1> PICK a, b : a = Bytes(entry[e]) /\ b = Bytes(w)
  OBVIOUS
<1>2. FileContent(n) = a /\ FileContent(n)' = b
  BY DEF Changed
<1>3. a # NULL /\ b # NULL /\ Len(a) # Len(b)
  BY <1>1, RamfsAssumption DEF Changed
<1>4. Store!Length(a) # Store!Length(b)
  BY <1>3 DEF Store!Length
<1>5. Store!Length(FileContent(n)) # Store!Length(FileContent(n)')
  BY <1>2, <1>4
<1>6. QED
  BY <1>1, <1>5

\* dfs_ramfs_open of a file that is there.
LEMMA OpenFileOK ==
  ASSUME FilesInv, NEW f \in Fd, NEW n \in FileName, NEW append \in BOOLEAN, NEW trunc \in BOOLEAN,
         OpenFile(f, n, append, trunc)
  PROVE  FilesInv' /\ FileMove
<1> PICK e : e = LookupEntry(n)
  OBVIOUS
<1>1. /\ fd[f] = Closed /\ e # NULL
      /\ entry' = IF trunc THEN [entry EXCEPT ![e] = [@ EXCEPT !.size = 0, !.data = NULL]]
                  ELSE entry
      /\ Opened(f, n, e, entry'[e].size, append) /\ buf' = <<>> /\ UNCHANGED <<list, listing>>
  BY DEF OpenFile
<1>2. e \in ToSet(list) /\ entry[e].name = n
  BY <1>1, LookupFinds DEF Listed
<1>3. Files(list, entry) /\ fd \in [Fd -> FileDesc] /\ entry \in [Entry -> FileEntry] /\ e \in Entry
  BY <1>2, ContentOf DEF FilesInv, Files, Descs
<1> PICK w : w = IF trunc THEN [entry[e] EXCEPT !.size = 0, !.data = NULL] ELSE entry[e]
  OBVIOUS
<1>4. /\ w \in FileEntry /\ w.name = n /\ w.size = IF w.data = NULL THEN 0 ELSE Len(w.data)
      /\ entry' = [entry EXCEPT ![e] = w] /\ entry'[e] = w
      /\ ~ trunc => w = entry[e]
      /\ trunc => w.data = NULL
  <2>1. CASE trunc
    <3>1. w = [entry[e] EXCEPT !.size = 0, !.data = NULL] /\ entry[e] \in FileEntry
      BY <1>3, <2>1
    <3>2. w \in FileEntry /\ w.name = entry[e].name /\ w.size = 0 /\ w.data = NULL
      BY ONLY <3>1 DEF FileEntry
    <3>3. entry' = [entry EXCEPT ![e] = w] /\ entry'[e] = w
      BY <1>1, <1>3, <2>1, <3>1
    <3>4. QED
      BY <1>2, <2>1, <3>2, <3>3
  <2>2. CASE ~ trunc
    BY <1>1, <1>2, <1>3, <2>2 DEF Files
  <2>3. QED
    BY <2>1, <2>2
<1> PICK x : x = [path |-> n, data |-> e, size |-> w.size, pos |-> IF append THEN w.size ELSE 0]
  OBVIOUS
<1>5. x \in FileDesc /\ x.path = n /\ x.data = e /\ x.size = w.size /\ x.pos \in {0, w.size}
      /\ DescOK(x) /\ fd' = [fd EXCEPT ![f] = x]
  BY <1>1, <1>3, <1>4 DEF FileDesc, FileEntry, Opened, DescOK
<1>6. Changes(f, e, w, x)
  BY <1>1, <1>2, <1>4, <1>5 DEF Changes
<1>7. Changed(f, e, w, x)
  BY ONLY <1>2, <1>6, FilesInv, f \in Fd, EntryStep
<1>8. f \notin Lost' /\ OpenName(f) = NULL /\ OpenName(f)' = n /\ OpenAt(f)' = x.pos
      /\ \A g \in Fd \ {f} : OpenName(g)' = OpenName(g) /\ OpenAt(g)' = OpenAt(g)
  BY <1>1, <1>2, <1>5, <1>7, RamfsAssumption DEF Changed, OpenName, Closed
<1>9. Bytes(w) \in Seq(FileByte) /\ Len(Bytes(w)) = w.size /\ (trunc => Bytes(w) = <<>>)
  BY <1>4, <1>7 DEF Bytes, Changed
<1>10. FileContent(n)' = Bytes(w) /\ FileContent(n) = Bytes(entry[e])
       /\ \A m \in FileName \ {n} : FileContent(m)' = FileContent(m)
  BY <1>2, <1>7 DEF Changed
<1>11. Store!Open(f, n)
  <2>1. OpenAt(f)' \in {0, Len(FileContent(n)')}
    BY <1>5, <1>8, <1>9, <1>10
  <2>2. CASE trunc
    BY <1>1, <1>8, <1>9, <1>10, <2>1, <2>2 DEF Store!Open
  <2>3. CASE ~ trunc
    <3>1. FileContent(n)' = FileContent(n) /\ FileContent(n) # NULL
      BY <1>4, <1>9, <1>10, <2>3, RamfsAssumption
    <3>2. \A m \in FileName : FileContent(m)' = FileContent(m)
      BY <1>10, <3>1
    <3>3. QED
      BY <1>1, <1>8, <2>1, <3>1, <3>2 DEF Store!Open
  <2>4. QED
    BY <2>2, <2>3
<1>12. LosesFew
  BY <1>7, <1>8, ChangeLoses
<1>13. QED
  BY <1>7, <1>11, <1>12 DEF Changed, FileMove, Store!Call

\* dfs_ramfs_write within the file.
LEMMA WriteInsideOK ==
  ASSUME FilesInv, NEW f \in Fd, NEW b \in Run, WriteInside(f, b)
  PROVE  FilesInv' /\ FileMove
<1> PICK e \in Entry : e = fd[f].data
  BY DEF WriteInside
<1> PICK p, c : p = fd[f].pos /\ c = Bytes(entry[e])
  OBVIOUS
<1>1. /\ fd \in [Fd -> FileDesc] /\ entry \in [Entry -> FileEntry] /\ listing \in [Fd -> FileList]
      /\ fd[f] \in FileDesc /\ fd[f].data = e /\ p \in Nat /\ fd[f].size \in Nat
      /\ fd[f].path \in FileName /\ b \in Seq(FileByte) /\ Len(b) \in Nat
      /\ OpenName(f) = fd[f].path /\ OpenName(f) # NULL /\ OpenAt(f) = p
      /\ f \in Lost <=> ~ KnowsFile(f)
  BY OpenDesc, LenProperties, RamfsAssumption DEF FilesInv, Files, Descs, Listings
<1>2. /\ Len(b) + p <= fd[f].size /\ InFile(f, Len(b))
      /\ entry' = IF b = <<>> THEN entry ELSE [entry EXCEPT ![e].data = Over(@, p, b)]
      /\ fd' = [fd EXCEPT ![f].pos = p + Len(b)] /\ buf' = <<>> /\ UNCHANGED <<list, listing>>
  BY <1>1 DEF WriteInside, Inside
<1> PICK q \in Nat : q = p + Len(b)
  BY <1>1
<1> PICK x : x = [fd[f] EXCEPT !.pos = q]
  OBVIOUS
<1>3. x \in FileDesc /\ x.data = e /\ x.size = fd[f].size /\ x.pos = q /\ x.path = fd[f].path
  BY ONLY <1>1, q \in Nat, x = [fd[f] EXCEPT !.pos = q] DEF FileDesc
<1>4. DescOK(x) /\ q <= fd[f].size /\ fd' = [fd EXCEPT ![f] = x]
  <2>1. q <= fd[f].size
    BY <1>1, <1>2
  <2>2. QED
    BY <1>1, <1>2, <1>3, <2>1 DEF DescOK
<1> PICK n \in FileName : n = fd[f].path
  BY <1>1
<1>5. CASE b = <<>>
  <2>1. /\ UNCHANGED <<list, entry>> /\ buf' \in Seq(FileByte) /\ e # "root"
        /\ listing' = [listing EXCEPT ![f] = listing[f]]
    BY <1>1, <1>2, <1>5, RamfsAssumption
  <2>2. Turned(f, x)
    <3>1. Turns(f, x, listing[f]) /\ x \in FileDesc /\ listing[f] \in FileList
      BY <1>1, <1>3, <1>4, <2>1 DEF Turns
    <3>2. QED
      BY ONLY <3>1, FilesInv, f \in Fd, OnlyDescs
  <2>3. OpenName(f) = n /\ OpenName(f)' = n /\ n # NULL /\ OpenAt(f)' = q /\ (f \in Lost' <=> f \in Lost)
    BY <1>1, <1>3, <2>2 DEF OpenName, OpenAt, Turned
  <2>4. CASE f \in Lost
    <3>1. Store!Call
      BY <2>2, <2>3, <2>4, LostCalls DEF Turned, SameDesc
    <3>2. QED
      BY <2>2, <3>1 DEF Turned, FileMove
  <2>5. CASE f \notin Lost
    <3>1. e \in ToSet(list) /\ fd[f].size = entry[e].size /\ n = entry[e].name
      BY <1>1, <2>5, KnownFile
    <3>2. FileContent(n) = c /\ c \in Seq(FileByte) /\ Len(c) = fd[f].size
      BY <3>1, ListedEntry
    <3>3. Over(c, p, b) = c
      <4>1. p \in 0..Len(c)
        BY <1>1, <1>2, <1>5, <3>2
      <4>2. QED
        BY <1>5, <3>2, <4>1, OverNothing
    <3>4. FileContent(n)' = SubSeq(FileContent(n), 1, OpenAt(f)) \o b
                            \o SubSeq(FileContent(n), OpenAt(f) + Len(b) + 1, Len(FileContent(n)))
      BY <1>1, <2>2, <3>2, <3>3 DEF Over, Turned
    <3>5. Store!Write(f, b)
      <4>1. Store!Knows(f) /\ f \notin Lost'
        BY <2>3, <2>5 DEF Store!Knows
      <4>2. /\ \A k : FileContent(k)' = FileContent(k)
            /\ \A g \in Fd \ {f} : OpenName(g)' = OpenName(g) /\ OpenAt(g)' = OpenAt(g)
        BY <2>2 DEF Turned, SameDesc
      <4>3. buf' = <<>> /\ OpenName(f) = n /\ OpenName(f)' = n /\ OpenAt(f)' = OpenAt(f) + Len(b)
        BY <1>1, <1>2, <2>3
      <4>4. QED
        BY ONLY <3>4, <4>1, <4>2, <4>3, f \in Fd, n \in FileName DEF Store!Write
    <3>6. QED
      BY <2>2, <3>5 DEF Turned, FileMove, Store!Call
  <2>6. QED
    BY <2>4, <2>5
<1>6. CASE b # <<>>
  <2>1. Len(b) # 0 /\ e \in ToSet(list) /\ p + Len(b) <= Len(c)
    BY <1>1, <1>2, <1>6, EmptySeq DEF InFile, Listed, Kept, Bytes
  <2>2. /\ entry[e] \in FileEntry /\ entry[e].name \in FileName
        /\ c \in Seq(FileByte) /\ Len(c) = entry[e].size /\ Len(c) \in Nat
        /\ entry[e].size = IF entry[e].data = NULL THEN 0 ELSE Len(entry[e].data)
    BY <2>1, ListedEntry, LenProperties
  <2> PICK d : d = Over(c, p, b)
    OBVIOUS
  <2>3. d \in Seq(FileByte) /\ Len(d) = Len(c) /\ d # NULL
    <3>1. p \in 0..Len(c)
      BY <1>1, <2>1, <2>2
    <3>2. d \in Seq(FileByte) /\ Len(d) = Len(c)
      BY <1>1, <2>1, <2>2, <3>1, OverOK
    <3>3. QED
      BY <3>2, RamfsAssumption
  <2>4. entry[e].data # NULL /\ c = entry[e].data
    BY <1>1, <2>1, <2>2 DEF Bytes
  <2> PICK w : w = [entry[e] EXCEPT !.data = d]
    OBVIOUS
  <2>5. entry' = [entry EXCEPT ![e] = w]
    BY <1>1, <1>2, <1>6, <2>4
  <2>6. /\ w \in FileEntry /\ w.name = entry[e].name /\ w.size = entry[e].size /\ w.data = d
        /\ w.size = IF w.data = NULL THEN 0 ELSE Len(w.data)
    <3>1. w \in FileEntry /\ w.name = entry[e].name /\ w.size = entry[e].size /\ w.data = d
      BY ONLY <2>2, <2>3, w = [entry[e] EXCEPT !.data = d] DEF FileEntry
    <3>2. QED
      BY <2>2, <2>3, <3>1
  <2>7. Changes(f, e, w, x)
    BY <1>2, <1>3, <1>4, <2>5, <2>6 DEF Changes
  <2>8. Changed(f, e, w, x)
    BY ONLY <2>1, <2>7, FilesInv, f \in Fd, EntryStep
  <2>9. /\ OpenName(f) = n /\ OpenName(f)' = n /\ n # NULL /\ OpenAt(f)' = OpenAt(f) + Len(b)
        /\ \A g \in Fd \ {f} : OpenName(g)' = OpenName(g) /\ OpenAt(g)' = OpenAt(g)
    BY <1>1, <1>3, <2>8 DEF Changed
  <2>10. f \in Lost' => f \in Lost
    <3>1. f \in Lost' => ~ (fd[f].path = entry[e].name /\ fd[f].size = entry[e].size)
      BY <1>3, <2>6, <2>8 DEF Changed
    <3>2. QED
      BY <1>1, <3>1, KnownFile
  <2>11. LosesFew
    BY <2>8, <2>10, ChangeLoses
  <2>12. CASE f \in Lost
    <3> PICK m \in FileName : m = entry[e].name
      BY <2>2
    <3>1. \A k \in FileName \ {m} : FileContent(k)' = FileContent(k)
      BY <2>8 DEF Changed
    <3>2. Store!Call
      BY <2>9, <2>12, <3>1, LostCalls
    <3>3. QED
      BY <2>8, <2>11, <3>2 DEF Changed, FileMove
  <2>13. CASE f \notin Lost
    <3>1. n = entry[e].name
      BY <1>1, <2>13, KnownFile
    <3>2. FileContent(n)' = d /\ FileContent(n) = c
          /\ \A k \in FileName \ {n} : FileContent(k)' = FileContent(k)
      BY <2>6, <2>8, <3>1, RamfsAssumption, <2>3 DEF Changed, Bytes
    <3>3. FileContent(n)' = SubSeq(FileContent(n), 1, OpenAt(f)) \o b
                            \o SubSeq(FileContent(n), OpenAt(f) + Len(b) + 1, Len(FileContent(n)))
      BY <1>1, <3>2 DEF Over
    <3>4. f \notin Lost'
      BY <2>10, <2>13
    <3>5. Store!Write(f, b)
      BY <1>2, <2>9, <2>13, <3>2, <3>3, <3>4 DEF Store!Write, Store!Knows
    <3>6. QED
      BY <2>8, <2>11, <3>5 DEF Changed, FileMove, Store!Call
  <2>14. QED
    BY <2>12, <2>13
<1>7. QED
  BY <1>5, <1>6

\* A write that reaches behind the end leaves what stood before it.
LEMMA OverBehind ==
  ASSUME NEW S, NEW c \in Seq(S), NEW p \in 0..Len(c), NEW b \in Seq(S), p + Len(b) > Len(c),
         NEW d \in Seq(S), Len(d) = p, \A i \in 1..p : d[i] = c[i]
  PROVE  Over(c, p, b) = d \o b
<1> PICK u, v : u = SubSeq(c, 1, p) /\ v = SubSeq(c, p + Len(b) + 1, Len(c))
  OBVIOUS
<1>1. Len(c) \in Nat /\ Len(b) \in Nat /\ \A i \in 1..Len(c) : c[i] \in S
  BY LenProperties, ElementOfSeq
<1>2. u \in Seq(S) /\ Len(u) = p /\ \A i \in 1..p : u[i] = c[i]
  <2>1. c \in Seq(S) /\ 0 \in Nat /\ p \in Nat /\ 0 <= p /\ p <= Len(c)
    BY <1>1
  <2>2. /\ SubSeq(c, 0 + 1, p) \in Seq(S) /\ Len(SubSeq(c, 0 + 1, p)) = p - 0
        /\ \A i \in 1..(p - 0) : SubSeq(c, 0 + 1, p)[i] = c[0 + i]
    BY ONLY <2>1, SliceOK
  <2>3. 0 + 1 = 1 /\ p - 0 = p /\ \A i \in 1..p : 0 + i = i
    OBVIOUS
  <2>4. QED
    BY <2>2, <2>3
<1>3. u = d
  BY <1>2, SeqEqual
<1>4. v = <<>>
  <2>1. ~ (p + Len(b) + 1 <= Len(c)) /\ p + Len(b) + 1 \in Int
    BY <1>1
  <2>2. \A i \in (p + Len(b) + 1)..Len(c) : c[i] \in S
    BY <1>1, <2>1
  <2>3. v \in Seq(S) /\ Len(v) = 0
    BY <1>1, <2>1, <2>2, SubSeqProperties
  <2>4. QED
    BY <2>3, EmptySeq
<1>5. d \o b \in Seq(S)
  BY ConcatProperties
<1>6. (d \o b) \o <<>> = d \o b
  BY <1>5, ConcatEmptySeq
<1>7. QED
  BY <1>3, <1>4, <1>6 DEF Over

\* dfs_ramfs_write that makes the file longer, as the descriptor knows it.
LEMMA WriteBehindOK ==
  ASSUME FilesInv, NEW f \in Fd, NEW b \in Run, WriteBehind(f, b)
  PROVE  FilesInv' /\ FileMove
<1> PICK e \in Entry : e = fd[f].data
  BY DEF WriteBehind
<1> PICK p, c : p = fd[f].pos /\ c = Bytes(entry[e])
  OBVIOUS
<1>1. /\ fd \in [Fd -> FileDesc] /\ fd[f] \in FileDesc /\ fd[f].data = e /\ p \in Nat
      /\ fd[f].size \in Nat /\ fd[f].path \in FileName /\ b \in Seq(FileByte) /\ Len(b) \in Nat
      /\ OpenName(f) = fd[f].path /\ OpenName(f) # NULL /\ OpenAt(f) = p
      /\ f \in Lost <=> ~ KnowsFile(f)
  BY OpenDesc, LenProperties, RamfsAssumption DEF FilesInv, Descs
<1>2. /\ e \in ToSet(list) /\ entry[e] \in FileEntry /\ entry[e].name \in FileName
      /\ c \in Seq(FileByte) /\ Len(c) = entry[e].size /\ Len(c) \in Nat
      /\ entry \in [Entry -> FileEntry]
  <2>1. e \in ToSet(list)
    BY DEF WriteBehind, Listed
  <2>2. QED
    BY <2>1, ListedEntry, LenProperties DEF FilesInv, Files
<1> PICK q \in Nat : q = p + Len(b)
  BY <1>1
<1> PICK d \in Moved(e, p) : entry' = [entry EXCEPT ![e] = [@ EXCEPT !.size = q, !.data = d \o b]]
  BY DEF WriteBehind
<1>3. /\ q > fd[f].size /\ fd' = [fd EXCEPT ![f] = [fd[f] EXCEPT !.size = q, !.pos = q]]
      /\ buf' = <<>> /\ UNCHANGED <<list, listing>>
  <2>1. /\ ~ (Len(b) + p <= fd[f].size) /\ buf' = <<>> /\ UNCHANGED <<list, listing>>
        /\ fd' = [fd EXCEPT ![f] = [fd[f] EXCEPT !.size = q, !.pos = q]]
    BY DEF WriteBehind, Inside, Grown
  <2>2. q > fd[f].size
    BY ONLY <1>1, <2>1, q = p + Len(b)
  <2>3. QED
    BY <2>1, <2>2
<1>4. d \in Seq(FileByte) /\ Len(d) = p /\ \A i \in 1..p : i <= Len(c) => d[i] = c[i]
  <2>1. d \in [1..p -> FileByte] /\ \A i \in 1..p : i <= Len(c) => d[i] = c[i]
    BY DEF Moved, Kept, Bytes
  <2>2. d \in Seq(FileByte)
    BY ONLY <1>1, <2>1
  <2>3. QED
    BY <1>1, <2>1, <2>2, LenProperties
<1> PICK D : D = d \o b
  OBVIOUS
<1>5. D \in Seq(FileByte) /\ Len(D) = q /\ D # NULL
  <2>1. D \in Seq(FileByte) /\ Len(D) = Len(d) + Len(b)
    BY <1>1, <1>4, ConcatProperties
  <2>2. QED
    BY <1>4, <2>1, RamfsAssumption
<1> PICK w, x : w = [entry[e] EXCEPT !.size = q, !.data = D]
                /\ x = [fd[f] EXCEPT !.size = q, !.pos = q]
  OBVIOUS
<1>6. /\ w \in FileEntry /\ w.name = entry[e].name /\ w.size = q /\ w.data = D
      /\ entry' = [entry EXCEPT ![e] = w] /\ Bytes(w) = D
  <2>1. w \in FileEntry /\ w.name = entry[e].name /\ w.size = q /\ w.data = D
    BY ONLY <1>2, <1>5, q \in Nat, w = [entry[e] EXCEPT !.size = q, !.data = D] DEF FileEntry
  <2>2. QED
    BY <1>2, <1>5, <2>1 DEF Bytes
<1>7. /\ x \in FileDesc /\ x.data = e /\ x.size = q /\ x.pos = q /\ x.path = fd[f].path
      /\ fd' = [fd EXCEPT ![f] = x]
  <2>1. x \in FileDesc /\ x.data = e /\ x.size = q /\ x.pos = q /\ x.path = fd[f].path
    BY ONLY <1>1, q \in Nat, x = [fd[f] EXCEPT !.size = q, !.pos = q] DEF FileDesc
  <2>2. QED
    BY <1>3, <2>1
<1>8. Changes(f, e, w, x)
  <2>1. w.size = IF w.data = NULL THEN 0 ELSE Len(w.data)
    BY ONLY <1>5, <1>6
  <2>2. DescOK(x)
    BY <1>1, <1>7 DEF DescOK
  <2>3. QED
    BY <1>3, <1>6, <1>7, <2>1, <2>2 DEF Changes
<1>9. Changed(f, e, w, x)
  BY ONLY <1>2, <1>8, FilesInv, f \in Fd, EntryStep
<1>10. /\ OpenName(f)' = OpenName(f) /\ OpenAt(f)' = OpenAt(f) + Len(b)
       /\ \A g \in Fd \ {f} : OpenName(g)' = OpenName(g) /\ OpenAt(g)' = OpenAt(g)
       /\ \A k \in FileName \ {entry[e].name} : FileContent(k)' = FileContent(k)
       /\ FileContent(entry[e].name) = c
  BY <1>1, <1>7, <1>9 DEF Changed
<1>11. f \in Lost' => f \in Lost
  <2>1. f \in Lost' => fd[f].path # entry[e].name
    BY <1>6, <1>7, <1>9 DEF Changed
  <2>2. QED
    BY <1>1, <2>1, KnownFile
<1>12. LosesFew
  BY <1>9, <1>11, ChangeLoses
<1>13. CASE f \in Lost
  <2> PICK m \in FileName : m = entry[e].name
    BY <1>2
  <2>1. Store!Call
    BY <1>10, <1>13, LostCalls
  <2>2. QED
    BY <1>9, <1>12, <2>1 DEF Changed, FileMove
<1>14. CASE f \notin Lost
  <2> PICK n \in FileName : n = fd[f].path
    BY <1>1
  <2>1. n = entry[e].name /\ Len(c) = fd[f].size
    BY <1>1, <1>2, <1>14, KnownFile
  <2>2. Over(c, p, b) = D
    <3>1. p <= Len(c) /\ p + Len(b) > Len(c) /\ p \in 0..Len(c)
      <4>1. p <= fd[f].size
        BY OpenDesc
      <4>2. QED
        BY <1>1, <1>2, <1>3, <2>1, <4>1
    <3>2. \A i \in 1..p : d[i] = c[i]
      <4>1. p \in Nat /\ Len(c) \in Nat /\ p <= Len(c)
        BY <1>1, <1>2, <3>1
      <4>2. \A i \in 1..p : i <= Len(c)
        BY ONLY <4>1
      <4>3. QED
        BY ONLY <1>4, <4>2
    <3>3. c \in Seq(FileByte) /\ b \in Seq(FileByte) /\ d \in Seq(FileByte) /\ Len(d) = p
      BY <1>1, <1>2, <1>4
    <3>4. Over(c, p, b) = d \o b
      BY ONLY <3>1, <3>2, <3>3, OverBehind
    <3>5. QED
      BY <3>4
  <2>3. FileContent(n)' = SubSeq(FileContent(n), 1, OpenAt(f)) \o b
                          \o SubSeq(FileContent(n), OpenAt(f) + Len(b) + 1, Len(FileContent(n)))
    BY <1>1, <1>6, <1>9, <1>10, <2>1, <2>2 DEF Changed, Over
  <2>4. f \notin Lost' /\ OpenName(f) = n /\ n # NULL
        /\ \A k \in FileName \ {n} : FileContent(k)' = FileContent(k)
    BY <1>1, <1>10, <1>11, <1>14, <2>1
  <2>5. Store!Write(f, b)
    BY <1>3, <1>10, <1>14, <2>3, <2>4 DEF Store!Write, Store!Knows
  <2>6. QED
    BY <1>9, <1>12, <2>5 DEF Changed, FileMove, Store!Call
<1>15. QED
  BY <1>13, <1>14

\* dfs_ramfs_open that creates the file.
LEMMA CreateOK ==
  ASSUME FilesInv, NEW f \in Fd, NEW n \in FileName, Create(f, n)
  PROVE  FilesInv' /\ FileMove
<1> PICK e \in Entry \ Listed :
       /\ entry' = [entry EXCEPT ![e] = [NoEntry EXCEPT !.name = n]]
       /\ list' = <<e>> \o list
       /\ Opened(f, n, e, 0, FALSE)
  BY DEF Create
<1> PICK dn, m, w, x : /\ dn = entry' /\ m = list' /\ w = [NoEntry EXCEPT !.name = n]
                       /\ x = [path |-> n, data |-> e, size |-> 0, pos |-> 0]
  OBVIOUS
<1>1. fd[f] = Closed /\ LookupEntry(n) = NULL /\ buf' = <<>> /\ UNCHANGED listing
  BY DEF Create
<1>2. Files(list, entry) /\ Descs(fd) /\ Listings(listing, fd, list, entry)
      /\ fd \in [Fd -> FileDesc] /\ list \in Seq(Entry) /\ entry \in [Entry -> FileEntry]
      /\ Len(list) \in Nat /\ listing \in [Fd -> FileList] /\ listing[f] \in FileList
  BY LenProperties DEF FilesInv, Descs, Files, Listings
<1>3. \A d \in ToSet(list) : entry[d].name # n
  BY <1>1, LookupFinds DEF Listed
<1>4. Prepended(list, entry, e, w) /\ dn = [entry EXCEPT ![e] = w] /\ m = <<e>> \o list
      /\ e \in Entry /\ e \notin ToSet(list)
  <2>1. Files(list, entry) /\ e \in Entry \ ToSet(list)
    BY <1>2 DEF Listed
  <2>2. Prepended(list, entry, e, [NoEntry EXCEPT !.name = n])
    BY ONLY <1>3, <2>1, n \in FileName, EntryPrepended
  <2>3. QED
    BY <2>1, <2>2
<1>5. w.name = n /\ w.size = 0 /\ x \in FileDesc /\ x.data = e /\ x.size = 0 /\ x.pos = 0
      /\ x.path = n /\ e # "root" /\ DescOK(x)
  BY <1>4, RamfsAssumption DEF NoEntry, FileDesc, DescOK
<1>6. dn[e] = w /\ \A d \in Entry \ {e} : dn[d] = entry[d]
  BY <1>2, <1>4
<1>7. /\ Files(m, dn) /\ ToSet(m) = ToSet(list) \cup {e} /\ m \in Seq(Entry)
      /\ \A k \in FileName \ {n} : ContentIn(m, dn, k) = ContentIn(list, entry, k)
      /\ ContentIn(m, dn, n) = <<>>
  <2>1. Prepended(list, entry, e, w) /\ w.name = n /\ dn = [entry EXCEPT ![e] = w]
        /\ m = <<e>> \o list
    BY <1>4, <1>5
  <2>2. /\ Files(m, dn) /\ ToSet(m) = ToSet(list) \cup {e}
        /\ \A k \in FileName \ {w.name} : ContentIn(m, dn, k) = ContentIn(list, entry, k)
        /\ ContentIn(m, dn, w.name) = <<>>
    BY ONLY <2>1 DEF Prepended
  <2>3. QED
    BY ONLY <2>1, <2>2 DEF Files
<1>8. Descs([fd EXCEPT ![f] = x])
  BY <1>2, <1>5 DEF Descs
<1>9. Listings([listing EXCEPT ![f] = listing[f]], [fd EXCEPT ![f] = x], m, dn)
  <2>1. Listings(listing, fd, <<e>> \o list, [entry EXCEPT ![e] = w])
    BY ONLY <1>2, <1>4, ListingShift
  <2>2. Listings(listing, fd, m, dn) /\ x \in FileDesc /\ x.data # "root"
    BY <1>4, <1>5, <2>1
  <2>3. \A d \in Entry : dn[d].name = dn[d].name
    OBVIOUS
  <2>4. QED
    BY ONLY <1>2, <1>7, <2>2, <2>3, f \in Fd, ListingStep
<1>10. fd' = [fd EXCEPT ![f] = x] /\ listing' = [listing EXCEPT ![f] = listing[f]]
       /\ fd'[f] = x /\ \A g \in Fd \ {f} : fd'[g] = fd[g]
  BY <1>1, <1>2 DEF Opened
<1>11. FilesInv'
  <2>1. /\ Files(list', entry') /\ Descs(fd') /\ Listings(listing', fd', list', entry')
        /\ buf' \in Seq(FileByte)
    <3>1. list' = m /\ entry' = dn /\ buf' \in Seq(FileByte)
      BY <1>1
    <3>2. QED
      BY <1>7, <1>8, <1>9, <1>10, <3>1
  <2>2. QED
    BY ONLY <2>1 DEF FilesInv, Files, Descs, DescOK, Listings
<1>12. \A k \in FileName : IF k = n THEN FileContent(k)' = <<>>
                           ELSE FileContent(k)' = FileContent(k)
  BY <1>7, <1>11, ViewsOK DEF Views
<1>13. /\ \A g \in Fd \ {f} : OpenName(g)' = OpenName(g) /\ OpenAt(g)' = OpenAt(g)
       /\ OpenName(f) = NULL /\ OpenName(f)' = n /\ OpenAt(f)' = 0
  BY <1>1, <1>5, <1>10 DEF OpenName, OpenAt, Closed
<1>14. f \notin Lost'
  <2>1. x.data \in ToSet(m) /\ dn[x.data].name = x.path /\ dn[x.data].size = x.size
    BY <1>5, <1>6, <1>7
  <2>2. KnowsFile(f)'
    BY <1>10, <2>1 DEF KnowsFile, Listed
  <2>3. QED
    BY <2>2 DEF Lost
<1>15. ASSUME NEW g \in Fd \ {f}, g \in Lost' PROVE g \in Lost
  <2> SUFFICES ASSUME g \notin Lost PROVE FALSE
    OBVIOUS
  <2> PICK d \in Entry : d = fd[g].data
    BY <1>10, <1>15 DEF Lost
  <2>1. d \in ToSet(list) /\ entry[d].name = fd[g].path /\ entry[d].size = fd[g].size
    BY DEF Lost, KnowsFile, Listed
  <2>2. d # e
    BY <1>4, <2>1
  <2>3. ~ (d \in ToSet(m) /\ dn[d].name = fd[g].path /\ dn[d].size = fd[g].size)
    BY <1>10, <1>15 DEF Lost, KnowsFile, Listed
  <2>4. QED
    BY <1>6, <1>7, <2>1, <2>2, <2>3
<1>16. LosesFew
  BY <1>14, <1>15 DEF LosesFew
<1>17. Store!Open(f, n)
  <2>1. FileContent(n)' = <<>> /\ \A k \in FileName \ {n} : FileContent(k)' = FileContent(k)
    BY <1>12
  <2>2. QED
    BY <1>1, <1>13, <1>14, <2>1 DEF Store!Open
<1>18. QED
  BY <1>11, <1>16, <1>17 DEF FileMove, Store!Call

\* What stands behind an entry that leaves the list moves up by one place.
LEMMA WithoutPlaces ==
  ASSUME NEW S, NEW s \in Seq(S), Once(s), NEW k \in 1..Len(s), NEW x, s[k] = x
  PROVE  /\ Len(Without(s, x)) = Len(s) - 1
         /\ \A i \in 1..(Len(s) - 1) : Without(s, x)[i] = IF i < k THEN s[i] ELSE s[i + 1]
<1> PICK j : j = CHOOSE i \in DOMAIN s : s[i] = x
  OBVIOUS
<1>1. DOMAIN s = 1..Len(s)
  BY LenProperties
<1>2. j \in 1..Len(s) /\ s[j] = x
  BY <1>1
<1>3. j = k
  BY <1>1, <1>2 DEF Once
<1>4. Without(s, x) = RemoveAt(s, k)
  BY <1>1, <1>3 DEF Without
<1>5. QED
  BY ONLY <1>4, s \in Seq(S), k \in 1..Len(s), RemoveAtOK

\* What a listing has still to give is not passed over, unless it is the name that
\* moves up to the place the handle has reached.
LEMMA StillListed ==
  ASSUME FilesInv, NEW f \in Fd, fd[f].data = "root", NEW e \in ToSet(list), NEW n,
         n \in listing[f].stayed, n \notin Skipped(f, e), n # entry[e].name, NEW m,
         m = Without(list, e)
  PROVE  \/ n \in ToSet(listing[f].listed)
         \/ \E i \in (fd[f].pos + 1)..Len(m) : m[i] # e /\ m[i] \in Entry /\ entry[m[i]].name = n
<1> PICK p : p = fd[f].pos
  OBVIOUS
<1>1. /\ list \in Seq(Entry) /\ Once(list) /\ Len(list) \in Nat /\ DOMAIN list = 1..Len(list)
      /\ p \in Nat /\ \A i \in 1..Len(list) : list[i] \in Entry
      /\ Listings(listing, fd, list, entry)
  BY LenProperties, ElementOfSeq DEF FilesInv, Files, Descs, FileDesc
<1> PICK k \in 1..Len(list) : list[k] = e
  BY <1>1 DEF ToSet
<1>2. /\ Len(m) = Len(list) - 1
      /\ \A i \in 1..(Len(list) - 1) : m[i] = IF i < k THEN list[i] ELSE list[i + 1]
  <2>1. list \in Seq(Entry) /\ Once(list) /\ k \in 1..Len(list) /\ list[k] = e
    BY <1>1
  <2>2. QED
    BY ONLY <2>1, m = Without(list, e), WithoutPlaces
<1> SUFFICES ASSUME n \notin ToSet(listing[f].listed)
             PROVE  \E i \in (p + 1)..Len(m) : m[i] # e /\ m[i] \in Entry /\ entry[m[i]].name = n
  OBVIOUS
<1> PICK i \in (p + 1)..Len(list) : entry[list[i]].name = n
  BY <1>1 DEF Listings
<1>3. i \in 1..Len(list) /\ i # k /\ list[i] # e /\ list[i] \in Entry
  BY <1>1
<1> PICK j : j = IF i < k THEN i ELSE i - 1
  OBVIOUS
<1>4. k <= p => i # p + 1
  <2> SUFFICES ASSUME k <= p, i = p + 1 PROVE FALSE
    OBVIOUS
  <2>1. p < Len(list) /\ k \in 1..p
    BY <1>1, <1>3
  <2>2. Skipped(f, e) = {entry[list[p + 1]].name}
    BY <2>1 DEF Skipped, From
  <2>3. QED
    BY <2>2
<1>5. j \in 1..(Len(list) - 1) /\ j \in (p + 1)..Len(m) /\ (j < k => j = i) /\ (~ (j < k) => j + 1 = i)
  <2> PICK z \in Nat : z = Len(list)
    BY <1>1
  <2>1. p \in Nat /\ i \in Int /\ k \in Int /\ p + 1 <= i /\ i <= z /\ 1 <= k /\ k <= z /\ i # k
    BY <1>1, <1>3
  <2>2. j \in Int /\ 1 <= j /\ j <= z - 1 /\ p + 1 <= j /\ (j < k => j = i) /\ (~ (j < k) => j + 1 = i)
    BY ONLY <2>1, <1>4, z \in Nat, j = IF i < k THEN i ELSE i - 1
  <2>3. QED
    BY <1>1, <1>2, <2>2
<1>6. m[j] = list[i]
  BY <1>2, <1>5
<1>7. QED
  BY <1>3, <1>5, <1>6

\* dfs_ramfs_unlink.
LEMMA UnlinkOK ==
  ASSUME FilesInv, NEW n \in FileName, Unlink(n)
  PROVE  FilesInv' /\ FileMove
<1> PICK e : e = LookupEntry(n)
  OBVIOUS
<1> PICK dn, m, ls : dn = entry' /\ m = list' /\ ls = listing'
  OBVIOUS
<1>1. /\ e # NULL
      /\ m = Without(list, e) /\ dn = [entry EXCEPT ![e] = NoEntry]
      /\ ls = [f \in Fd |-> [listing[f] EXCEPT !.stayed = (@ \ {n}) \ Skipped(f, e)]]
      /\ buf' = <<>> /\ UNCHANGED fd
  BY DEF Unlink
<1>2. e \in ToSet(list) /\ entry[e].name = n /\ Files(list, entry) /\ e \in Entry
      /\ Descs(fd) /\ Listings(listing, fd, list, entry)
      /\ entry \in [Entry -> FileEntry]
  BY <1>1, LookupFinds, ContentOf DEF Listed, FilesInv, Files
<1>3. Unlinked(list, entry, e)
  BY <1>2, EntryUnlinked
<1>4. /\ Files(m, dn) /\ ToSet(m) = ToSet(list) \ {e}
      /\ \A k \in FileName \ {n} : ContentIn(m, dn, k) = ContentIn(list, entry, k)
      /\ ContentIn(m, dn, n) = NULL
  BY <1>1, <1>2, <1>3 DEF Unlinked
<1>5. \A d \in Entry \ {e} : dn[d] = entry[d]
  BY <1>1, <1>2
<1>6. ls \in [Fd -> FileList]
      /\ \A f \in Fd : /\ ls[f].stayed = (listing[f].stayed \ {n}) \ Skipped(f, e)
                       /\ ls[f].listed = listing[f].listed
  <2>1. listing \in [Fd -> FileList]
    BY <1>2 DEF Listings
  <2>2. ASSUME NEW f \in Fd
        PROVE  /\ ls[f] \in FileList /\ ls[f].listed = listing[f].listed
               /\ ls[f].stayed = (listing[f].stayed \ {n}) \ Skipped(f, e)
    <3>1. ls[f] = [listing[f] EXCEPT !.stayed = (listing[f].stayed \ {n}) \ Skipped(f, e)]
      BY <1>1
    <3>2. listing[f] \in FileList
      BY <2>1
    <3>3. QED
      BY ONLY <3>1, <3>2 DEF FileList
  <2>3. QED
    BY <1>1, <2>2
<1>7. Listings(ls, fd, m, dn)
  <2> SUFFICES ASSUME NEW f \in Fd, fd[f].data = "root", NEW k \in ls[f].stayed
               PROVE  \/ k \in ToSet(ls[f].listed)
                      \/ \E i \in (fd[f].pos + 1)..Len(m) : dn[m[i]].name = k
    BY <1>6 DEF Listings
  <2>1. k \in listing[f].stayed /\ k \notin Skipped(f, e) /\ k # entry[e].name
    BY <1>2, <1>6
  <2>2. \/ k \in ToSet(listing[f].listed)
        \/ \E i \in (fd[f].pos + 1)..Len(m) : m[i] # e /\ m[i] \in Entry /\ entry[m[i]].name = k
    BY ONLY <1>1, <1>2, <2>1, FilesInv, f \in Fd, fd[f].data = "root", StillListed
  <2>3. QED
    BY <1>5, <1>6, <2>2
<1>8. FilesInv'
  <2>1. list' = m /\ entry' = dn /\ listing' = ls /\ fd' = fd /\ buf' \in Seq(FileByte)
    BY <1>1
  <2>2. QED
    BY <1>2, <1>4, <1>7, <2>1 DEF FilesInv
<1>9. \A k \in FileName : IF k = n THEN FileContent(k)' = NULL
                          ELSE FileContent(k)' = FileContent(k)
  BY <1>4, <1>8, ViewsOK DEF Views
<1>10. \A g \in Fd : OpenName(g)' = OpenName(g) /\ OpenAt(g)' = OpenAt(g)
  BY <1>1 DEF OpenName, OpenAt
<1>11. LosesFew
  <2> SUFFICES ASSUME NEW g \in Fd, g \in Lost', g \notin Lost
               PROVE  /\ n = OpenName(g) /\ n # NULL
                      /\ Store!Length(FileContent(n)) # Store!Length(FileContent(n)')
    BY DEF LosesFew
  <2> PICK d \in Entry : d = fd[g].data
    BY <1>1 DEF Lost
  <2>1. d \in ToSet(list) /\ entry[d].name = fd[g].path /\ entry[d].size = fd[g].size
    BY DEF Lost, KnowsFile, Listed
  <2>2. ~ (d \in ToSet(m) /\ dn[d].name = fd[g].path /\ dn[d].size = fd[g].size)
    BY <1>1 DEF Lost, KnowsFile, Listed
  <2>3. d = e
    BY <1>4, <1>5, <2>1, <2>2
  <2>4. n = OpenName(g) /\ n # NULL
    BY <1>2, <2>1, <2>3, RamfsAssumption DEF OpenName
  <2> PICK c : c = FileContent(n)
    OBVIOUS
  <2>5. c \in Seq(FileByte) /\ c # NULL
    BY <1>2, ListedEntry
  <2>6. Store!Length(c) # Store!Length(NULL)
    <3>1. Len(c) \in Nat
      BY <2>5, LenProperties
    <3>2. Store!Length(c) = Len(c) /\ Store!Length(NULL) = -1
      BY <2>5 DEF Store!Length
    <3>3. QED
      BY <3>1, <3>2
  <2>7. FileContent(n)' = NULL
    BY <1>9
  <2>8. Store!Length(FileContent(n)) # Store!Length(FileContent(n)')
    BY <2>6, <2>7
  <2>9. QED
    BY <2>4, <2>8
<1>12. Store!Unlink(n)
  BY <1>1, <1>9, <1>10 DEF Store!Unlink
<1>13. QED
  BY <1>8, <1>11, <1>12 DEF FileMove, Store!Call

-----------------------------------------------------------------------------

\* There are no files, and none is open.
NoFiles ==
  /\ list = <<>> /\ entry = NoEntries /\ fd = AllClosed
  /\ buf = <<>> /\ listing = NoListing

LEMMA EmptyFiles ==
  NoFiles => FilesInv /\ \A f \in Fd : OpenName(f) = NULL /\ OpenAt(f) = 0 /\ f \notin Lost
<1> SUFFICES ASSUME NoFiles
             PROVE  /\ FilesInv
                    /\ \A f \in Fd : OpenName(f) = NULL /\ OpenAt(f) = 0 /\ f \notin Lost
  OBVIOUS
<1>1. /\ list = <<>> /\ entry = [e \in Entry |-> NoEntry] /\ fd = [f \in Fd |-> Closed]
      /\ buf = <<>> /\ listing = [f \in Fd |-> [stayed |-> {}, listed |-> <<>>]]
  BY DEF NoFiles, NoEntries, AllClosed, NoListing
<1>2. NoEntry \in FileEntry /\ Closed \in FileDesc /\ Closed.data = NULL /\ Closed.path = NULL
      /\ [stayed |-> {}, listed |-> <<>>] \in FileList
  BY DEF NoEntry, FileEntry, Closed, FileDesc, FileList
<1>3. list \in Seq(Entry) /\ DOMAIN list = {} /\ ToSet(list) = {} /\ buf \in Seq(FileByte)
  BY <1>1 DEF ToSet
<1>4. Files(list, entry)
  <2>1. Once(list) /\ entry \in [Entry -> FileEntry]
    BY <1>1, <1>2, <1>3 DEF Once
  <2>2. list \in Seq(Entry) /\ ToSet(list) = {}
    BY <1>3
  <2>3. \A e, d \in ToSet(list) : FALSE
    BY ONLY <2>2
  <2>4. QED
    BY ONLY <2>1, <2>2, <2>3, Zenon DEF Files
<1>5. \A f \in Fd : fd[f].data \notin Entry /\ fd[f].path = NULL /\ listing[f].stayed = {}
  BY <1>1, <1>2, RamfsAssumption
<1>6. FilesInv
  <2>1. Descs(fd)
    BY <1>1, <1>2, <1>5 DEF Descs, DescOK
  <2>2. Listings(listing, fd, list, entry)
    BY <1>1, <1>2, <1>5 DEF Listings
  <2>3. QED
    BY <1>3, <1>4, <2>1, <2>2 DEF FilesInv
<1>7. \A f \in Fd : OpenName(f) = NULL /\ OpenAt(f) = 0 /\ f \notin Lost
  BY <1>5 DEF OpenName, OpenAt, Lost
<1>8. QED
  BY <1>6, <1>7

\* The empty file system is an empty store.
LEMMA FilesBegin == RamfsInit => FilesInv /\ Store!Init
<1> SUFFICES ASSUME RamfsInit PROVE FilesInv /\ Store!Init
  OBVIOUS
<1>1. NoFiles /\ list = <<>> /\ buf = <<>> /\ wild = FALSE
  BY DEF RamfsInit, NoFiles
<1>2. FilesInv /\ \A f \in Fd : OpenName(f) = NULL /\ OpenAt(f) = 0 /\ f \notin Lost
  BY <1>1, EmptyFiles
<1>3. \A n : FileContent(n) = NULL
  <2>1. \A e \in ToSet(list) : FALSE
    BY <1>1 DEF ToSet
  <2>2. QED
    BY <1>2, <2>1, ContentsAre, ContentNone
<1>4. Lost = {}
  BY <1>2 DEF Lost
<1>5. QED
  BY <1>1, <1>2, <1>3, <1>4 DEF Store!Init

\* Only a call through a lost descriptor goes astray.
LEMMA AstrayIsLost ==
  ASSUME FilesInv, NEW f \in Fd, Astray(f)
  PROVE  f \in Lost
<1> PICK e \in Entry : e = fd[f].data
  BY DEF Astray
<1> SUFFICES ASSUME KnowsFile(f) PROVE FALSE
  BY DEF Lost
<1>1. /\ e \in ToSet(list) /\ fd[f].size = entry[e].size
      /\ fd[f].pos \in Nat /\ fd[f].size \in Nat /\ fd[f].pos <= fd[f].size
  BY KnownFile, OpenDesc
<1>2. Len(Kept(e)) = fd[f].size
  BY <1>1, ListedEntry DEF Kept, Bytes
<1>3. ASSUME NEW n \in Nat, n + fd[f].pos <= fd[f].size PROVE InFile(f, n)
  <2>1. fd[f].pos + n <= Len(Kept(e))
    BY <1>1, <1>2, <1>3
  <2>2. QED
    BY <1>1, <2>1 DEF InFile, Listed
<1>4. ASSUME NEW k \in Count PROVE InFile(f, ToRead(f, k))
  <2>1. k \in Nat
    BY RamfsAssumption
  <2>2. ToRead(f, k) \in Nat /\ ToRead(f, k) + fd[f].pos <= fd[f].size
    BY ONLY <1>1, <2>1 DEF ToRead
  <2>3. QED
    BY <1>3, <2>2
<1>5. ASSUME NEW b \in Run, Inside(f, b) PROVE InFile(f, Len(b))
  <2>1. Len(b) \in Nat
    BY RamfsAssumption, LenProperties
  <2>2. QED
    BY <1>3, <1>5, <2>1 DEF Inside
<1>6. QED
  BY <1>1, <1>4, <1>5 DEF Astray, Listed

\* What such a call leaves is promised nothing any more.
LEMMA AstrayOK ==
  ASSUME FilesInv, NEW f \in Fd, Astray(f)
  PROVE  FilesInv' /\ StoreMove
<1>1. NoFiles'
  BY DEF Astray, NoFiles
<1>2. FilesInv'
  BY <1>1, EmptyFiles, PTL
<1>3. Lost # {} /\ wild'
  BY AstrayIsLost DEF Astray
<1>4. QED
  BY <1>2, <1>3 DEF StoreMove, Store!Next

\* Every call keeps the invariant, and is a step of the store or changes nothing of it.
LEMMA FilesKeep == FilesInv /\ [RamfsNext]_ramfsVars => FilesInv' /\ StoreMove
<1> SUFFICES ASSUME FilesInv, [RamfsNext]_ramfsVars PROVE FilesInv' /\ StoreMove
  OBVIOUS
<1>1. CASE UNCHANGED ramfsVars
  <2>1. UNCHANGED <<list, entry, fd, buf, listing, wild>>
    BY <1>1 DEF ramfsVars
  <2>2. FilesInv'
    BY <2>1 DEF FilesInv
  <2>3. \A n : FileContent(n)' = FileContent(n)
    BY <2>1, <2>2, ViewsOK DEF Views
  <2>4. \A f \in Fd : OpenName(f)' = OpenName(f) /\ OpenAt(f)' = OpenAt(f)
    BY <2>1 DEF OpenName, OpenAt
  <2>5. Lost' = Lost
    BY <2>1 DEF Lost, KnowsFile, Listed
  <2>6. QED
    BY <2>1, <2>2, <2>3, <2>4, <2>5 DEF StoreMove, Store!fsVars
<1>2. CASE ~ wild /\ RamfsCall /\ UNCHANGED wild
  <2>1. FilesInv' /\ FileMove
    BY <1>2, CreateOK, OpenFileOK, OpenRootOK, CloseOK, FileReadOK, GetDentsOK, WriteInsideOK,
       WriteBehindOK, SeekOK, UnlinkOK DEF RamfsCall
  <2>2. QED
    BY <1>2, <2>1, MovesStore
<1>3. CASE \E f \in Fd : Astray(f)
  BY <1>3, AstrayOK
<1>4. QED
  BY <1>1, <1>2, <1>3 DEF RamfsNext

\* What the invariant says of the entries and of the listings.
LEMMA FilesAreOK == FilesInv => EntriesOK /\ NoneMissed
<1> SUFFICES ASSUME FilesInv PROVE EntriesOK /\ NoneMissed
  OBVIOUS
<1>1. EntriesOK
  BY DEF FilesInv, Files, Descs, DescOK, EntriesOK, Listed
<1>2. NoneMissed
  <2> SUFFICES ASSUME NEW f \in Fd, fd[f].data = "root", From(f) >= Len(list)
               PROVE  listing[f].stayed \subseteq ToSet(listing[f].listed)
    BY DEF NoneMissed
  <2>1. fd[f].pos \in Nat /\ Len(list) \in Nat /\ fd[f].pos >= Len(list)
    BY LenProperties DEF FilesInv, Files, Descs, FileDesc, From
  <2>2. (fd[f].pos + 1)..Len(list) = {}
    BY <2>1
  <2>3. QED
    BY <2>2 DEF FilesInv, Listings
<1>3. QED
  BY <1>1, <1>2

\* IsFileStore, for any files, descriptors and bytes, with descriptors opened twice on
\* a file that others cut, move or remove: the calls of dfs_ramfs implement FileStore,
\* where a file is a name and its bytes and a descriptor a name and a place, the entries
\* stay sound and a listing misses no name but the one an unlink makes it skip.
THEOREM RamfsImplements == RamfsSpec => IsFileStore
<1>1. RamfsInit => FilesInv /\ Store!Init
  BY FilesBegin
<1>2. FilesInv /\ [RamfsNext]_ramfsVars => FilesInv'
  BY FilesKeep
<1>3. FilesInv /\ [RamfsNext]_ramfsVars => [Store!Next]_(Store!fsVars)
  BY FilesKeep DEF StoreMove
<1>4. RamfsSpec => [](EntriesOK /\ NoneMissed)
  BY <1>1, <1>2, FilesAreOK, PTL DEF RamfsSpec
<1>5. RamfsSpec => Store!Spec
  BY <1>1, <1>2, <1>3, PTL DEF RamfsSpec, Store!Spec
<1>6. QED
  BY <1>4, <1>5 DEF IsFileStore
-----------------------------------------------------------------------------
(* The line the shell is given. *)

\* The least of a set of places, or the one behind them all.
LEMMA FirstOrBehind ==
  ASSUME NEW n \in Nat, NEW i \in 1..n + 1, NEW S \in SUBSET (i..n),
         NEW m \in i..n + 1, m = n + 1 \/ m \in S, \A k \in S : m <= k
  PROVE  Least(S \cup {n + 1}) = m
  <1> DEFINE T == S \cup {n + 1}
  <1>1. T \in SUBSET Nat /\ T # {} /\ m \in T /\ \A k \in T : m <= k /\ k \in Nat
    OBVIOUS
  <1> HIDE DEF T
  <1>2. Least(T) \in T /\ \A q \in T : Least(T) <= q
    BY <1>1, LeastOK
  <1>3. Least(T) <= m /\ m <= Least(T) /\ Least(T) \in Nat /\ m \in Nat
    BY <1>1, <1>2
  <1> QED BY <1>3 DEF T

\* Where a word ends, and a string.
LEMMA WordEndIs ==
  ASSUME NEW s, Len(s) \in Nat, NEW i \in 1..Len(s) + 1, NEW m \in i..Len(s) + 1,
         m = Len(s) + 1 \/ s[m] = "blank", \A k \in i..m - 1 : s[k] # "blank"
  PROVE  WordEnd(s, i) = m
  <1> DEFINE n == Len(s)
             S == {k \in i..n : s[k] = "blank"}
  <1>1. /\ S \in SUBSET (i..n) /\ (m = n + 1 \/ m \in S)
        /\ \A k \in S : m <= k
    OBVIOUS
  <1>2. WordEnd(s, i) = Least(S \cup {n + 1})
    BY DEF WordEnd
  <1> HIDE DEF S
  <1> QED BY <1>1, <1>2, FirstOrBehind

LEMMA StringEndIs ==
  ASSUME NEW s, Len(s) \in Nat, NEW i \in 1..Len(s) + 1, NEW m \in i..Len(s) + 1,
         m = Len(s) + 1 \/ Closes(s, m), \A k \in i..m - 1 : ~Closes(s, k)
  PROVE  StringEnd(s, i) = m
  <1> DEFINE n == Len(s)
             S == {k \in i..n : Closes(s, k)}
  <1>1. /\ S \in SUBSET (i..n) /\ (m = n + 1 \/ m \in S)
        /\ \A k \in S : m <= k
    OBVIOUS
  <1>2. StringEnd(s, i) = Least(S \cup {n + 1})
    BY DEF StringEnd
  <1> HIDE DEF S
  <1> QED BY <1>1, <1>2, FirstOrBehind

\* They end behind where they begin.
LEMMA EndsBehind ==
  ASSUME NEW s, Len(s) \in Nat, NEW i \in 1..Len(s) + 1
  PROVE  /\ WordEnd(s, i) \in i..Len(s) + 1
         /\ i <= Len(s) /\ s[i] # "blank" => WordEnd(s, i) # i
         /\ StringEnd(s, i) \in i..Len(s) + 1
  <1> DEFINE n == Len(s)
             S == {k \in i..n : s[k] = "blank"} \cup {n + 1}
             R == {k \in i..n : Closes(s, k)} \cup {n + 1}
  <1>1. S \in SUBSET Nat /\ S # {} /\ R \in SUBSET Nat /\ R # {}
    OBVIOUS
  <1>2. Least(S) \in S /\ Least(R) \in R
    BY <1>1, LeastOK
  <1>3. WordEnd(s, i) = Least(S) /\ StringEnd(s, i) = Least(R)
    BY DEF WordEnd, StringEnd
  <1>4. WordEnd(s, i) \in S /\ StringEnd(s, i) \in R
    <2> HIDE DEF S, R
    <2> QED BY <1>2, <1>3
  <1> QED BY <1>4

\* f and g agree behind place i.
Agree(C, s, i, f, g) ==
  \A j \in i + 1..Len(s) + 2 : f[j] = g[j] /\ f[j] \in Seq(Seq(C))

\* The arguments from a place on depend on those further on only.
LEMMA ArgsFromLater ==
  ASSUME NEW C, NEW s \in Seq(C), NEW i \in 1..Len(s) + 2, NEW f, NEW g,
         Agree(C, s, i, f, g)
  PROVE  ArgsFrom(s, i, f) = ArgsFrom(s, i, g) /\ ArgsFrom(s, i, f) \in Seq(Seq(C))
  <1> DEFINE n == Len(s)
  <1>1. n \in Nat
    BY LenProperties
  <1>2. CASE i > n
    <2>1. <<>> \in Seq(Seq(C))
      OBVIOUS
    <2> QED BY <1>2, <2>1 DEF ArgsFrom
  <1>3. CASE i <= n /\ s[i] = "blank"
    <2>1. i + 1 \in i + 1..n + 2
      BY <1>1, <1>3
    <2> QED BY <1>1, <1>3, <2>1 DEF ArgsFrom, Agree
  <1>4. ASSUME NEW b \in 1..n + 1, NEW e \in b..n + 1, NEW r \in i + 1..n + 2
        PROVE  /\ <<SubSeq(s, b, e - 1)>> \o f[r] = <<SubSeq(s, b, e - 1)>> \o g[r]
               /\ <<SubSeq(s, b, e - 1)>> \o f[r] \in Seq(Seq(C))
    <2>1. SubSeq(s, b, e - 1) \in Seq(C)
      BY <1>1, SubSeqProperties
    <2>2. <<SubSeq(s, b, e - 1)>> \in Seq(Seq(C))
      BY <2>1
    <2>3. f[r] = g[r] /\ f[r] \in Seq(Seq(C))
      BY DEF Agree
    <2>4. <<SubSeq(s, b, e - 1)>> \o f[r] \in Seq(Seq(C))
      BY <2>2, <2>3, ConcatProperties
    <2> QED BY <2>3, <2>4
  <1>5. CASE i <= n /\ s[i] = "quote"
    <2> DEFINE e == StringEnd(s, i + 1)
    <2>0. i + 1 \in 1..n + 1
      BY <1>1, <1>5
    <2>1. e \in i + 1..n + 1
      BY <1>1, <2>0, EndsBehind
    <2>2. e + 1 \in i + 1..n + 2
      BY <1>1, <2>1
    <2>3. \A h : ArgsFrom(s, i, h) = <<SubSeq(s, i + 1, e - 1)>> \o h[e + 1]
      BY <1>1, <1>5 DEF ArgsFrom
    <2> HIDE DEF e
    <2> QED BY <1>4, <2>0, <2>1, <2>2, <2>3
  <1>6. CASE i <= n /\ s[i] # "blank" /\ s[i] # "quote"
    <2> DEFINE e == WordEnd(s, i)
    <2>1. i \in 1..n + 1 /\ e \in i..n + 1 /\ e # i
      BY <1>1, <1>6, EndsBehind
    <2>2. e \in i + 1..n + 2
      BY <1>1, <2>1
    <2>3. \A h : ArgsFrom(s, i, h) = <<SubSeq(s, i, e - 1)>> \o h[e]
      BY <1>1, <1>6 DEF ArgsFrom
    <2> HIDE DEF e
    <2> QED BY <1>4, <2>1, <2>2, <2>3
  <1> QED BY <1>1, <1>2, <1>3, <1>5, <1>6

\* So there is such a function, built from the end of the line.
LEMMA ArgsExist ==
  ASSUME NEW C, NEW s \in Seq(C)
  PROVE  \E f : f = [i \in 1..Len(s) + 2 |-> ArgsFrom(s, i, f)]
  <1> DEFINE n == Len(s)
             Down(k, f) == \A i \in n + 2 - k..n + 2 : f[i] = ArgsFrom(s, i, f)
             T == {k \in 0..n + 1 :
                     \E f \in [n + 2 - k..n + 2 -> Seq(Seq(C))] : Down(k, f)}
  <1>1. n \in Nat
    BY LenProperties
  <1>2. 0 \in T
    <2> DEFINE f == [i \in n + 2..n + 2 |-> <<>>]
    <2>1. f \in [n + 2..n + 2 -> Seq(Seq(C))]
      OBVIOUS
    <2>2. \A i \in n + 2..n + 2 : i > Len(s) /\ f[i] = <<>>
      BY <1>1
    <2> HIDE DEF f
    <2>3. \A i \in n + 2..n + 2 : f[i] = ArgsFrom(s, i, f)
      BY <2>2 DEF ArgsFrom
    <2>4. n + 2 - 0 = n + 2 /\ 0 \in 0..n + 1
      BY <1>1
    <2> QED BY <2>1, <2>3, <2>4
  <1>3. ASSUME NEW k \in 0..n, k \in T PROVE k + 1 \in T
    <2> DEFINE m == n + 1 - k
    <2>1. PICK f \in [n + 2 - k..n + 2 -> Seq(Seq(C))] : Down(k, f)
      BY <1>3
    <2> DEFINE x == ArgsFrom(s, m, f)
               g == [i \in m..n + 2 |-> IF i = m THEN x ELSE f[i]]
    <2>2. /\ m \in 1..n + 1 /\ n + 2 - k = m + 1 /\ n + 2 - (k + 1) = m
          /\ k + 1 \in 0..n + 1
      BY <1>1
    <2>3. \A i \in m..n + 2 : \A j \in i + 1..n + 2 : j \in n + 2 - k..n + 2 /\ j # m
      BY <1>1, <2>2
    <2>4. \A i \in m..n + 2 : \A j \in i + 1..n + 2 : f[j] = g[j] /\ f[j] \in Seq(Seq(C))
      <3> SUFFICES ASSUME NEW i \in m..n + 2, NEW j \in i + 1..n + 2
                   PROVE  f[j] = g[j] /\ f[j] \in Seq(Seq(C))
        OBVIOUS
      <3>1. j \in n + 2 - k..n + 2 /\ j # m /\ j \in m..n + 2
        BY <1>1, <2>2, <2>3
      <3> HIDE DEF x
      <3> QED BY <2>1, <3>1
    <2> HIDE DEF g
    <2>5. \A i \in m..n + 2 : /\ ArgsFrom(s, i, f) = ArgsFrom(s, i, g)
                              /\ ArgsFrom(s, i, f) \in Seq(Seq(C))
      <3> SUFFICES ASSUME NEW i \in m..n + 2
                   PROVE  /\ ArgsFrom(s, i, f) = ArgsFrom(s, i, g)
                          /\ ArgsFrom(s, i, f) \in Seq(Seq(C))
        OBVIOUS
      <3>1. i \in 1..n + 2
        BY <1>1, <2>2
      <3>2. Agree(C, s, i, f, g)
        BY <2>4 DEF Agree
      <3> QED BY <3>1, <3>2, ArgsFromLater
    <2>6. \A i \in m..n + 2 : g[i] = ArgsFrom(s, i, f)
      <3> SUFFICES ASSUME NEW i \in m..n + 2 PROVE g[i] = ArgsFrom(s, i, f)
        OBVIOUS
      <3>1. CASE i = m
        BY <3>1 DEF g
      <3>2. CASE i # m
        <4>1. i \in n + 2 - k..n + 2
          BY <1>1, <2>2, <3>2
        <4>2. f[i] = ArgsFrom(s, i, f)
          BY <4>1, <2>1
        <4> HIDE DEF x
        <4> QED BY <4>2, <3>2 DEF g
      <3> QED BY <3>1, <3>2
    <2>7. g \in [m..n + 2 -> Seq(Seq(C))]
      <3>1. g = [i \in m..n + 2 |-> g[i]]
        BY DEF g
      <3>2. \A i \in m..n + 2 : g[i] \in Seq(Seq(C))
        BY <2>5, <2>6
      <3> QED BY <3>1, <3>2
    <2>8. \A i \in m..n + 2 : g[i] = ArgsFrom(s, i, g)
      BY <2>5, <2>6
    <2> HIDE DEF m
    <2>9. Down(k + 1, g) /\ g \in [n + 2 - (k + 1)..n + 2 -> Seq(Seq(C))]
      BY <2>2, <2>7, <2>8
    <2> QED BY <2>2, <2>9
  <1> HIDE DEF T
  <1>4. T \in SUBSET (0..n + 1)
    BY DEF T
  <1>5. n + 1 \in Nat /\ n + 1 - 1 = n
    BY <1>1
  <1>6. T = 0..n + 1
    BY ONLY <1>2, <1>3, <1>4, <1>5, UpTo
  <1>7. n + 1 \in T
    BY <1>1, <1>6
  <1>8. PICK f \in [1..n + 2 -> Seq(Seq(C))] :
          \A i \in 1..n + 2 : f[i] = ArgsFrom(s, i, f)
    <2>1. n + 2 - (n + 1) = 1
      BY <1>1
    <2> QED BY <1>7, <2>1 DEF T
  <1>9. f = [i \in 1..n + 2 |-> f[i]]
    OBVIOUS
  <1>10. f = [i \in 1..n + 2 |-> ArgsFrom(s, i, f)]
    BY <1>8, <1>9
  <1> QED BY <1>10

\* ArgsAt is one.
LEMMA ArgsAtOK ==
  ASSUME NEW C, NEW s \in Seq(C)
  PROVE  \A i \in 1..Len(s) + 2 : /\ ArgsAt(s)[i] = ArgsFrom(s, i, ArgsAt(s))
                                  /\ ArgsAt(s)[i] \in Seq(Seq(C))
  <1> DEFINE n == Len(s)
             a == ArgsAt(s)
  <1>1. n \in Nat
    BY LenProperties
  <1>2. a = [i \in 1..n + 2 |-> ArgsFrom(s, i, a)]
    <2> DEFINE Is(f) == f = [i \in 1..n + 2 |-> ArgsFrom(s, i, f)]
    <2>1. \E f : Is(f)
      BY ArgsExist
    <2>2. a = CHOOSE f : Is(f)
      BY DEF ArgsAt
    <2> HIDE DEF Is, a
    <2>3. Is(a)
      BY <2>1, <2>2
    <2> QED BY <2>3 DEF Is
  <1> HIDE DEF a
  <1>3. \A i \in 1..n + 2 : a[i] = ArgsFrom(s, i, a)
    <2> DEFINE w == [i \in 1..n + 2 |-> ArgsFrom(s, i, a)]
    <2>1. \A i \in 1..n + 2 : w[i] = ArgsFrom(s, i, a)
      OBVIOUS
    <2> HIDE DEF w
    <2>2. a = w
      BY <1>2 DEF w
    <2> QED BY <2>1, <2>2
  <1> DEFINE T == {k \in 0..n + 1 : \A i \in n + 2 - k..n + 2 : a[i] \in Seq(Seq(C))}
  <1>4. \A i \in 1..n + 2 : (\A j \in i + 1..n + 2 : a[j] \in Seq(Seq(C)))
                              => a[i] \in Seq(Seq(C))
    BY <1>3, ArgsFromLater DEF Agree
  <1>5. 0 \in T
    <2>1. n + 2 \in 1..n + 2 /\ (\A j \in n + 2 + 1..n + 2 : FALSE)
          /\ n + 2 - 0 = n + 2 /\ 0 \in 0..n + 1 /\ \A j \in n + 2..n + 2 : j = n + 2
      BY <1>1
    <2>2. a[n + 2] \in Seq(Seq(C))
      BY <1>4, <2>1
    <2> QED BY <2>1, <2>2
  <1>6. ASSUME NEW k \in 0..n, k \in T PROVE k + 1 \in T
    <2>1. /\ n + 1 - k \in 1..n + 2 /\ n + 2 - (k + 1) = n + 1 - k
          /\ n + 1 - k + 1 = n + 2 - k /\ k + 1 \in 0..n + 1
      BY <1>1
    <2>2. \A j \in n + 2 - k..n + 2 : a[j] \in Seq(Seq(C))
      BY <1>6
    <2>3. a[n + 1 - k] \in Seq(Seq(C))
      BY <1>4, <2>1, <2>2
    <2>4. \A j \in n + 1 - k..n + 2 : j = n + 1 - k \/ j \in n + 2 - k..n + 2
      BY <1>1
    <2> QED BY <2>1, <2>2, <2>3, <2>4
  <1> HIDE DEF T
  <1>7. T \in SUBSET (0..n + 1)
    BY DEF T
  <1>8. n + 1 \in Nat /\ n + 1 - 1 = n
    BY <1>1
  <1>9. T = 0..n + 1
    BY ONLY <1>5, <1>6, <1>7, <1>8, UpTo
  <1>10. n + 1 \in T /\ n + 2 - (n + 1) = 1
    BY <1>1, <1>9
  <1>11. \A i \in 1..n + 2 : a[i] \in Seq(Seq(C))
    BY <1>10 DEF T
  <1> QED BY <1>3, <1>11 DEF a
-----------------------------------------------------------------------------
(* The invariant of a call on a line. *)

\* k arguments of line s begin where v says and end before e; behind them come
\* those that begin at place i.
SplitAt(s, v, e, k, i) ==
  ArgsOf(s) = [j \in 1..k |-> SubSeq(s, v[j], e[j] - 1)] \o ArgsAt(s)[i]

\* They stand in the cells as they were typed, with a zero behind each; the
\* blank behind the last one may still be there.
CutAt(e, k) ==
  \A j \in 1..k :
    /\ argv[j] <= e[j] /\ e[j] <= ptr
    /\ cmd[e[j]] = Nul \/ (lineAt = "blanks" /\ e[j] = ptr /\ cmd[ptr] = "blank")
    /\ \A i \in argv[j]..e[j] - 1 : cmd[i] = entered[i]

\* A word, and a string, that has been read from b up to ptr.
WordFrom(b) ==
  /\ b <= ptr /\ b <= lineLength /\ entered[b] \notin {"blank", "quote"}
  /\ \A i \in b..ptr - 1 : entered[i] # "blank" /\ cmd[i] = entered[i]

StringFrom(b) ==
  /\ b \in 2..ptr /\ entered[b - 1] = "quote"
  /\ \A i \in b..ptr - 1 : ~Closes(entered, i) /\ cmd[i] = entered[i]
  /\ ptr <= lineLength /\ entered[ptr] = "quote" => Closes(entered, ptr)

\* Where the call stands: k arguments are read, and the others are from i on.
StandsAt(k, i) ==
  \/ lineAt \in {"strip", "lookup", "blanks", "token"} /\ k = Len(argv) /\ i = ptr
  \/ lineAt = "word" /\ k + 1 = Len(argv) /\ i = argv[k + 1] /\ WordFrom(i)
  \/ lineAt = "string" /\ k + 1 = Len(argv) /\ i + 1 = argv[k + 1] /\ StringFrom(i + 1)
  \/ lineAt = "call" /\ k = Len(argv) /\ (i > lineLength \/ ArgvFull)

ReadTo(e, k, i) == SplitAt(entered, argv, e, k, i) /\ CutAt(e, k) /\ StandsAt(k, i)

ArgsSplit ==
  \E k \in 0..ARG_MAX, i \in 1..lineLength + 2 :
    \E e \in [1..k -> 1..lineLength + 1] :
      ReadTo(e, k, i)

Places == {"strip", "lookup", "blanks", "token", "string", "word", "call", "done"}

MshTypes ==
  /\ entered \in Seq(Char) /\ cmd \in Seq(Char \cup {Nul})
  /\ Len(cmd) = lineLength + 1 /\ cmd[lineLength + 1] = Nul
  /\ ptr \in 1..lineLength + 1 /\ \A i \in ptr..lineLength : cmd[i] = entered[i]
  /\ argv \in Seq(1..lineLength + 1) /\ Len(argv) <= ARG_MAX
  /\ lineAt \in Places

\* Before the command is known, and where an argument begins.
Starting ==
  /\ lineAt \in {"strip", "lookup"} => argv = <<>>
  /\ lineAt = "lookup" => ptr <= lineLength
  /\ lineAt \in {"lookup", "token"} => cmd[ptr] # "blank"

Named == ArgsOf(entered) # <<>> /\ ArgsOf(entered)[1] \in Table

LineIInv ==
  /\ MshTypes /\ Starting
  /\ lineAt # "done" => ArgsSplit /\ called = <<>>
  /\ lineAt \in {"blanks", "token", "string", "word", "call"} => Named
  /\ CalledWithArgs

-----------------------------------------------------------------------------
(* What a step does to the split. *)

\* Concatenation is associative; by a name, so that the fact applies to terms.
Joined(a, b) == a \o b

LEMMA JoinedThree ==
  ASSUME NEW D, NEW f \in Seq(D), NEW y \in Seq(D), NEW R \in Seq(D)
  PROVE  Joined(Joined(f, y), R) = Joined(f, Joined(y, R))
  BY ConcatAssociative DEF Joined

\* An argument that is read goes behind those before it.
LEMMA SplitMore ==
  ASSUME NEW C, NEW s \in Seq(C), NEW v \in Seq(1..Len(s) + 1), NEW k \in Nat,
         k + 1 <= Len(v), NEW e \in [1..k -> 1..Len(s) + 1], NEW m \in 1..Len(s) + 1,
         NEW i \in 1..Len(s) + 2, NEW r \in 1..Len(s) + 2,
         ArgsAt(s)[i] = <<SubSeq(s, v[k + 1], m - 1)>> \o ArgsAt(s)[r],
         SplitAt(s, v, e, k, i)
  PROVE  SplitAt(s, v, [j \in 1..k + 1 |-> IF j = k + 1 THEN m ELSE e[j]], k + 1, r)
  <1> DEFINE g == [j \in 1..k + 1 |-> IF j = k + 1 THEN m ELSE e[j]]
             f == [j \in 1..k |-> SubSeq(s, v[j], e[j] - 1)]
             h == [j \in 1..k + 1 |-> SubSeq(s, v[j], g[j] - 1)]
             x == SubSeq(s, v[k + 1], m - 1)
             R == ArgsAt(s)[r]
  <1>1. Len(s) \in Nat /\ Len(v) \in Nat /\ \A j \in 1..Len(v) : v[j] \in 1..Len(s) + 1
    BY LenProperties, ElementOfSeq
  <1>2. ASSUME NEW a \in 1..Len(s) + 1, NEW b \in 1..Len(s) + 1
        PROVE  SubSeq(s, a, b - 1) \in Seq(C)
    <2>1. a \in Int /\ b - 1 \in Int /\ \A q \in a..b - 1 : s[q] \in C
      BY <1>1, ElementOfSeq
    <2> QED BY <2>1, SubSeqProperties
  <1>3. \A j \in 1..k : v[j] \in 1..Len(s) + 1 /\ e[j] \in 1..Len(s) + 1
    <2>1. \A j \in 1..k : e[j] \in 1..Len(s) + 1
      OBVIOUS
    <2>2. \A j \in 1..k : j \in 1..Len(v)
      BY <1>1
    <2> QED BY <1>1, <2>1, <2>2
  <1>4. f \in Seq(Seq(C)) /\ Len(f) = k /\ \A j \in 1..k : f[j] = SubSeq(s, v[j], e[j] - 1)
    <2>1. \A j \in 1..k : f[j] = SubSeq(s, v[j], e[j] - 1)
      OBVIOUS
    <2>2. \A j \in 1..k : SubSeq(s, v[j], e[j] - 1) \in Seq(C)
      BY <1>2, <1>3
    <2>3. f = [j \in 1..k |-> f[j]]
      OBVIOUS
    <2> HIDE DEF f
    <2>4. \A j \in 1..k : f[j] \in Seq(C)
      BY <2>1, <2>2
    <2>5. f \in [1..k -> Seq(C)]
      BY <2>3, <2>4
    <2>6. f \in Seq(Seq(C)) /\ Len(f) = k
      BY ONLY <2>5, k \in Nat
    <2> QED BY <2>1, <2>6
  <1>5. v[k + 1] \in 1..Len(s) + 1 /\ x \in Seq(C)
    <2>1. k + 1 \in 1..Len(v)
      BY <1>1
    <2> QED BY <1>1, <1>2, <2>1
  <1>6. R \in Seq(Seq(C))
    BY ArgsAtOK
  <1>7. \A j \in 1..k + 1 : g[j] = IF j = k + 1 THEN m ELSE e[j]
    OBVIOUS
  <1> HIDE DEF g, f
  <1>8. \A j \in 1..k + 1 : SubSeq(s, v[j], g[j] - 1) = IF j = k + 1 THEN x ELSE f[j]
    <2> SUFFICES ASSUME NEW j \in 1..k + 1
                 PROVE  SubSeq(s, v[j], g[j] - 1) = IF j = k + 1 THEN x ELSE f[j]
      OBVIOUS
    <2>1. CASE j = k + 1
      BY <2>1, <1>7
    <2>2. CASE j # k + 1
      <3>1. j \in 1..k
        BY <2>2
      <3> QED BY <2>2, <3>1, <1>4, <1>7
    <2> QED BY <2>1, <2>2
  <1>9. h \in Seq(Seq(C)) /\ Len(h) = k + 1 /\ \A j \in 1..k + 1 : h[j] = IF j = k + 1 THEN x ELSE f[j]
    <2>1. \A j \in 1..k + 1 : h[j] = IF j = k + 1 THEN x ELSE f[j]
      BY <1>8
    <2>3. h = [j \in 1..k + 1 |-> h[j]]
      OBVIOUS
    <2> HIDE DEF h, x
    <2>2. \A j \in 1..k + 1 : h[j] \in Seq(C)
      <3>1. \A j \in 1..k : f[j] \in Seq(C)
        BY <1>4, ElementOfSeq
      <3>2. \A j \in 1..k + 1 : j = k + 1 \/ j \in 1..k
        OBVIOUS
      <3> QED BY <1>5, <2>1, <3>1, <3>2
    <2>4. h \in [1..k + 1 -> Seq(C)]
      BY <2>2, <2>3
    <2> QED BY <2>1, <2>4
  <1> HIDE DEF h, x, R
  <1>10. <<x>> \in Seq(Seq(C)) /\ Len(<<x>>) = 1 /\ <<x>>[1] = x
    BY <1>5
  <1>11. f \o <<x>> = h
    <2>1. /\ f \o <<x>> \in Seq(Seq(C)) /\ Len(f \o <<x>>) = k + 1
          /\ \A j \in 1..k + 1 : (f \o <<x>>)[j] = IF j <= k THEN f[j] ELSE <<x>>[j - k]
      BY <1>4, <1>10, ConcatProperties, SMTT(30)
    <2>2. \A j \in 1..k + 1 : (f \o <<x>>)[j] = h[j]
      <3>1. \A j \in 1..k + 1 : (j <= k <=> j # k + 1) /\ (j = k + 1 => j - k = 1)
        OBVIOUS
      <3> QED BY <1>9, <1>10, <2>1, <3>1
    <2> DEFINE g2 == f \o <<x>>
    <2> HIDE DEF g2
    <2>3. /\ g2 \in Seq(Seq(C)) /\ Len(g2) = Len(h) /\ h \in Seq(Seq(C))
          /\ \A j \in 1..Len(g2) : g2[j] = h[j]
      BY <1>9, <2>1, <2>2 DEF g2
    <2>4. g2 = h
      BY <2>3, SeqEqual
    <2> QED BY <2>4 DEF g2
  <1>12. f \o (<<x>> \o R) = h \o R
    <2> DEFINE y == <<x>>
               D == Seq(C)
    <2>1. f \in Seq(D) /\ y \in Seq(D) /\ R \in Seq(D)
      BY <1>4, <1>6, <1>10
    <2> HIDE DEF y, D
    <2>2. Joined(Joined(f, y), R) = Joined(f, Joined(y, R))
      BY <2>1, JoinedThree
    <2> QED BY <1>11, <2>2 DEF y, Joined
  <1>13. ArgsOf(s) = f \o (<<x>> \o R)
    BY DEF SplitAt, f, x, R
  <1> QED BY <1>12, <1>13 DEF SplitAt, h, g, R

\* What stands in the same cells.
SameIn(c, s, a, b) == \A i \in a..b : c[i] = s[i]

LEMMA SameCells ==
  ASSUME NEW c, NEW s, NEW a \in Int, NEW b \in Int, SameIn(c, s, a, b)
  PROVE  SubSeq(c, a, b) = SubSeq(s, a, b)
  <1>1. \A i \in 1..b - a + 1 : c[a + i - 1] = s[a + i - 1]
    BY DEF SameIn
  <1> QED BY <1>1

\* The first of what something is put in front of.
LEMMA InFront ==
  ASSUME NEW S, NEW R \in Seq(S), NEW x
  PROVE  (<<x>> \o R)[1] = x /\ <<x>> \o R # <<>>
  <1> DEFINE T == S \cup {x}
  <1>1. <<x>> \in Seq(T) /\ Len(<<x>>) = 1 /\ <<x>>[1] = x
    OBVIOUS
  <1>2. R \in Seq(T) /\ Len(R) \in Nat
    BY SeqMonotonic, LenProperties
  <1> HIDE DEF T
  <1>3. /\ Len(<<x>> \o R) = 1 + Len(R)
        /\ \A i \in 1..1 + Len(R) :
             (<<x>> \o R)[i] = IF i <= 1 THEN <<x>>[i] ELSE R[i - 1]
    BY <1>1, <1>2, ConcatProperties
  <1>4. 1 \in 1..1 + Len(R) /\ Len(<<x>> \o R) # 0
    BY <1>2, <1>3
  <1>5. (<<x>> \o R)[1] = x
    BY <1>1, <1>3, <1>4
  <1>6. Len(<<>>) = 0
    OBVIOUS
  <1> QED BY <1>4, <1>5, <1>6

\* Blanks before an argument are no part of it; behind the line there is none.
LEMMA ArgsAfterBlank ==
  ASSUME NEW C, NEW s \in Seq(C), NEW i \in 1..Len(s), s[i] = "blank"
  PROVE  ArgsAt(s)[i] = ArgsAt(s)[i + 1]
  <1>1. Len(s) \in Nat /\ i \in 1..Len(s) + 2 /\ ~(i > Len(s))
    BY LenProperties
  <1> QED BY <1>1, ArgsAtOK DEF ArgsFrom

LEMMA ArgsBehind ==
  ASSUME NEW C, NEW s \in Seq(C), NEW i \in 1..Len(s) + 2, i > Len(s)
  PROVE  ArgsAt(s)[i] = <<>>
  BY ArgsAtOK DEF ArgsFrom

\* A word, and a string, by where it ends.
WordTo(s, b, m) ==
  /\ s[b] # "blank" /\ s[b] # "quote" /\ (m = Len(s) + 1 \/ s[m] = "blank")
  /\ \A k \in b..m - 1 : s[k] # "blank"

StringTo(s, i, m) ==
  /\ s[i] = "quote" /\ (m = Len(s) + 1 \/ Closes(s, m))
  /\ \A k \in i + 1..m - 1 : ~Closes(s, k)

LEMMA ArgsWord ==
  ASSUME NEW C, NEW s \in Seq(C), NEW b \in 1..Len(s), NEW m \in b..Len(s) + 1,
         WordTo(s, b, m)
  PROVE  ArgsAt(s)[b] = <<SubSeq(s, b, m - 1)>> \o ArgsAt(s)[m]
  <1>1. Len(s) \in Nat /\ b \in 1..Len(s) + 2 /\ b \in 1..Len(s) + 1 /\ ~(b > Len(s))
    BY LenProperties
  <1>2. WordEnd(s, b) = m
    BY <1>1, WordEndIs DEF WordTo
  <1>3. ArgsAt(s)[b] = ArgsFrom(s, b, ArgsAt(s))
    BY <1>1, ArgsAtOK
  <1> QED BY <1>1, <1>2, <1>3 DEF ArgsFrom, WordTo

LEMMA ArgsString ==
  ASSUME NEW C, NEW s \in Seq(C), NEW i \in 1..Len(s), NEW m \in i + 1..Len(s) + 1,
         StringTo(s, i, m)
  PROVE  ArgsAt(s)[i] = <<SubSeq(s, i + 1, m - 1)>> \o ArgsAt(s)[m + 1]
  <1>1. Len(s) \in Nat /\ i \in 1..Len(s) + 2 /\ i + 1 \in 1..Len(s) + 1 /\ ~(i > Len(s))
    BY LenProperties
  <1>2. StringEnd(s, i + 1) = m
    BY <1>1, StringEndIs DEF StringTo
  <1>3. ArgsAt(s)[i] = ArgsFrom(s, i, ArgsAt(s))
    BY <1>1, ArgsAtOK
  <1> QED BY <1>1, <1>2, <1>3 DEF ArgsFrom, StringTo

-----------------------------------------------------------------------------
(* Every step keeps the invariant. *)

\* What the steps need of the types.
LEMMA LineFacts ==
  ASSUME MshTypes
  PROVE  /\ lineLength \in Nat /\ lineLength = Len(entered) /\ entered \in Seq(Char)
         /\ ptr \in 1..lineLength + 1 /\ Len(argv) \in Nat
         /\ \A i \in ptr..lineLength : cmd[i] = entered[i]
         /\ cmd[lineLength + 1] = Nul /\ Nul # "blank" /\ Nul # "quote"
         /\ cmd[ptr] # Nul => ptr <= lineLength
         /\ ptr <= lineLength => cmd[ptr] # Nul
         /\ ARG_MAX \in Nat \ {0}
         /\ \A i \in 1..lineLength : entered[i] # Nul
         /\ \A j \in 1..Len(argv) : argv[j] \in 1..lineLength + 1
  <1>1. lineLength \in Nat /\ lineLength = Len(entered) /\ Len(argv) \in Nat
    BY LenProperties DEF MshTypes, lineLength
  <1>2. \A i \in 1..lineLength : entered[i] \in Char
    BY <1>1, ElementOfSeq DEF MshTypes
  <1>3. Nul \notin Char /\ Nul # "blank" /\ Nul # "quote" /\ ARG_MAX \in Nat \ {0}
    BY LineAssumption DEF Char, Nul
  <1>4. \A j \in 1..Len(argv) : argv[j] \in 1..lineLength + 1
    BY <1>1, ElementOfSeq DEF MshTypes
  <1>5. ptr \in 1..lineLength + 1 /\ entered \in Seq(Char)
        /\ (\A i \in ptr..lineLength : cmd[i] = entered[i]) /\ cmd[lineLength + 1] = Nul
    BY DEF MshTypes
  <1>6. cmd[ptr] # Nul => ptr <= lineLength
    BY <1>1, <1>5
  <1>7. \A i \in 1..lineLength : entered[i] # Nul
    BY <1>2, <1>3
  <1>8. ptr <= lineLength => cmd[ptr] # Nul
    BY <1>1, <1>5, <1>7
  <1> QED BY <1>1, <1>3, <1>4, <1>5, <1>6, <1>7, <1>8

\* A blank at ptr is skipped.
LEMMA BlankHere ==
  ASSUME MshTypes, ptr \in 1..lineLength, entered[ptr] = "blank"
  PROVE  ArgsAt(entered)[ptr] = ArgsAt(entered)[ptr + 1]
  BY ArgsAfterBlank, LineFacts

\* The cell in front of ptr may be cut.
LEMMA CutTypes ==
  ASSUME MshTypes, CutHere, UNCHANGED <<entered, argv>>, ptr' = ptr + 1,
         ptr <= lineLength, lineAt' \in Places
  PROVE  /\ MshTypes'
         /\ \A j \in 1..lineLength + 1 : cmd'[j] = IF j = ptr THEN Nul ELSE cmd[j]
  <1>1. lineLength \in Nat /\ lineLength' = lineLength /\ ptr \in 1..lineLength
    BY LineFacts DEF lineLength
  <1>2. cmd \in Seq(Char \cup {Nul}) /\ Len(cmd) = lineLength + 1 /\ ptr \in 1..Len(cmd)
        /\ Nul \in Char \cup {Nul}
    BY <1>1 DEF MshTypes
  <1>3. /\ cmd' \in Seq(Char \cup {Nul}) /\ Len(cmd') = Len(cmd)
        /\ \A j \in 1..Len(cmd) : cmd'[j] = IF j = ptr THEN Nul ELSE cmd[j]
    BY <1>2, ExceptSeq DEF CutHere
  <1>4. \A j \in 1..lineLength + 1 : cmd'[j] = IF j = ptr THEN Nul ELSE cmd[j]
    BY <1>2, <1>3
  <1>5. cmd'[lineLength + 1] = Nul
    BY <1>1, <1>4 DEF MshTypes
  <1>6. \A i \in ptr'..lineLength : cmd'[i] = entered[i]
    BY <1>1, <1>4 DEF MshTypes
  <1>7. ptr' \in 1..lineLength + 1
    BY <1>1
  <1> QED BY <1>1, <1>2, <1>3, <1>4, <1>5, <1>6, <1>7 DEF MshTypes

LEMMA StripOK == ASSUME LineIInv, Strip PROVE LineIInv'
  <1>1. MshTypes /\ lineAt = "strip" /\ argv = <<>> /\ called = <<>>
    BY DEF LineIInv, Strip, Starting
  <1>2. UNCHANGED <<entered, cmd, argv, called>> /\ lineLength' = lineLength
    BY DEF Strip, KeepCells, GotoLoop, lineLength
  <1>3. CalledWithArgs'
    BY <1>1, <1>2 DEF CalledWithArgs
  <1>4. PICK k \in 0..ARG_MAX, i \in 1..lineLength + 2 :
          \E e \in [1..k -> 1..lineLength + 1] : ReadTo(e, k, i)
    BY <1>1 DEF LineIInv, ArgsSplit
  <1>45. PICK e \in [1..k -> 1..lineLength + 1] : ReadTo(e, k, i)
    BY <1>4
  <1>5. k = 0 /\ i = ptr /\ Len(argv) = 0
    BY <1>1, <1>45 DEF StandsAt, ReadTo
  <1>6. CASE BlankAt(ptr) /\ MovePtr(1) /\ GotoLoop("strip")
    <2>1. cmd[ptr] = "blank" /\ ptr' = ptr + 1 /\ lineAt' = "strip"
      BY <1>6 DEF BlankAt, MovePtr, GotoLoop
    <2>2. ptr \in 1..lineLength /\ entered[ptr] = "blank" /\ lineLength \in Nat
      BY <1>1, <2>1, LineFacts
    <2>3. ArgsAt(entered)[ptr] = ArgsAt(entered)[ptr + 1]
      BY <1>1, <2>2, BlankHere
    <2>4. MshTypes'
      <3>1. ptr' \in 1..lineLength + 1 /\ \A j \in ptr'..lineLength : cmd[j] = entered[j]
        BY <1>1, <2>1, <2>2, LineFacts
      <3> QED BY <1>1, <1>2, <2>1, <3>1 DEF MshTypes, Places
    <2>8. PICK r \in 1..lineLength + 2 : r = ptr + 1
      BY <2>2
    <2>5. SplitAt(entered, argv, e, k, r)
      BY <2>8, <1>45, <1>5, <2>3 DEF SplitAt, ReadTo
    <2>6. CutAt(e, k)'
      BY <1>5 DEF CutAt
    <2>7. StandsAt(k, r)'
      BY <2>8, <1>2, <1>5, <2>1 DEF StandsAt
    <2>9. ArgsSplit'
      BY <1>2, <2>5, <2>6, <2>7, <2>8 DEF ArgsSplit, ReadTo
    <2> QED BY <1>1, <1>2, <1>3, <2>1, <2>4, <2>9 DEF LineIInv, Starting
  <1>7. CASE cmd[ptr] = Nul /\ UNCHANGED ptr /\ GotoLoop("done")
    <2>1. lineAt' = "done" /\ MshTypes'
      BY <1>1, <1>2, <1>7 DEF GotoLoop, MshTypes, Places
    <2> QED BY <1>1, <1>2, <1>3, <2>1 DEF LineIInv, Starting
  <1>8. CASE ~BlankAt(ptr) /\ cmd[ptr] # Nul /\ UNCHANGED ptr /\ GotoLoop("lookup")
    <2>1. lineAt' = "lookup" /\ MshTypes' /\ ptr' = ptr /\ cmd[ptr] # "blank"
      BY <1>1, <1>2, <1>8 DEF GotoLoop, MshTypes, BlankAt, Places
    <2>2. ptr <= lineLength
      BY <1>1, <1>8, LineFacts
    <2>3. CutAt(e, k)' /\ StandsAt(k, i)'
      BY <1>2, <1>5, <2>1 DEF CutAt, StandsAt
    <2>4. ArgsSplit'
      BY <1>2, <1>45, <2>3 DEF ArgsSplit, ReadTo
    <2> QED BY <1>1, <1>2, <1>3, <2>1, <2>2, <2>4 DEF LineIInv, Starting
  <1> QED BY <1>6, <1>7, <1>8 DEF Strip

\* The first word that the lookup reads is the one that begins at ptr.
LEMMA FirstWord ==
  ASSUME MshTypes, ptr <= lineLength, cmd[ptr] # "blank"
  PROVE  LET e == WordEnd(entered, ptr) IN
         /\ e \in ptr + 1..lineLength + 1
         /\ e = lineLength + 1 \/ entered[e] = "blank"
         /\ \A j \in ptr..e - 1 : entered[j] # "blank"
         /\ Word0 = SubSeq(entered, ptr, e - 1)
  <1> DEFINE n == lineLength
             S == {k \in ptr..Len(entered) : entered[k] = "blank"} \cup {Len(entered) + 1}
             e == Least(S)
  <1>1. /\ n \in Nat /\ n = Len(entered) /\ ptr \in 1..n
        /\ \A i \in ptr..n : cmd[i] = entered[i]
    BY LineFacts
  <1>2. S \in SUBSET Nat /\ S # {} /\ \A q \in S : q \in ptr..n + 1
    BY <1>1
  <1>3. e \in S /\ \A q \in S : e <= q
    BY <1>2, LeastOK
  <1>4. WordEnd(entered, ptr) = e
    BY DEF WordEnd
  <1>5. e \in ptr..n + 1 /\ (e = n + 1 \/ entered[e] = "blank")
    <2>1. e \in ptr..n + 1
      BY <1>2, <1>3
    <2>2. e = n + 1 \/ entered[e] = "blank"
      BY <1>1, <1>3
    <2> QED BY <2>1, <2>2
  <1>6. \A j \in ptr..e - 1 : entered[j] # "blank"
    <2> SUFFICES ASSUME NEW j \in ptr..e - 1, entered[j] = "blank" PROVE FALSE
      OBVIOUS
    <2>1. j \in ptr..n /\ ~(e <= j)
      BY <1>1, <1>5
    <2>2. j \in S
      BY <1>1, <2>1
    <2> HIDE DEF S
    <2> QED BY <1>3, <2>1, <2>2
  <1>7. e # ptr
    BY <1>1, <1>5
  <1> DEFINE Is(k) == /\ k = lineLength + 1 \/ BlankAt(k)
                      /\ \A j \in ptr..k - 1 : ~BlankAt(j)
             d == CHOOSE k \in ptr..lineLength + 1 : Is(k)
  <1> HIDE DEF e, S
  <1>8. \A j \in ptr..n : BlankAt(j) <=> entered[j] = "blank"
    BY <1>1 DEF BlankAt
  <1>9. Is(e)
    <2>1. e = n + 1 \/ e \in ptr..n
      BY <1>1, <1>5
    <2>2. \A j \in ptr..e - 1 : j \in ptr..n
      BY <1>1, <1>5
    <2> QED BY <1>5, <1>6, <1>8, <2>1, <2>2
  <1>10. d \in ptr..n + 1 /\ Is(d)
    BY <1>5, <1>9
  <1>11. Word0 = SubSeq(cmd, ptr, d - 1)
    BY DEF Word0
  <1> HIDE DEF d
  <1>12. d = e
    <2>1. CASE d < e
      <3>1. d \in ptr..e - 1 /\ d # n + 1 /\ d \in ptr..n
        BY <1>1, <1>5, <1>10, <2>1
      <3> QED BY <1>6, <1>8, <1>10, <3>1
    <2>2. CASE e < d
      <3>1. e \in ptr..d - 1 /\ e # n + 1 /\ e \in ptr..n
        BY <1>1, <1>5, <1>10, <2>2
      <3> QED BY <1>5, <1>8, <1>10, <3>1
    <2> QED BY <1>1, <1>5, <1>10, <2>1, <2>2
  <1>13. SubSeq(cmd, ptr, e - 1) = SubSeq(entered, ptr, e - 1)
    <2>1. SameIn(cmd, entered, ptr, e - 1)
      BY <1>1, <1>5 DEF SameIn
    <2>2. ptr \in Int /\ e - 1 \in Int
      BY <1>1, <1>5
    <2> QED BY <2>1, <2>2, SameCells
  <1> QED BY <1>1, <1>4, <1>5, <1>6, <1>7, <1>11, <1>12, <1>13

LEMMA LookupOK == ASSUME LineIInv, LookupCommand PROVE LineIInv'
  <1>1. /\ MshTypes /\ lineAt = "lookup" /\ argv = <<>> /\ called = <<>>
        /\ ptr <= lineLength /\ cmd[ptr] # "blank"
    BY DEF LineIInv, LookupCommand, Starting
  <1>2. /\ UNCHANGED <<entered, cmd, ptr, argv, called>> /\ lineLength' = lineLength
        /\ lineAt' = IF KnownCommand THEN "blanks" ELSE "done"
    BY DEF LookupCommand, KeepCells, GotoLoop, lineLength
  <1>3. CalledWithArgs' /\ MshTypes'
    BY <1>1, <1>2 DEF CalledWithArgs, MshTypes, Places
  <1>4. CASE ~KnownCommand
    BY <1>2, <1>3, <1>4 DEF LineIInv, Starting
  <1>5. CASE KnownCommand
    <2>1. PICK k \in 0..ARG_MAX, i \in 1..lineLength + 2 :
            \E e \in [1..k -> 1..lineLength + 1] : ReadTo(e, k, i)
      BY <1>1 DEF LineIInv, ArgsSplit
    <2>2. PICK e \in [1..k -> 1..lineLength + 1] : ReadTo(e, k, i)
      BY <2>1
    <2>3. k = 0 /\ i = ptr /\ Len(argv) = 0
      BY <1>1, <2>2 DEF StandsAt, ReadTo
    <2>4. CutAt(e, k)' /\ StandsAt(k, i)' /\ lineAt' = "blanks"
      BY <1>2, <1>5, <2>3 DEF CutAt, StandsAt
    <2>5. ArgsSplit'
      BY <1>2, <2>2, <2>4 DEF ArgsSplit, ReadTo
    <2> DEFINE m == WordEnd(entered, ptr)
    <2>6. /\ m \in ptr + 1..lineLength + 1 /\ Word0 = SubSeq(entered, ptr, m - 1)
          /\ m = lineLength + 1 \/ entered[m] = "blank"
          /\ \A j \in ptr..m - 1 : entered[j] # "blank"
      BY <1>1, FirstWord
    <2> HIDE DEF m
    <2>7. /\ lineLength \in Nat /\ lineLength = Len(entered) /\ entered \in Seq(Char)
          /\ ptr \in 1..lineLength /\ entered[ptr] # "blank"
      BY <1>1, LineFacts
    <2>8. entered[ptr] # "quote"
      <3>1. Word0 \in Seq(Letter)
        BY <1>5, LineAssumption DEF KnownCommand
      <3>2. \A j \in ptr..m - 1 : entered[j] \in Char
        BY <2>6, <2>7, ElementOfSeq
      <3>3. /\ Len(Word0) = m - 1 - ptr + 1 /\ Word0[1] = entered[ptr]
            /\ 1 \in 1..Len(Word0)
        <4>1. /\ Len(SubSeq(entered, ptr, m - 1)) = IF ptr <= m - 1 THEN m - 1 - ptr + 1 ELSE 0
              /\ \A j \in 1..m - 1 - ptr + 1 :
                   SubSeq(entered, ptr, m - 1)[j] = entered[ptr + j - 1]
          BY <2>6, <2>7, <3>2, SubSeqProperties
        <4>2. 1 \in 1..m - 1 - ptr + 1 /\ ptr + 1 - 1 = ptr /\ ptr <= m - 1
          BY <2>6, <2>7
        <4> QED BY <2>6, <4>1, <4>2
      <3>4. entered[ptr] \in Letter
        BY <3>1, <3>3, ElementOfSeq
      <3>5. "quote" \notin Letter
        BY LineAssumption
      <3> QED BY <3>4, <3>5
    <2>9. ArgsAt(entered)[ptr] = <<Word0>> \o ArgsAt(entered)[m]
      <3>1. WordTo(entered, ptr, m)
        BY <2>6, <2>7, <2>8 DEF WordTo
      <3>2. ptr \in 1..Len(entered) /\ m \in ptr..Len(entered) + 1
        BY <2>6, <2>7
      <3>3. ArgsAt(entered)[ptr]
              = <<SubSeq(entered, ptr, m - 1)>> \o ArgsAt(entered)[m]
        BY <2>7, <3>1, <3>2, ArgsWord
      <3> QED BY <2>6, <3>3
    <2>10. ArgsOf(entered) = ArgsAt(entered)[ptr]
      <3>1. [j \in 1..k |-> SubSeq(entered, argv[j], e[j] - 1)] = <<>>
        BY <2>3
      <3>2. ptr \in 1..Len(entered) + 2 /\ entered \in Seq(Char)
        BY <2>7
      <3>3. ArgsAt(entered)[ptr] \in Seq(Seq(Char))
        BY <3>2, ArgsAtOK
      <3>4. ArgsOf(entered) = <<>> \o ArgsAt(entered)[ptr]
        BY <2>2, <2>3, <3>1 DEF ReadTo, SplitAt
      <3> QED BY <3>3, <3>4, ConcatEmptySeq
    <2>11. Named
      <3>1. m \in 1..Len(entered) + 2
        BY <2>6, <2>7
      <3>2. ArgsAt(entered)[m] \in Seq(Seq(Char))
        BY <2>7, <3>1, ArgsAtOK
      <3>3. Word0 \in Table
        BY <1>5 DEF KnownCommand
      <3>4. (<<Word0>> \o ArgsAt(entered)[m])[1] = Word0
            /\ <<Word0>> \o ArgsAt(entered)[m] # <<>>
        BY <3>2, InFront
      <3> QED BY <2>9, <2>10, <3>3, <3>4 DEF Named
    <2>12. Named'
      BY <1>2, <2>11 DEF Named
    <2> QED BY <1>1, <1>2, <1>3, <2>4, <2>5, <2>12 DEF LineIInv, Starting
  <1> QED BY <1>4, <1>5

LEMMA BlanksOK == ASSUME LineIInv, Blanks PROVE LineIInv'
  <1>1. MshTypes /\ lineAt = "blanks" /\ called = <<>> /\ Named
    BY DEF LineIInv, Blanks
  <1>2. UNCHANGED <<entered, argv, called>> /\ lineLength' = lineLength
    BY DEF Blanks, GotoLoop, lineLength
  <1>3. CalledWithArgs' /\ Named'
    BY <1>1, <1>2 DEF CalledWithArgs, Named
  <1>4. PICK k \in 0..ARG_MAX, i \in 1..lineLength + 2 :
          \E e \in [1..k -> 1..lineLength + 1] : ReadTo(e, k, i)
    BY <1>1 DEF LineIInv, ArgsSplit
  <1>5. PICK e \in [1..k -> 1..lineLength + 1] : ReadTo(e, k, i)
    BY <1>4
  <1>6. k = Len(argv) /\ i = ptr
    BY <1>1, <1>5 DEF StandsAt, ReadTo
  <1>7. /\ lineLength \in Nat /\ lineLength = Len(entered) /\ entered \in Seq(Char)
        /\ ptr \in 1..lineLength + 1 /\ Len(argv) \in Nat
        /\ \A j \in 1..Len(argv) : argv[j] \in 1..lineLength + 1
    BY <1>1, LineFacts
  <1>8. CASE BlankAt(ptr) /\ CutHere /\ MovePtr(1) /\ GotoLoop("blanks")
    <2>1. cmd[ptr] = "blank" /\ ptr' = ptr + 1 /\ lineAt' = "blanks" /\ CutHere
      BY <1>8 DEF BlankAt, MovePtr, GotoLoop
    <2>2. ptr \in 1..lineLength /\ entered[ptr] = "blank"
      BY <1>1, <1>7, <2>1, LineFacts
    <2>3. /\ MshTypes'
          /\ \A j \in 1..lineLength + 1 : cmd'[j] = IF j = ptr THEN Nul ELSE cmd[j]
      BY <1>1, <1>2, <2>1, <2>2, CutTypes DEF Places
    <2>4. ArgsAt(entered)[ptr] = ArgsAt(entered)[ptr + 1]
      BY <1>1, <2>2, BlankHere
    <2>5. PICK r \in 1..lineLength + 2 : r = ptr + 1
      BY <1>7, <2>2
    <2>6. SplitAt(entered, argv, e, k, r)
      BY <1>5, <1>6, <2>4, <2>5 DEF SplitAt, ReadTo
    <2>7. CutAt(e, k)'
      <3> SUFFICES ASSUME NEW j \in 1..k
                   PROVE  /\ argv[j] <= e[j] /\ e[j] <= ptr' /\ cmd'[e[j]] = Nul
                          /\ \A q \in argv[j]..e[j] - 1 : cmd'[q] = entered[q]
        BY <1>2 DEF CutAt
      <3>1. /\ argv[j] <= e[j] /\ e[j] <= ptr
            /\ cmd[e[j]] = Nul \/ e[j] = ptr
            /\ \A q \in argv[j]..e[j] - 1 : cmd[q] = entered[q]
        BY <1>5 DEF CutAt, ReadTo
      <3>2. e[j] \in 1..lineLength + 1 /\ argv[j] \in 1..lineLength + 1
        BY <1>6, <1>7
      <3>3. \A q \in argv[j]..e[j] - 1 : q \in 1..lineLength + 1 /\ q # ptr
        BY <1>7, <3>1, <3>2, SMTT(30)
      <3> QED BY <1>7, <2>1, <2>3, <3>1, <3>2, <3>3, SMTT(30)
    <2>8. StandsAt(k, r)'
      BY <1>2, <1>6, <2>1, <2>5 DEF StandsAt
    <2>9. ArgsSplit'
      BY <1>2, <2>6, <2>7, <2>8 DEF ArgsSplit, ReadTo
    <2> QED BY <1>1, <1>2, <1>3, <2>1, <2>3, <2>9 DEF LineIInv, Starting
  <1>9. CASE ~BlankAt(ptr) /\ UNCHANGED <<cmd, ptr>> /\ GotoLoop("token")
    <2>1. UNCHANGED <<cmd, ptr>> /\ lineAt' = "token" /\ cmd[ptr] # "blank"
      BY <1>9 DEF BlankAt, GotoLoop
    <2>2. MshTypes'
      BY <1>1, <1>2, <2>1 DEF MshTypes, Places
    <2>3. CutAt(e, k)'
      BY <1>2, <1>5, <2>1 DEF CutAt, ReadTo
    <2>4. StandsAt(k, i)'
      BY <1>2, <1>6, <2>1 DEF StandsAt
    <2>5. ArgsSplit'
      BY <1>2, <1>5, <2>3, <2>4 DEF ArgsSplit, ReadTo
    <2> QED BY <1>1, <1>2, <1>3, <2>1, <2>2, <2>5 DEF LineIInv, Starting
  <1> QED BY <1>8, <1>9 DEF Blanks

\* Another argument begins.
LEMMA SplitAppend ==
  ASSUME NEW s, NEW S, NEW v \in Seq(S), NEW x \in S, NEW e, NEW i, SplitAt(s, v, e, Len(v), i)
  PROVE  /\ SplitAt(s, Append(v, x), e, Len(v), i)
         /\ Append(v, x) \in Seq(S) /\ Len(Append(v, x)) = Len(v) + 1
         /\ \A j \in 1..Len(v) : Append(v, x)[j] = v[j]
         /\ Append(v, x)[Len(v) + 1] = x
  <1> DEFINE w == Append(v, x)
             k == Len(v)
  <1>1. k \in Nat
    BY LenProperties
  <1>2. /\ w \in Seq(S) /\ Len(w) = k + 1
        /\ \A j \in 1..k : w[j] = v[j]
        /\ w[k + 1] = x
    BY <1>1, AppendProperties
  <1> HIDE DEF w
  <1>3. [j \in 1..k |-> SubSeq(s, w[j], e[j] - 1)]
          = [j \in 1..k |-> SubSeq(s, v[j], e[j] - 1)]
    BY <1>2
  <1>4. SplitAt(s, w, e, k, i)
    BY <1>3 DEF SplitAt
  <1> QED BY <1>2, <1>4 DEF w

LEMMA TokenOK == ASSUME LineIInv, Token PROVE LineIInv'
  <1>1. MshTypes /\ lineAt = "token" /\ called = <<>> /\ Named /\ cmd[ptr] # "blank"
    BY DEF LineIInv, Token, Starting
  <1>2. UNCHANGED <<entered, cmd, called>> /\ lineLength' = lineLength
    BY DEF Token, GotoLoop, lineLength
  <1>3. CalledWithArgs' /\ Named'
    BY <1>1, <1>2 DEF CalledWithArgs, Named
  <1>4. PICK k \in 0..ARG_MAX, i \in 1..lineLength + 2 :
          \E e \in [1..k -> 1..lineLength + 1] : ReadTo(e, k, i)
    BY <1>1 DEF LineIInv, ArgsSplit
  <1>5. PICK e \in [1..k -> 1..lineLength + 1] : ReadTo(e, k, i)
    BY <1>4
  <1>6. k = Len(argv) /\ i = ptr
    BY <1>1, <1>5 DEF StandsAt, ReadTo
  <1>7. /\ lineLength \in Nat /\ lineLength = Len(entered) /\ entered \in Seq(Char)
        /\ ptr \in 1..lineLength + 1 /\ Len(argv) \in Nat /\ ARG_MAX \in Nat
        /\ \A j \in 1..Len(argv) : argv[j] \in 1..lineLength + 1
        /\ \A j \in ptr..lineLength : cmd[j] = entered[j]
    BY <1>1, LineFacts
  <1>8. CASE (ArgvFull \/ ptr > lineLength) /\ UNCHANGED <<ptr, argv>> /\ GotoLoop("call")
    <2>1. UNCHANGED <<ptr, argv>> /\ lineAt' = "call"
      BY <1>8 DEF GotoLoop
    <2>2. MshTypes'
      BY <1>1, <1>2, <2>1 DEF MshTypes, Places
    <2>3. CutAt(e, k)'
      BY <1>1, <1>2, <1>5, <2>1 DEF CutAt, ReadTo
    <2>4. StandsAt(k, i)'
      BY <1>2, <1>6, <1>8, <2>1 DEF StandsAt, ArgvFull
    <2>5. ArgsSplit'
      BY <1>2, <1>5, <2>1, <2>3, <2>4 DEF ArgsSplit, ReadTo
    <2> QED BY <1>1, <1>2, <1>3, <2>1, <2>2, <2>5 DEF LineIInv, Starting
  <1>9. ASSUME NEW x \in 1..lineLength + 1, argv' = Append(argv, x), ~ArgvFull
        PROVE  /\ SplitAt(entered, argv, e, k, i)'
               /\ argv' \in Seq(1..lineLength + 1)
               /\ Len(argv') = k + 1 /\ Len(argv') <= ARG_MAX
               /\ argv'[k + 1] = x /\ \A j \in 1..k : argv'[j] = argv[j]
    <2>1. argv \in Seq(1..lineLength + 1) /\ SplitAt(entered, argv, e, Len(argv), i)
      BY <1>1, <1>5, <1>6 DEF MshTypes, ReadTo
    <2>2. /\ SplitAt(entered, Append(argv, x), e, Len(argv), i)
          /\ Append(argv, x) \in Seq(1..lineLength + 1)
          /\ Len(Append(argv, x)) = Len(argv) + 1
          /\ \A j \in 1..Len(argv) : Append(argv, x)[j] = argv[j]
          /\ Append(argv, x)[Len(argv) + 1] = x
      <3> DEFINE S == 1..lineLength + 1
      <3>1. argv \in Seq(S) /\ x \in S
        BY <2>1
      <3> HIDE DEF S
      <3>2. /\ SplitAt(entered, Append(argv, x), e, Len(argv), i)
            /\ Append(argv, x) \in Seq(S)
            /\ Len(Append(argv, x)) = Len(argv) + 1
            /\ \A j \in 1..Len(argv) : Append(argv, x)[j] = argv[j]
            /\ Append(argv, x)[Len(argv) + 1] = x
        BY <2>1, <3>1, SplitAppend
      <3> QED BY <3>2 DEF S
    <2>3. Len(argv) + 1 <= ARG_MAX
      BY <1>7, <1>9 DEF ArgvFull
    <2> QED BY <1>2, <1>6, <1>9, <2>2, <2>3
  <1>10. CASE ~ArgvFull /\ cmd[ptr] = "quote" /\ MovePtr(1) /\ argv' = Append(argv, ptr + 1)
              /\ GotoLoop("string")
    <2>1. ptr' = ptr + 1 /\ lineAt' = "string" /\ ptr \in 1..lineLength /\ entered[ptr] = "quote"
          /\ ptr + 1 \in 1..lineLength + 1
      BY <1>1, <1>7, <1>10, LineFacts DEF MovePtr, GotoLoop
    <2>2. /\ SplitAt(entered, argv, e, k, i)'
          /\ argv' \in Seq(1..lineLength + 1)
          /\ Len(argv') = k + 1 /\ Len(argv') <= ARG_MAX
          /\ argv'[k + 1] = ptr + 1 /\ \A j \in 1..k : argv'[j] = argv[j]
      BY <1>9, <1>10, <2>1
    <2>3. MshTypes'
      BY <1>1, <1>2, <2>1, <2>2 DEF MshTypes, Places
    <2>4. CutAt(e, k)'
      <3> SUFFICES ASSUME NEW j \in 1..k
                   PROVE  /\ argv'[j] <= e[j] /\ e[j] <= ptr' /\ cmd'[e[j]] = Nul
                          /\ \A q \in argv'[j]..e[j] - 1 : cmd'[q] = entered'[q]
        BY DEF CutAt
      <3>1. /\ argv[j] <= e[j] /\ e[j] <= ptr /\ cmd[e[j]] = Nul
            /\ \A q \in argv[j]..e[j] - 1 : cmd[q] = entered[q]
        BY <1>1, <1>5 DEF CutAt, ReadTo
      <3>2. argv'[j] = argv[j] /\ e[j] \in 1..lineLength + 1
        BY <2>2
      <3>3. e[j] <= ptr'
        BY <1>7, <2>1, <3>1, <3>2
      <3> QED BY <1>2, <3>1, <3>2, <3>3
    <2>5. StringFrom(i + 1)'
      <3>1. ptr + 1 <= lineLength /\ entered[ptr + 1] = "quote" => Closes(entered, ptr + 1)
        BY <2>1 DEF Closes
      <3>2. i + 1 = ptr' /\ i + 1 \in 2..ptr' /\ entered[i + 1 - 1] = "quote"
        BY <1>6, <2>1
      <3>3. \A j \in i + 1..ptr' - 1 : FALSE
        BY <1>6, <2>1
      <3> QED BY <1>2, <2>1, <3>1, <3>2, <3>3 DEF StringFrom
    <2>6. StandsAt(k, i)'
      BY <1>6, <2>1, <2>2, <2>5 DEF StandsAt
    <2>7. ArgsSplit'
      BY <1>2, <2>2, <2>4, <2>6 DEF ArgsSplit, ReadTo
    <2> QED BY <1>1, <1>2, <1>3, <2>1, <2>3, <2>7 DEF LineIInv, Starting
  <1>11. CASE ~ArgvFull /\ ptr <= lineLength /\ cmd[ptr] # "quote" /\ UNCHANGED ptr
              /\ argv' = Append(argv, ptr) /\ GotoLoop("word")
    <2>1. ptr' = ptr /\ lineAt' = "word" /\ ptr \in 1..lineLength
          /\ entered[ptr] \notin {"quote", "blank"}
          /\ ptr \in 1..lineLength + 1
      BY <1>1, <1>7, <1>11 DEF GotoLoop
    <2>2. /\ SplitAt(entered, argv, e, k, i)'
          /\ argv' \in Seq(1..lineLength + 1)
          /\ Len(argv') = k + 1 /\ Len(argv') <= ARG_MAX
          /\ argv'[k + 1] = ptr /\ \A j \in 1..k : argv'[j] = argv[j]
      BY <1>9, <1>11, <2>1
    <2>3. MshTypes'
      BY <1>1, <1>2, <2>1, <2>2 DEF MshTypes, Places
    <2>4. CutAt(e, k)'
      BY <1>1, <1>2, <1>5, <2>1, <2>2 DEF CutAt, ReadTo
    <2>5. WordFrom(i)'
      <3>1. \A j \in i..ptr' - 1 : FALSE
        BY <1>6, <2>1
      <3>2. i <= ptr' /\ i <= lineLength /\ entered[i] \notin {"blank", "quote"}
        BY <1>6, <2>1
      <3> QED BY <1>2, <2>1, <3>1, <3>2 DEF WordFrom
    <2>6. StandsAt(k, i)'
      BY <1>6, <2>1, <2>2, <2>5 DEF StandsAt
    <2>7. ArgsSplit'
      BY <1>2, <2>2, <2>4, <2>6 DEF ArgsSplit, ReadTo
    <2> QED BY <1>1, <1>2, <1>3, <2>1, <2>3, <2>7 DEF LineIInv, Starting
  <1> QED BY <1>8, <1>10, <1>11 DEF Token

\* An argument ends in front of m; what follows begins at r.
Followed(k, i, m, r) ==
  ArgsAt(entered)[i] = <<SubSeq(entered, argv[k + 1], m - 1)>> \o ArgsAt(entered)[r]

ReadMore(e, k, m, r) ==
  /\ k + 1 \in 0..ARG_MAX
  /\ \E g \in [1..k + 1 -> 1..lineLength + 1] :
       /\ g[k + 1] = m /\ \A j \in 1..k : g[j] = e[j]
       /\ SplitAt(entered, argv, g, k + 1, r)

LEMMA ArgRead ==
  ASSUME MshTypes, NEW k \in 0..ARG_MAX, NEW i \in 1..lineLength + 2,
         NEW e \in [1..k -> 1..lineLength + 1], SplitAt(entered, argv, e, k, i),
         k + 1 = Len(argv), NEW m \in 1..lineLength + 1, NEW r \in 1..lineLength + 2,
         Followed(k, i, m, r)
  PROVE  ReadMore(e, k, m, r)
  <1> DEFINE g == [j \in 1..k + 1 |-> IF j = k + 1 THEN m ELSE e[j]]
  <1>1. /\ lineLength = Len(entered) /\ lineLength \in Nat /\ entered \in Seq(Char)
        /\ ARG_MAX \in Nat
    BY LineFacts
  <1>2. argv \in Seq(1..lineLength + 1) /\ Len(argv) <= ARG_MAX
    BY DEF MshTypes
  <1>3. k \in Nat /\ k + 1 \in 0..ARG_MAX /\ k + 1 <= Len(argv)
    BY <1>1, <1>2
  <1>4. \A j \in 1..k + 1 : g[j] \in 1..lineLength + 1
    <2> SUFFICES ASSUME NEW j \in 1..k + 1 PROVE g[j] \in 1..lineLength + 1
      OBVIOUS
    <2>1. CASE j = k + 1
      BY <2>1
    <2>2. CASE j # k + 1
      <3>1. j \in 1..k
        BY <1>3, <2>2
      <3> QED BY <2>2, <3>1
    <2> QED BY <2>1, <2>2
  <1>5. g \in [1..k + 1 -> 1..lineLength + 1]
    BY <1>4
  <1>6. g[k + 1] = m /\ \A j \in 1..k : g[j] = e[j]
    BY <1>3
  <1>7. SplitAt(entered, argv, g, k + 1, r)
    <2>1. /\ argv \in Seq(1..Len(entered) + 1) /\ e \in [1..k -> 1..Len(entered) + 1]
          /\ m \in 1..Len(entered) + 1
          /\ i \in 1..Len(entered) + 2 /\ r \in 1..Len(entered) + 2
      BY <1>1, <1>2
    <2> QED BY <1>1, <1>3, <2>1, SplitMore DEF Followed
  <1> HIDE DEF g
  <1> QED BY <1>3, <1>5, <1>6, <1>7 DEF ReadMore

LEMMA InWordOK == ASSUME LineIInv, InWord PROVE LineIInv'
  <1>1. MshTypes /\ lineAt = "word" /\ called = <<>> /\ Named
    BY DEF LineIInv, InWord
  <1>2. UNCHANGED <<entered, cmd, argv, called>> /\ lineLength' = lineLength
    BY DEF InWord, GotoLoop, KeepCells, lineLength
  <1>3. CalledWithArgs' /\ Named'
    BY <1>1, <1>2 DEF CalledWithArgs, Named
  <1>4. PICK k \in 0..ARG_MAX, i \in 1..lineLength + 2 :
          \E e \in [1..k -> 1..lineLength + 1] : ReadTo(e, k, i)
    BY <1>1 DEF LineIInv, ArgsSplit
  <1>5. PICK e \in [1..k -> 1..lineLength + 1] : ReadTo(e, k, i)
    BY <1>4
  <1>6. k + 1 = Len(argv) /\ i = argv[k + 1] /\ WordFrom(i)
    BY <1>1, <1>5 DEF StandsAt, ReadTo
  <1>7. /\ lineLength \in Nat /\ lineLength = Len(entered) /\ entered \in Seq(Char)
        /\ ptr \in 1..lineLength + 1 /\ Len(argv) \in Nat
        /\ \A j \in ptr..lineLength : cmd[j] = entered[j]
        /\ cmd[lineLength + 1] = Nul
        /\ i \in 1..lineLength + 1
    <2>1. k + 1 \in 1..Len(argv)
      BY <1>1, <1>6, LineFacts
    <2> QED BY <1>1, <1>6, <2>1, LineFacts
  <1>8. CASE ptr <= lineLength /\ ~BlankAt(ptr) /\ MovePtr(1) /\ GotoLoop("word")
    <2>1. /\ ptr' = ptr + 1 /\ lineAt' = "word" /\ ptr' \in 1..lineLength + 1
          /\ entered[ptr] # "blank" /\ cmd[ptr] = entered[ptr]
      BY <1>7, <1>8 DEF MovePtr, GotoLoop, BlankAt
    <2>2. MshTypes'
      <3>1. \A j \in ptr'..lineLength : cmd[j] = entered[j]
        BY <1>7, <2>1
      <3> QED BY <1>1, <1>2, <2>1, <3>1 DEF MshTypes, Places
    <2>3. CutAt(e, k)'
      <3> SUFFICES ASSUME NEW j \in 1..k
                   PROVE  /\ argv[j] <= e[j] /\ e[j] <= ptr' /\ cmd[e[j]] = Nul
                          /\ \A q \in argv[j]..e[j] - 1 : cmd[q] = entered[q]
        BY <1>2 DEF CutAt
      <3>1. /\ argv[j] <= e[j] /\ e[j] <= ptr /\ cmd[e[j]] = Nul
            /\ \A q \in argv[j]..e[j] - 1 : cmd[q] = entered[q]
        BY <1>1, <1>5 DEF CutAt, ReadTo
      <3>2. e[j] \in 1..lineLength + 1
        OBVIOUS
      <3>3. e[j] <= ptr'
        BY <1>7, <2>1, <3>1, <3>2
      <3> QED BY <3>1, <3>3
    <2>4. WordFrom(i)'
      <3>1. i <= ptr' /\ i <= lineLength /\ entered[i] \notin {"blank", "quote"}
        BY <1>6, <1>7, <2>1 DEF WordFrom
      <3>2. \A j \in i..ptr' - 1 : j = ptr \/ j \in i..ptr - 1
        BY <1>7, <2>1
      <3>3. \A j \in i..ptr' - 1 : entered[j] # "blank" /\ cmd[j] = entered[j]
        BY <1>6, <2>1, <3>2 DEF WordFrom
      <3> QED BY <1>2, <3>1, <3>3 DEF WordFrom
    <2>5. StandsAt(k, i)'
      BY <1>2, <1>6, <2>1, <2>4 DEF StandsAt
    <2>6. ArgsSplit'
      BY <1>2, <1>5, <2>3, <2>5 DEF ArgsSplit, ReadTo
    <2> QED BY <1>1, <1>2, <1>3, <2>1, <2>2, <2>6 DEF LineIInv, Starting
  <1>9. ASSUME UNCHANGED ptr, ptr = lineLength + 1 \/ cmd[ptr] = "blank",
               lineAt' \in {"blanks", "call"}, lineAt' = "call" => ptr = lineLength + 1,
               lineAt' = "blanks" => cmd[ptr] = "blank"
        PROVE  LineIInv'
    <2>1. MshTypes'
      BY <1>1, <1>2, <1>9 DEF MshTypes, Places
    <2>2. /\ i \in 1..Len(entered) /\ ptr \in i..Len(entered) + 1
          /\ WordTo(entered, i, ptr)
      <3>1. ptr = lineLength + 1 \/ entered[ptr] = "blank"
        BY <1>7, <1>9
      <3>2. i <= ptr /\ i <= lineLength
        BY <1>6 DEF WordFrom
      <3>3. /\ entered[i] # "blank" /\ entered[i] # "quote"
            /\ \A j \in i..ptr - 1 : entered[j] # "blank"
        BY <1>6 DEF WordFrom
      <3> QED BY <1>7, <3>1, <3>2, <3>3 DEF WordTo
    <2>3. ArgsAt(entered)[i] = <<SubSeq(entered, i, ptr - 1)>> \o ArgsAt(entered)[ptr]
      BY <1>7, <2>2, ArgsWord
    <2>4. PICK m \in 1..lineLength + 1, r \in 1..lineLength + 2 : m = ptr /\ r = ptr
      BY <1>7
    <2>5. Followed(k, i, m, r) /\ SplitAt(entered, argv, e, k, i)
      BY <1>5, <1>6, <2>3, <2>4 DEF ReadTo, Followed
    <2>6. ReadMore(e, k, m, r)
      BY <1>1, <1>6, <2>5, ArgRead
    <2>7. PICK g \in [1..k + 1 -> 1..lineLength + 1] :
            /\ g[k + 1] = m /\ \A j \in 1..k : g[j] = e[j]
            /\ SplitAt(entered, argv, g, k + 1, r)
      BY <2>6 DEF ReadMore
    <2>8. CutAt(g, k + 1)'
      <3> SUFFICES ASSUME NEW j \in 1..k + 1
                   PROVE  /\ argv[j] <= g[j] /\ g[j] <= ptr
                          /\ \/ cmd[g[j]] = Nul
                             \/ lineAt' = "blanks" /\ g[j] = ptr /\ cmd[ptr] = "blank"
                          /\ \A q \in argv[j]..g[j] - 1 : cmd[q] = entered[q]
        BY <1>2, <1>9 DEF CutAt
      <3>1. CASE j = k + 1
        <4>1. g[j] = ptr /\ argv[j] = i
          BY <1>6, <2>4, <2>7, <3>1
        <4>2. i <= ptr /\ \A q \in i..ptr - 1 : cmd[q] = entered[q]
          BY <1>6 DEF WordFrom
        <4>3. cmd[ptr] = Nul \/ (lineAt' = "blanks" /\ cmd[ptr] = "blank")
          BY <1>7, <1>9
        <4>4. g[j] <= ptr
          BY <1>7, <4>1
        <4>5. \A q \in argv[j]..g[j] - 1 : cmd[q] = entered[q]
          BY <4>1, <4>2
        <4> QED BY <4>1, <4>2, <4>3, <4>4, <4>5
      <3>2. CASE j # k + 1
        <4>1. j \in 1..k
          BY <3>2
        <4>2. /\ argv[j] <= e[j] /\ e[j] <= ptr /\ cmd[e[j]] = Nul
              /\ \A q \in argv[j]..e[j] - 1 : cmd[q] = entered[q]
          BY <1>1, <1>5, <4>1 DEF CutAt, ReadTo
        <4> QED BY <2>7, <4>1, <4>2
      <3> QED BY <3>1, <3>2
    <2>9. StandsAt(k + 1, r)'
      <3>1. r = ptr' /\ k + 1 = Len(argv') /\ (lineAt' = "call" => r > lineLength')
        BY <1>2, <1>6, <1>7, <1>9, <2>4
      <3> QED BY <1>9, <3>1 DEF StandsAt
    <2>10. ReadTo(g, k + 1, r)'
      BY <1>2, <2>7, <2>8, <2>9 DEF ReadTo
    <2>11. ArgsSplit'
      BY <1>2, <2>6, <2>10 DEF ArgsSplit, ReadMore
    <2> QED BY <1>1, <1>2, <1>3, <1>9, <2>1, <2>11 DEF LineIInv, Starting
  <1>10. CASE ptr <= lineLength /\ BlankAt(ptr) /\ UNCHANGED ptr /\ GotoLoop("blanks")
    BY <1>9, <1>10 DEF GotoLoop, BlankAt
  <1>11. CASE ptr > lineLength /\ UNCHANGED ptr /\ GotoLoop("call")
    <2>1. ptr = lineLength + 1
      BY <1>7, <1>11
    <2> QED BY <1>9, <1>11, <2>1 DEF GotoLoop
  <1> QED BY <1>8, <1>10, <1>11 DEF InWord

LEMMA InStringOK == ASSUME LineIInv, InString PROVE LineIInv'
  <1>1. MshTypes /\ lineAt = "string" /\ called = <<>> /\ Named
    BY DEF LineIInv, InString
  <1>2. UNCHANGED <<entered, argv, called>> /\ lineLength' = lineLength
    BY DEF InString, GotoLoop, lineLength
  <1>3. CalledWithArgs' /\ Named'
    BY <1>1, <1>2 DEF CalledWithArgs, Named
  <1>4. PICK k \in 0..ARG_MAX, i \in 1..lineLength + 2 :
          \E e \in [1..k -> 1..lineLength + 1] : ReadTo(e, k, i)
    BY <1>1 DEF LineIInv, ArgsSplit
  <1>5. PICK e \in [1..k -> 1..lineLength + 1] : ReadTo(e, k, i)
    BY <1>4
  <1>6. k + 1 = Len(argv) /\ i + 1 = argv[k + 1] /\ StringFrom(i + 1)
    BY <1>1, <1>5 DEF StandsAt, ReadTo
  <1>7. /\ lineLength \in Nat /\ lineLength = Len(entered) /\ entered \in Seq(Char)
        /\ ptr \in 1..lineLength + 1 /\ Len(argv) \in Nat
        /\ \A j \in ptr..lineLength : cmd[j] = entered[j]
        /\ cmd[lineLength + 1] = Nul /\ Nul # "quote"
        /\ \A j \in 1..lineLength : entered[j] # Nul
    BY <1>1, LineFacts
  <1>8. /\ i + 1 \in 2..ptr /\ entered[i] = "quote"
        /\ \A j \in i + 1..ptr - 1 : ~Closes(entered, j) /\ cmd[j] = entered[j]
        /\ ptr <= lineLength /\ entered[ptr] = "quote" => Closes(entered, ptr)
    <2>1. i + 1 - 1 = i
      BY <1>7
    <2> QED BY <1>6, <2>1 DEF StringFrom
  <1>9. ASSUME NEW j \in 1..k
        PROVE  /\ argv[j] <= e[j] /\ e[j] <= ptr /\ cmd[e[j]] = Nul
               /\ e[j] \in 1..lineLength + 1 /\ argv[j] \in 1..lineLength + 1
               /\ \A q \in argv[j]..e[j] - 1 : cmd[q] = entered[q]
    <2>1. /\ argv[j] <= e[j] /\ e[j] <= ptr /\ cmd[e[j]] = Nul
          /\ \A q \in argv[j]..e[j] - 1 : cmd[q] = entered[q]
      BY <1>1, <1>5 DEF CutAt, ReadTo
    <2>2. j \in 1..Len(argv)
      BY <1>6
    <2> QED BY <1>1, <2>1, <2>2, LineFacts
  \* Further into the string.
  <1>10. CASE /\ ptr <= lineLength /\ cmd[ptr] # "quote"
              /\ MovePtr(IF Escaped THEN 2 ELSE 1) /\ UNCHANGED cmd /\ GotoLoop("string")
    <2>1. UNCHANGED cmd /\ lineAt' = "string" /\ cmd[ptr] = entered[ptr]
          /\ entered[ptr] # "quote"
      BY <1>7, <1>10 DEF GotoLoop
    <2>2. ~Closes(entered, ptr)
      BY <2>1 DEF Closes
    <2>3. /\ ptr' \in ptr + 1..lineLength + 1
          /\ \A j \in ptr..ptr' - 1 : ~Closes(entered, j)
          /\ ptr' <= lineLength /\ entered[ptr'] = "quote" => Closes(entered, ptr')
      <3>1. CASE Escaped
        <4>1. ptr' = ptr + 2 /\ cmd[ptr] = "backslash" /\ cmd[ptr + 1] = "quote"
          BY <1>10, <3>1 DEF Escaped, MovePtr
        <4>2. ptr + 1 <= lineLength /\ entered[ptr + 1] = "quote" /\ entered[ptr] = "backslash"
          <5>1. ptr + 1 # lineLength + 1
            BY <1>7, <4>1
          <5>2. ptr + 1 \in ptr..lineLength
            BY <1>7, <1>10, <5>1
          <5> QED BY <1>7, <2>1, <4>1, <5>2
        <4>3. ~Closes(entered, ptr + 1)
          <5>1. ptr + 1 - 1 = ptr
            BY <1>7
          <5>2. Closes(entered, ptr + 1) => entered[ptr + 1 - 1] # "backslash"
            BY <1>7, <5>1 DEF Closes
          <5>3. entered[ptr + 1 - 1] = "backslash"
            BY <4>2, <5>1
          <5> QED BY <5>2, <5>3
        <4>4. ptr' <= lineLength /\ entered[ptr'] = "quote" => Closes(entered, ptr')
          <5>1. ptr' - 1 = ptr + 1
            BY <1>7, <4>1
          <5> QED BY <4>2, <5>1 DEF Closes
        <4>5. \A j \in ptr..ptr' - 1 : j = ptr \/ j = ptr + 1
          BY <1>7, <4>1
        <4> QED BY <1>7, <2>2, <4>1, <4>2, <4>3, <4>4, <4>5, SMTT(30)
      <3>2. CASE ~Escaped
        <4>1. ptr' = ptr + 1
          BY <1>10, <3>2 DEF MovePtr
        <4>2. ptr' <= lineLength /\ entered[ptr'] = "quote" => Closes(entered, ptr')
          <5>1. ptr' - 1 = ptr /\ (ptr' <= lineLength => ptr' \in ptr..lineLength)
            BY <1>7, <4>1
          <5>2. ptr' <= lineLength /\ entered[ptr'] = "quote" => entered[ptr] # "backslash"
            BY <1>7, <2>1, <3>2, <4>1, <5>1 DEF Escaped
          <5> QED BY <5>1, <5>2 DEF Closes
        <4>3. \A j \in ptr..ptr' - 1 : j = ptr
          BY <1>7, <4>1
        <4>4. ptr' \in ptr + 1..lineLength + 1
          BY <1>7, <1>10, <4>1
        <4> QED BY <2>2, <4>2, <4>3, <4>4
      <3> QED BY <3>1, <3>2
    <2>4. MshTypes'
      <3>1. ptr' \in 1..lineLength + 1 /\ \A j \in ptr'..lineLength : cmd[j] = entered[j]
        BY <1>7, <2>3
      <3> QED BY <1>1, <1>2, <2>1, <3>1 DEF MshTypes, Places
    <2>5. CutAt(e, k)'
      <3> SUFFICES ASSUME NEW j \in 1..k
                   PROVE  /\ argv[j] <= e[j] /\ e[j] <= ptr' /\ cmd[e[j]] = Nul
                          /\ \A q \in argv[j]..e[j] - 1 : cmd[q] = entered[q]
        BY <1>2, <2>1 DEF CutAt
      <3>1. e[j] <= ptr'
        BY <1>7, <1>9, <2>3
      <3> QED BY <1>9, <3>1
    <2>6. StringFrom(i + 1)'
      <3>1. i + 1 \in 2..ptr' /\ entered[i + 1 - 1] = "quote"
        BY <1>7, <1>8, <2>3
      <3>0. PICK p \in ptr + 1..lineLength + 1 : p = ptr'
        BY <2>3
      <3>2. ASSUME NEW j \in i + 1..p - 1
            PROVE  ~Closes(entered, j) /\ cmd[j] = entered[j]
        <4>1. p \in Int /\ p <= lineLength + 1 /\ ptr \in Int /\ i \in Int /\ lineLength \in Int
          BY <1>7, <3>0
        <4>2. CASE j < ptr
          <5>1. j \in i + 1..ptr - 1
            BY <4>1, <4>2
          <5> QED BY <1>8, <5>1
        <4>3. CASE ~(j < ptr)
          <5>1. j \in ptr..p - 1 /\ j \in ptr..lineLength
            BY <4>1, <4>3
          <5>2. \A q \in ptr..p - 1 : ~Closes(entered, q)
            BY <2>3, <3>0
          <5> QED BY <1>7, <5>1, <5>2
        <4> QED BY <4>2, <4>3
      <3>3. entered' = entered /\ cmd' = cmd /\ lineLength' = lineLength
        BY <1>2, <2>1
      <3>4. ptr' <= lineLength' /\ entered'[ptr'] = "quote" => Closes(entered', ptr')
        BY <2>3, <3>3
      <3>5. \A j \in i + 1..ptr' - 1 : ~Closes(entered', j) /\ cmd'[j] = entered'[j]
        BY <3>0, <3>2, <3>3
      <3>6. i + 1 \in 2..ptr' /\ entered'[i + 1 - 1] = "quote"
        BY <3>1, <3>3
      <3> QED BY <3>4, <3>5, <3>6 DEF StringFrom
    <2>7. StandsAt(k, i)'
      BY <1>2, <1>6, <2>1, <2>6 DEF StandsAt
    <2>8. ArgsSplit'
      BY <1>2, <1>5, <2>5, <2>7 DEF ArgsSplit, ReadTo
    <2> QED BY <1>1, <1>2, <1>3, <2>1, <2>4, <2>8 DEF LineIInv, Starting
  \* Its end, at a quote or with the line.
  <1>11. ASSUME MshTypes', ptr \in ptr' - 1..ptr', lineAt' \in {"blanks", "call"},
                ptr = lineLength + 1 \/ Closes(entered, ptr),
                \A j \in 1..lineLength + 1 : j # ptr => cmd'[j] = cmd[j], cmd'[ptr] = Nul,
                ptr' \in 1..lineLength + 1, ptr = lineLength + 1 => lineAt' = "call",
                ptr <= lineLength => ptr' = ptr + 1,
                ptr < lineLength => lineAt' = "blanks",
                ptr = lineLength => lineAt' = "call"
         PROVE  LineIInv'
    <2>1. /\ i \in 1..Len(entered) /\ ptr \in i + 1..Len(entered) + 1
          /\ StringTo(entered, i, ptr)
      BY <1>7, <1>8, <1>11 DEF StringTo
    <2>2. ArgsAt(entered)[i] = <<SubSeq(entered, i + 1, ptr - 1)>> \o ArgsAt(entered)[ptr + 1]
      BY <1>7, <2>1, ArgsString
    <2>3. PICK m \in 1..lineLength + 1, r \in 1..lineLength + 2 : m = ptr /\ r = ptr + 1
      BY <1>7
    <2>4. Followed(k, i, m, r) /\ SplitAt(entered, argv, e, k, i)
      BY <1>5, <1>6, <2>2, <2>3 DEF ReadTo, Followed
    <2>5. ReadMore(e, k, m, r)
      BY <1>1, <1>6, <2>4, ArgRead
    <2>6. PICK g \in [1..k + 1 -> 1..lineLength + 1] :
            /\ g[k + 1] = m /\ \A j \in 1..k : g[j] = e[j]
            /\ SplitAt(entered, argv, g, k + 1, r)
      BY <2>5 DEF ReadMore
    <2>7. CutAt(g, k + 1)'
      <3> SUFFICES ASSUME NEW j \in 1..k + 1
                   PROVE  /\ argv[j] <= g[j] /\ g[j] <= ptr' /\ cmd'[g[j]] = Nul
                          /\ \A q \in argv[j]..g[j] - 1 : cmd'[q] = entered[q]
        BY <1>2 DEF CutAt
      <3>1. CASE j = k + 1
        <4>1. g[j] = ptr /\ argv[j] = i + 1
          BY <1>6, <2>3, <2>6, <3>1
        <4>2. i + 1 <= ptr /\ ptr <= ptr'
          BY <1>7, <1>8, <1>11
        <4>3. \A q \in i + 1..ptr - 1 : q \in 1..lineLength + 1 /\ q # ptr
          BY <1>7, <1>8
        <4>4. \A q \in i + 1..ptr - 1 : cmd'[q] = entered[q]
          BY <1>8, <1>11, <4>3
        <4> QED BY <1>11, <4>1, <4>2, <4>4
      <3>2. CASE j # k + 1
        <4>1. j \in 1..k
          BY <3>2
        <4>2. /\ argv[j] <= e[j] /\ e[j] <= ptr /\ cmd[e[j]] = Nul /\ g[j] = e[j]
              /\ e[j] \in 1..lineLength + 1 /\ argv[j] \in 1..lineLength + 1
              /\ \A q \in argv[j]..e[j] - 1 : cmd[q] = entered[q]
          BY <1>9, <2>6, <4>1
        <4>3. e[j] <= ptr'
          <5>1. e[j] \in Int /\ ptr \in Int /\ e[j] <= ptr
            BY <1>7, <4>2
          <5>2. ptr' \in Int /\ ptr <= ptr'
            BY <1>7, <1>11
          <5> QED BY <5>1, <5>2
        <4>4. \A q \in argv[j]..e[j] - 1 : q \in 1..lineLength + 1 /\ q # ptr
          <5>1. /\ argv[j] \in 1..lineLength + 1 /\ e[j] \in 1..lineLength + 1
                /\ e[j] <= ptr /\ ptr \in Int /\ lineLength \in Nat
            BY <1>7, <4>2
          <5> QED BY <5>1, SMTT(30)
        <4>5. \A q \in argv[j]..e[j] - 1 : cmd'[q] = entered[q]
          BY <1>11, <4>2, <4>4
        <4>6. cmd'[e[j]] = Nul
          BY <1>11, <4>2
        <4> QED BY <4>2, <4>3, <4>5, <4>6
      <3> QED BY <3>1, <3>2
    <2>8. StandsAt(k + 1, r)'
      <3>1. k + 1 = Len(argv') /\ lineLength' = lineLength
        BY <1>2, <1>6
      <3>2. CASE ptr < lineLength
        <4>1. lineAt' = "blanks" /\ r = ptr'
          BY <1>7, <1>11, <2>3, <3>2
        <4> QED BY <3>1, <4>1 DEF StandsAt
      <3>3. CASE ~(ptr < lineLength)
        <4>1. lineAt' = "call" /\ r > lineLength
          BY <1>7, <1>11, <2>3, <3>3
        <4> QED BY <3>1, <4>1 DEF StandsAt
      <3> QED BY <3>2, <3>3
    <2>9. ReadTo(g, k + 1, r)'
      BY <1>2, <2>6, <2>7, <2>8 DEF ReadTo
    <2>10. ArgsSplit'
      BY <1>2, <2>5, <2>9 DEF ArgsSplit, ReadMore
    <2> QED BY <1>1, <1>2, <1>3, <1>11, <2>10 DEF LineIInv, Starting
  <1>12. CASE ptr > lineLength /\ UNCHANGED <<cmd, ptr>> /\ GotoLoop("call")
    <2>1. ptr = lineLength + 1 /\ UNCHANGED <<cmd, ptr>> /\ lineAt' = "call"
      BY <1>7, <1>12 DEF GotoLoop
    <2>2. MshTypes'
      BY <1>1, <1>2, <2>1 DEF MshTypes, Places
    <2>3. ptr \in ptr' - 1..ptr' /\ ptr' \in 1..lineLength + 1 /\ cmd'[ptr] = Nul /\ ~(ptr <= lineLength) /\ ~(ptr < lineLength)
      BY <1>7, <2>1
    <2> QED BY <1>11, <2>1, <2>2, <2>3
  <1>13. CASE /\ ptr <= lineLength /\ cmd[ptr] = "quote" /\ CutHere /\ MovePtr(1)
              /\ GotoLoop(IF ptr < lineLength THEN "blanks" ELSE "call")
    <2>1. /\ ptr' = ptr + 1 /\ CutHere /\ ptr <= lineLength /\ ptr # lineLength + 1
          /\ lineAt' = IF ptr < lineLength THEN "blanks" ELSE "call"
      BY <1>7, <1>13 DEF GotoLoop, MovePtr
    <2>2. /\ MshTypes'
          /\ \A j \in 1..lineLength + 1 : cmd'[j] = IF j = ptr THEN Nul ELSE cmd[j]
      BY <1>1, <1>2, <2>1, CutTypes DEF Places
    <2>3. Closes(entered, ptr)
      BY <1>7, <1>8, <1>13
    <2>4. ptr \in ptr' - 1..ptr' /\ ptr' \in 1..lineLength + 1 /\ cmd'[ptr] = Nul
      BY <1>7, <2>1, <2>2
    <2>5. ptr = lineLength => ~(ptr < lineLength)
      BY <1>7
    <2> QED BY <1>11, <2>1, <2>2, <2>3, <2>4, <2>5
  <1> QED BY <1>10, <1>12, <1>13 DEF InString

\* An argument is the bytes up to the zero behind it.
LEMMA BytesTo ==
  ASSUME MshTypes, NEW b \in 1..lineLength + 1, NEW e \in 1..lineLength + 1, b <= e,
         cmd[e] = Nul, SameIn(cmd, entered, b, e - 1)
  PROVE  StringAt(b) = SubSeq(entered, b, e - 1)
  <1> DEFINE Is(k) == cmd[k] = Nul /\ \A j \in b..k - 1 : cmd[j] # Nul
             d == CHOOSE k \in b..lineLength + 1 : Is(k)
  <1>1. lineLength \in Nat /\ \A j \in 1..lineLength : entered[j] # Nul
    BY LineFacts
  <1>2. \A j \in b..e - 1 : cmd[j] # Nul
    <2>1. \A j \in b..e - 1 : j \in 1..lineLength
      BY <1>1
    <2> QED BY <1>1, <2>1 DEF SameIn
  <1>3. e \in b..lineLength + 1 /\ Is(e)
    BY <1>1, <1>2
  <1>4. d \in b..lineLength + 1 /\ Is(d)
    BY <1>3
  <1>5. StringAt(b) = SubSeq(cmd, b, d - 1)
    BY DEF StringAt
  <1> HIDE DEF d
  <1>6. d = e
    <2>1. CASE d < e
      <3>1. d \in b..e - 1
        BY <1>1, <1>4, <2>1
      <3> QED BY <1>2, <1>4, <3>1
    <2>2. CASE e < d
      <3>1. e \in b..d - 1
        BY <1>1, <1>4, <2>2
      <3> QED BY <1>4, <3>1
    <2> QED BY <1>1, <1>4, <2>1, <2>2
  <1>7. b \in Int /\ e - 1 \in Int
    BY <1>1
  <1>8. SubSeq(cmd, b, e - 1) = SubSeq(entered, b, e - 1)
    BY <1>7, SameCells
  <1> QED BY <1>5, <1>6, <1>8

\* The first members of a list.
LEMMA InitialPart ==
  ASSUME NEW S, NEW f \in Seq(S), NEW R \in Seq(S)
  PROVE  /\ f = SubSeq(f \o R, 1, Len(f)) /\ Len(f \o R) = Len(f) + Len(R)
         /\ f # <<>> => (f \o R)[1] = f[1] /\ Len(f) # 0
  <1> DEFINE g == f \o R
             h == SubSeq(g, 1, Len(f))
  <1>1. Len(f) \in Nat /\ Len(R) \in Nat
    BY LenProperties
  <1>2. /\ g \in Seq(S) /\ Len(g) = Len(f) + Len(R)
        /\ \A i \in 1..Len(f) + Len(R) : g[i] = IF i <= Len(f) THEN f[i] ELSE R[i - Len(f)]
    BY ConcatProperties
  <1> HIDE DEF g
  <1>3. \A i \in 1..Len(f) : i \in 1..Len(f) + Len(R) /\ i <= Len(f)
    BY <1>1
  <1>4. \A i \in 1..Len(f) : g[i] = f[i]
    BY <1>2, <1>3
  <1>5. \A i \in 1..Len(f) : g[i] \in S
    BY <1>4, ElementOfSeq
  <1>6. 1 \in Int /\ Len(f) \in Int
    BY <1>1
  <1>7. /\ h \in Seq(S) /\ Len(h) = IF 1 <= Len(f) THEN Len(f) - 1 + 1 ELSE 0
        /\ \A i \in 1..Len(f) - 1 + 1 : h[i] = g[1 + i - 1]
    BY <1>5, <1>6, SubSeqProperties
  <1> HIDE DEF h
  <1>8. Len(h) = Len(f) /\ Len(f) - 1 + 1 = Len(f) /\ \A i \in 1..Len(f) : 1 + i - 1 = i
    BY <1>1, <1>7
  <1>9. \A i \in 1..Len(h) : h[i] = f[i]
    BY <1>4, <1>7, <1>8
  <1>10. h = f
    BY <1>7, <1>8, <1>9, SeqEqual
  <1>11. f # <<>> => Len(f) # 0 /\ 1 \in 1..Len(f)
    BY <1>1, EmptySeq
  <1>12. f # <<>> => g[1] = f[1]
    BY <1>4, <1>11
  <1> QED BY <1>2, <1>10, <1>11, <1>12 DEF g, h

LEMMA CallOK == ASSUME LineIInv, CallCommand PROVE LineIInv'
  <1>1. MshTypes /\ lineAt = "call" /\ Named
    BY DEF LineIInv, CallCommand
  <1>2. /\ UNCHANGED <<entered, cmd, ptr, argv>> /\ lineLength' = lineLength /\ lineAt' = "done"
        /\ called' = [j \in 1..Len(argv) |-> StringAt(argv[j])]
    BY DEF CallCommand, lineLength
  <1>3. MshTypes'
    BY <1>1, <1>2 DEF MshTypes, Places
  <1>4. PICK k \in 0..ARG_MAX, i \in 1..lineLength + 2 :
          \E e \in [1..k -> 1..lineLength + 1] : ReadTo(e, k, i)
    BY <1>1 DEF LineIInv, ArgsSplit
  <1>5. PICK e \in [1..k -> 1..lineLength + 1] : ReadTo(e, k, i)
    BY <1>4
  <1>6. k = Len(argv) /\ (i > lineLength \/ ArgvFull)
    BY <1>1, <1>5 DEF StandsAt, ReadTo
  <1>7. /\ lineLength \in Nat /\ lineLength = Len(entered) /\ entered \in Seq(Char)
        /\ ARG_MAX \in Nat /\ \A j \in 1..Len(argv) : argv[j] \in 1..lineLength + 1
        /\ Len(argv) <= ARG_MAX /\ Len(argv) \in Nat
    BY <1>1, LineFacts DEF MshTypes
  <1> DEFINE f == [j \in 1..k |-> SubSeq(entered, argv[j], e[j] - 1)]
             R == ArgsAt(entered)[i]
  <1>8. called' = f
    <2>1. ASSUME NEW j \in 1..k PROVE StringAt(argv[j]) = SubSeq(entered, argv[j], e[j] - 1)
      <3>1. /\ argv[j] <= e[j] /\ cmd[e[j]] = Nul
            /\ \A q \in argv[j]..e[j] - 1 : cmd[q] = entered[q]
        BY <1>1, <1>5 DEF CutAt, ReadTo
      <3>2. argv[j] \in 1..lineLength + 1 /\ e[j] \in 1..lineLength + 1
        BY <1>6, <1>7
      <3>3. SameIn(cmd, entered, argv[j], e[j] - 1)
        BY <3>1 DEF SameIn
      <3> QED BY <1>1, <3>1, <3>2, <3>3, BytesTo
    <2> QED BY <1>2, <1>6, <2>1
  <1>9. f \in Seq(Seq(Char)) /\ Len(f) = k
    <2>1. \A j \in 1..k : f[j] = SubSeq(entered, argv[j], e[j] - 1)
      OBVIOUS
    <2>2. f = [j \in 1..k |-> f[j]]
      OBVIOUS
    <2> HIDE DEF f
    <2>3. ASSUME NEW j \in 1..k PROVE f[j] \in Seq(Char)
      <3>1. argv[j] \in 1..lineLength + 1 /\ e[j] \in 1..lineLength + 1
        BY <1>6, <1>7
      <3>2. argv[j] \in Int /\ e[j] - 1 \in Int
        BY <1>7, <3>1
      <3>3. \A q \in argv[j]..e[j] - 1 : q \in 1..Len(entered)
        BY <1>7, <3>1, SMTT(30)
      <3>4. \A q \in argv[j]..e[j] - 1 : entered[q] \in Char
        BY <1>7, <3>3, ElementOfSeq
      <3>5. SubSeq(entered, argv[j], e[j] - 1) \in Seq(Char)
        BY ONLY <3>2, <3>4, SubSeqProperties
      <3> QED BY <2>1, <3>5
    <2>4. f \in [1..k -> Seq(Char)]
      BY <2>2, <2>3
    <2>5. k \in Nat
      BY <1>6, <1>7
    <2> QED BY ONLY <2>4, <2>5
  <1>10. R \in Seq(Seq(Char))
    BY <1>7, ArgsAtOK
  <1>11. ArgsOf(entered) = f \o R
    BY <1>5 DEF ReadTo, SplitAt
  <1>12. i > lineLength => R = <<>>
    BY <1>7, ArgsBehind
  <1> HIDE DEF f, R
  <1>13. /\ f = SubSeq(ArgsOf(entered), 1, Len(f))
         /\ Len(ArgsOf(entered)) = Len(f) + Len(R)
         /\ f # <<>> => ArgsOf(entered)[1] = f[1]
    <2> DEFINE S == Seq(Char)
    <2>1. f \in Seq(S) /\ R \in Seq(S)
      BY <1>9, <1>10
    <2> HIDE DEF S
    <2>2. /\ f = SubSeq(f \o R, 1, Len(f)) /\ Len(f \o R) = Len(f) + Len(R)
          /\ f # <<>> => (f \o R)[1] = f[1] /\ Len(f) # 0
      BY <2>1, InitialPart
    <2> QED BY <1>11, <2>2
  <1>14. Len(f) = IF Len(ArgsOf(entered)) < ARG_MAX THEN Len(ArgsOf(entered)) ELSE ARG_MAX
    <2>1. Len(R) \in Nat /\ Len(f) \in Nat /\ Len(f) <= ARG_MAX
      BY <1>6, <1>7, <1>9, <1>10, LenProperties
    <2>2. CASE i > lineLength
      <3>1. Len(R) = 0
        BY <1>12, <2>2
      <3>2. Len(ArgsOf(entered)) = Len(f)
        BY <1>13, <2>1, <3>1
      <3> QED BY <1>7, <2>1, <3>2
    <2>3. CASE ArgvFull
      <3>1. Len(f) = ARG_MAX
        BY <1>6, <1>7, <1>9, <2>1, <2>3 DEF ArgvFull
      <3>2. Len(ArgsOf(entered)) \in Nat /\ ~(Len(ArgsOf(entered)) < ARG_MAX)
        BY <1>7, <1>13, <2>1, <3>1
      <3> QED BY <3>1, <3>2
    <2> QED BY <1>6, <2>2, <2>3
  <1>15. f # <<>> => f[1] \in Table
    BY <1>1, <1>13 DEF Named
  <1>16. CalledWithArgs'
    BY <1>2, <1>8, <1>13, <1>14, <1>15 DEF CalledWithArgs
  <1> QED BY <1>2, <1>3, <1>16 DEF LineIInv, Starting

\* At first nothing is cut.
LEMMA LineStarts == ASSUME LineInit PROVE LineIInv
  <1>1. PICK n \in 0..LineMax : entered \in [1..n -> Char]
    BY DEF LineInit
  <1>2. n \in Nat /\ ARG_MAX \in Nat
    BY LineAssumption
  <1>3. entered \in Seq(Char) /\ Len(entered) = n
    BY <1>1, <1>2
  <1>4. /\ cmd = Append(entered, Nul) /\ ptr = 1 /\ argv = <<>>
        /\ lineAt = "strip" /\ called = <<>> /\ lineLength = n
    BY <1>3 DEF LineInit, lineLength
  <1>5. /\ cmd \in Seq(Char \cup {Nul}) /\ Len(cmd) = n + 1 /\ cmd[n + 1] = Nul
        /\ \A j \in 1..n : cmd[j] = entered[j]
    <2>1. entered \in Seq(Char \cup {Nul}) /\ Nul \in Char \cup {Nul}
      BY <1>3, SeqMonotonic
    <2>2. /\ Append(entered, Nul) \in Seq(Char \cup {Nul})
          /\ Len(Append(entered, Nul)) = Len(entered) + 1
          /\ \A j \in 1..Len(entered) : Append(entered, Nul)[j] = entered[j]
          /\ Append(entered, Nul)[Len(entered) + 1] = Nul
      BY <2>1, AppendProperties
    <2> QED BY <1>3, <1>4, <2>2
  <1>6. MshTypes
    BY <1>2, <1>3, <1>4, <1>5 DEF MshTypes, Places
  <1>7. ArgsSplit
    <2> DEFINE e == [j \in 1..0 |-> 1]
    <2>1. e \in [1..0 -> 1..lineLength + 1]
      BY <1>2, <1>4
    <2>2. CutAt(e, 0) /\ StandsAt(0, 1)
      BY <1>4 DEF CutAt, StandsAt
    <2>3. 1 \in 1..Len(entered) + 2
      BY <1>2, <1>3
    <2>4. ArgsAt(entered)[1] \in Seq(Seq(Char))
      BY <1>3, <2>3, ArgsAtOK
    <2>5. [j \in 1..0 |-> SubSeq(entered, argv[j], e[j] - 1)] = <<>>
      OBVIOUS
    <2>6. SplitAt(entered, argv, e, 0, 1)
      <3>1. <<>> \o ArgsAt(entered)[1] = ArgsAt(entered)[1]
        BY <2>4, ConcatEmptySeq
      <3> QED BY <2>5, <3>1 DEF SplitAt, ArgsOf
    <2> HIDE DEF e
    <2>7. 0 \in 0..ARG_MAX /\ 1 \in 1..lineLength + 2
      BY <1>2, <1>4
    <2> QED BY <2>1, <2>2, <2>6, <2>7 DEF ArgsSplit, ReadTo
  <1> QED BY <1>4, <1>6, <1>7 DEF LineIInv, Starting, CalledWithArgs

\* The inductive invariant of a call on a line holds, for any commands, number
\* of arguments and length of lines (components/finsh/msh.c).
THEOREM LineInvariance == LineSpec => []LineIInv
  <1>1. LineInit => LineIInv
    BY LineStarts
  <1>2. LineIInv /\ [LineNext]_mshVars => LineIInv'
    <2> SUFFICES ASSUME LineIInv, [LineNext]_mshVars PROVE LineIInv'
      OBVIOUS
    <2>1. CASE Strip          BY <2>1, StripOK
    <2>2. CASE LookupCommand  BY <2>2, LookupOK
    <2>3. CASE Blanks         BY <2>3, BlanksOK
    <2>4. CASE Token          BY <2>4, TokenOK
    <2>5. CASE InString       BY <2>5, InStringOK
    <2>6. CASE InWord         BY <2>6, InWordOK
    <2>7. CASE CallCommand    BY <2>7, CallOK
    <2>8. CASE UNCHANGED mshVars
      <3>1. MshTypes' /\ Starting' /\ CalledWithArgs'
        BY <2>8 DEF mshVars, LineIInv, MshTypes, Starting, CalledWithArgs, lineLength
      <3>2. ArgsSplit' = ArgsSplit
        BY <2>8 DEF mshVars, ArgsSplit, ReadTo, CutAt, StandsAt, WordFrom, StringFrom,
                    ArgvFull, lineLength
      <3>3. Named' = Named
        BY <2>8 DEF mshVars, Named
      <3> QED BY <2>8, <3>1, <3>2, <3>3 DEF mshVars, LineIInv
    <2> QED BY <2>1, <2>2, <2>3, <2>4, <2>5, <2>6, <2>7, <2>8 DEF LineNext
  <1> QED BY <1>1, <1>2, PTL DEF LineSpec

\* A command gets the arguments of its line as they were typed, the first ARG_MAX
\* of them, and is called by its own name (msh_split, _msh_exec_cmd).
THEOREM CommandsGetArgs == LineSpec => []CalledWithArgs
  <1>1. LineIInv => CalledWithArgs
    BY DEF LineIInv
  <1> QED BY <1>1, LineInvariance, PTL

-----------------------------------------------------------------------------
(* PathsOrNone. *)

\* f goes from base by the functions of st, one after the other.
Follows(n, base, st, f) ==
  f[0] = base /\ \A i \in 1..n : f[i] = st[i][f[i - 1]]

\* There is a sequence of what a loop leaves behind each of its rounds.
LEMMA RoundsExist ==
  ASSUME NEW n \in Nat, NEW D, NEW base \in D, NEW st \in [1..n -> [D -> D]]
  PROVE  \E f \in [0..n -> D] : Follows(n, base, st, f)
  <1> DEFINE T == {k \in 0..n : \E f \in [0..k -> D] : Follows(k, base, st, f)}
  <1>1. 0 \in T
    <2> DEFINE f == [i \in 0..0 |-> base]
    <2>1. f \in [0..0 -> D] /\ f[0] = base /\ \A i \in 1..0 : FALSE
      OBVIOUS
    <2> HIDE DEF f
    <2>2. Follows(0, base, st, f)
      BY <2>1 DEF Follows
    <2> QED BY <2>1, <2>2
  <1>2. ASSUME NEW k \in 0..(n - 1), k \in T PROVE k + 1 \in T
    <2>1. PICK f \in [0..k -> D] : Follows(k, base, st, f)
      BY <1>2
    <2> DEFINE x == st[k + 1][f[k]]
               g == [i \in 0..k + 1 |-> IF i = k + 1 THEN x ELSE f[i]]
    <2>2. x \in D
      <3>1. k + 1 \in 1..n /\ k \in 0..k
        OBVIOUS
      <3> QED BY <2>1, <3>1
    <2> HIDE DEF x
    <2>3. g \in [0..k + 1 -> D]
      <3>1. \A i \in 0..k + 1 : i = k + 1 \/ i \in 0..k
        OBVIOUS
      <3> QED BY <2>1, <2>2, <3>1
    <2>4. g[0] = base
      BY <2>1 DEF Follows
    <2>5. \A i \in 1..k + 1 : g[i] = st[i][g[i - 1]]
      <3> SUFFICES ASSUME NEW i \in 1..k + 1 PROVE g[i] = st[i][g[i - 1]]
        OBVIOUS
      <3>1. i - 1 \in 0..k + 1 /\ i - 1 # k + 1 /\ i \in 0..k + 1
        OBVIOUS
      <3>2. g[i - 1] = f[i - 1]
        BY <3>1
      <3>3. CASE i = k + 1
        <4>1. g[i] = x /\ i - 1 = k
          BY <3>3
        <4> QED BY <3>2, <3>3, <4>1 DEF x
      <3>4. CASE i # k + 1
        <4>1. g[i] = f[i] /\ i \in 1..k
          BY <3>4
        <4> QED BY <2>1, <3>2, <4>1 DEF Follows
      <3> QED BY <3>3, <3>4
    <2> HIDE DEF g
    <2>6. Follows(k + 1, base, st, g)
      BY <2>4, <2>5 DEF Follows
    <2> QED BY <2>3, <2>6
  <1>3. T \in SUBSET (0..n)
    OBVIOUS
  <1> HIDE DEF T
  <1>4. T = 0..n
    BY <1>1, <1>2, <1>3, UpTo
  <1>5. n \in T
    BY <1>4
  <1> QED BY <1>5 DEF T

\* A set of numbers up to n has a greatest.
LEMMA GreatestExists ==
  ASSUME NEW n \in Nat, NEW S \in SUBSET (0..n), S # {}
  PROVE  \E m \in S : \A j \in S : j <= m
  <1> DEFINE R == {k \in 0..n : n - k \in S}
  <1>1. R \in SUBSET Nat /\ R # {}
    <2>1. PICK i \in S : TRUE
      OBVIOUS
    <2>2. PICK k \in 0..n : k = n - i
      <3>1. n - i \in 0..n /\ n - (n - i) = i
        OBVIOUS
      <3> QED BY <3>1
    <2>3. k \in R
      <3>1. n - k = i
        BY <2>2
      <3> QED BY <3>1
    <2> QED BY <2>3
  <1>2. PICK r \in R : \A q \in R : r <= q
    BY <1>1, LeastOK
  <1>3. n - r \in S
    BY <1>2
  <1>4. ASSUME NEW j \in S PROVE j <= n - r
    <2>1. n - j \in 0..n /\ n - (n - j) = j
      OBVIOUS
    <2>2. n - j \in R
      BY <2>1
    <2>3. r <= n - j /\ r \in 0..n
      BY <1>2, <2>2
    <2> QED BY <2>3
  <1> QED BY <1>3, <1>4

-----------------------------------------------------------------------------
(* What dfs_normalize_path works on. *)

Chars == Seq(PathChar)
PathsOrNone == Chars \cup {none}

LEMMA SlashIsChar == <<"/">> \in Chars /\ <<>> \in Chars
  <1>1. "/" \in PathChar
    BY DEF PathChar
  <1>2. ASSUME NEW S, NEW x \in S PROVE <<x>> \in Seq(S) /\ <<>> \in Seq(S)
    OBVIOUS
  <1> QED BY <1>1, <1>2 DEF Chars

\* Up one is a path, or nothing.
LEMMA UpOneOK ==
  ASSUME NEW d \in Chars
  PROVE  UpOne(d) \in PathsOrNone
  <1>1. CASE d = <<>>
    BY <1>1 DEF UpOne, PathsOrNone
  <1>2. CASE d # <<>>
    <2> DEFINE S == {i \in 1..Len(d) - 1 : d[i] = "/"} \cup {0}
               m == CHOOSE i \in S : \A j \in S : j <= i
    <2>1. Len(d) \in Nat /\ S \in SUBSET (0..Len(d)) /\ S # {}
      BY DEF Chars
    <2>2. \E i \in S : \A j \in S : j <= i
      BY <2>1, GreatestExists
    <2>3. UpOne(d) = SubSeq(d, 1, m)
      BY <1>2 DEF UpOne
    <2> HIDE DEF S
    <2>4. m \in S
      BY <2>2
    <2> HIDE DEF m
    <2>5. m \in 0..Len(d)
      BY <2>1, <2>4
    <2>6. SubSeq(d, 1, m) \in Chars
      BY <2>1, <2>5 DEF Chars
    <2> QED BY <2>3, <2>6 DEF PathsOrNone
  <1> QED BY <1>1, <1>2

\* A round leaves a path, or nothing.
LEMMA RoundOK ==
  ASSUME NEW p \in Seq(Chars), NEW d \in PathsOrNone, NEW i \in 1..Len(p)
  PROVE  Round(p, d, i) \in PathsOrNone
  <1>1. p[i] \in Chars
    OBVIOUS
  <1>2. d # none => d \in Chars
    BY DEF PathsOrNone
  <1>3. (IF i < Len(p) THEN <<"/">> ELSE <<>>) \in Chars
    BY SlashIsChar DEF Chars
  <1>4. d # none => d \o p[i] \o (IF i < Len(p) THEN <<"/">> ELSE <<>>) \in Chars
    BY <1>1, <1>2, <1>3, ConcatProperties DEF Chars
  <1> QED BY <1>2, <1>4, UpOneOK DEF Round, PathsOrNone

LEMMA TrimmedOK ==
  ASSUME NEW d \in PathsOrNone
  PROVE  Trimmed(d) \in PathsOrNone
  <1>1. d # none => d \in Seq(PathChar) /\ Len(d) \in Nat
    BY DEF PathsOrNone, Chars
  <1>2. d # none /\ Len(d) > 1 => SubSeq(d, 1, Len(d) - 1) \in Seq(PathChar)
    BY <1>1
  <1> QED BY <1>1, <1>2, SlashIsChar DEF Trimmed, PathsOrNone, Chars

\* What the rounds leave is the path so far, or nothing.
LEMMA RoundsAre ==
  ASSUME NEW p \in Seq(Chars)
  PROVE  /\ Rounds(p)[0] = <<>>
         /\ \A i \in 1..Len(p) : Rounds(p)[i] = Round(p, Rounds(p)[i - 1], i)
         /\ \A i \in 0..Len(p) : Rounds(p)[i] \in PathsOrNone
  <1> DEFINE n == Len(p)
             st == [i \in 1..n |-> [d \in PathsOrNone |-> Round(p, d, i)]]
             Is(f) == f = [i \in 0..n |-> IF i = 0 THEN <<>> ELSE Round(p, f[i - 1], i)]
             a == Rounds(p)
  <1>1. n \in Nat
    BY LenProperties
  <1>2. st \in [1..n -> [PathsOrNone -> PathsOrNone]]
    BY RoundOK
  <1>3. <<>> \in PathsOrNone
    BY SlashIsChar DEF PathsOrNone
  <1>4. \A i \in 1..n : \A d \in PathsOrNone : st[i][d] = Round(p, d, i)
    OBVIOUS
  <1> HIDE DEF st
  <1>5. PICK g \in [0..n -> PathsOrNone] : Follows(n, <<>>, st, g)
    BY <1>1, <1>2, <1>3, RoundsExist
  <1>6. \A i \in 1..n : i - 1 \in 0..n /\ i # 0 /\ i \in 0..n
    BY <1>1
  <1>7. \A i \in 0..n : i = 0 \/ i \in 1..n
    BY <1>1
  <1>8. \A i \in 1..n : g[i] = Round(p, g[i - 1], i)
    BY <1>4, <1>5, <1>6 DEF Follows
  <1>9. Is(g)
    <2> DEFINE h == [i \in 0..n |-> IF i = 0 THEN <<>> ELSE Round(p, g[i - 1], i)]
    <2>1. \A i \in 0..n : h[i] = g[i]
      BY <1>5, <1>7, <1>8 DEF Follows
    <2>2. h = [i \in 0..n |-> h[i]] /\ g = [i \in 0..n |-> g[i]]
      BY <1>5
    <2> HIDE DEF h
    <2>3. g = h
      BY <2>1, <2>2
    <2> QED BY <2>3 DEF h
  <1>10. a = CHOOSE f : Is(f)
    BY DEF Rounds
  <1> HIDE DEF Is, a
  <1>11. Is(a)
    BY <1>9, <1>10
  <1>12. /\ a[0] = <<>>
         /\ \A i \in 1..n : a[i] = Round(p, a[i - 1], i)
    <2> DEFINE h == [i \in 0..n |-> IF i = 0 THEN <<>> ELSE Round(p, a[i - 1], i)]
    <2>1. h[0] = <<>> /\ \A i \in 1..n : h[i] = Round(p, a[i - 1], i)
      BY <1>1, <1>6
    <2> HIDE DEF h
    <2>2. a = h
      BY <1>11 DEF h, Is
    <2> QED BY <2>1, <2>2
  <1> DEFINE T == {k \in 0..n : a[k] \in PathsOrNone}
  <1>13. 0 \in T
    BY <1>1, <1>3, <1>12
  <1>14. ASSUME NEW k \in 0..(n - 1), k \in T PROVE k + 1 \in T
    <2>1. k + 1 \in 1..n /\ k + 1 - 1 = k /\ k + 1 \in 0..n
      BY <1>1
    <2>2. a[k + 1] = Round(p, a[k], k + 1)
      BY <1>12, <2>1
    <2>3. a[k + 1] \in PathsOrNone
      BY <1>14, <2>1, <2>2, RoundOK
    <2> QED BY <2>1, <2>3
  <1>15. T \in SUBSET (0..n)
    OBVIOUS
  <1> HIDE DEF T
  <1>16. T = 0..n
    BY <1>1, <1>13, <1>14, <1>15, UpTo
  <1>17. \A i \in 0..n : a[i] \in PathsOrNone
    BY <1>16 DEF T
  <1> QED BY <1>12, <1>17 DEF a

\* What is typed, from the root.
FromRoot(typed) == IF typed[1] = <<>> THEN typed ELSE <<<<>>, <<>>>> \o typed

LEMMA FromRootOK ==
  ASSUME NEW typed \in Seq(Chars), typed # <<>>
  PROVE  /\ FromRoot(typed) \in Seq(Chars) /\ Len(FromRoot(typed)) \in Nat \ {0}
         /\ dfs_normalize_path(typed) = Trimmed(Rounds(FromRoot(typed))[Len(FromRoot(typed))])
  <1>1. <<<<>>, <<>>>> \in Seq(Chars) /\ Len(<<<<>>, <<>>>>) = 2
    BY SlashIsChar
  <1>2. /\ <<<<>>, <<>>>> \o typed \in Seq(Chars)
        /\ Len(<<<<>>, <<>>>> \o typed) = 2 + Len(typed)
    BY <1>1, ConcatProperties
  <1>3. Len(typed) \in Nat \ {0}
    OBVIOUS
  <1> QED BY <1>2, <1>3 DEF FromRoot, dfs_normalize_path

LEMMA NormalizedOK ==
  ASSUME NEW typed \in Seq(Chars), typed # <<>>
  PROVE  dfs_normalize_path(typed) \in PathsOrNone
  <1>1. Len(FromRoot(typed)) \in 0..Len(FromRoot(typed))
    BY FromRootOK
  <1> QED BY <1>1, FromRootOK, RoundsAre, TrimmedOK

-----------------------------------------------------------------------------
(* dfs_filesystem_lookup finds the nearest. *)

\* A finite set of numbers has a greatest.
LEMMA FiniteGreatest ==
  ASSUME NEW S \in SUBSET Nat, IsFiniteSet(S), S # {}
  PROVE  \E m \in S : \A j \in S : j <= m
  <1> DEFINE c == Cardinality(S)
  <1>1. c \in Nat /\ c # 0
    BY FS_CardinalityType, FS_EmptySet
  <1>2. PICK f \in [1..c -> S] : \A x \in S : \E i \in 1..c : f[i] = x
    <2>1. Bijection(1..c, S) # {}
      BY FS_CardinalityType DEF ExistsBijection
    <2> QED BY <2>1 DEF Bijection, Surjection
  <1> HIDE DEF c
  <1> DEFINE T == {k \in 0..c - 1 : \E m \in S : \A i \in 1..k + 1 : f[i] <= m}
  <1>3. 0 \in T
    <2>1. 1 \in 1..c /\ 0 \in 0..c - 1
      BY <1>1
    <2>2. PICK m \in S : m = f[1] /\ m \in Nat
      BY <2>1
    <2>3. \A i \in 1..0 + 1 : f[i] <= m
      <3>1. \A i \in 1..0 + 1 : i = 1
        OBVIOUS
      <3>2. m <= m
        BY <2>2
      <3> QED BY <2>2, <3>1, <3>2
    <2> QED BY <2>1, <2>3
  <1>4. ASSUME NEW k \in 0..(c - 1 - 1), k \in T PROVE k + 1 \in T
    <2>1. PICK m \in S : \A i \in 1..k + 1 : f[i] <= m
      BY <1>4
    <2>2. k + 2 \in 1..c /\ k + 1 \in 0..c - 1
      BY <1>1
    <2>3. f[k + 2] \in S /\ f[k + 2] \in Nat /\ m \in Nat
      BY <2>2
    <2>4. PICK b \in S : m <= b /\ f[k + 2] <= b
      <3>1. m <= f[k + 2] \/ f[k + 2] <= m
        BY <2>3
      <3>2. m <= m /\ f[k + 2] <= f[k + 2]
        BY <2>3
      <3> QED BY <2>1, <2>3, <3>1, <3>2
    <2>5. ASSUME NEW i \in 1..k + 1 + 1 PROVE f[i] <= b
      <3>1. CASE i = k + 2
        BY <2>4, <3>1
      <3>2. CASE i # k + 2
        <4>1. i \in 1..k + 1 /\ i \in 1..c
          BY <1>1, <2>2, <3>2
        <4>2. f[i] <= m /\ f[i] \in Nat /\ b \in Nat
          BY <2>1, <4>1
        <4> QED BY <2>3, <2>4, <4>2
      <3> QED BY <3>1, <3>2
    <2> QED BY <2>2, <2>5
  <1>5. T \in SUBSET (0..c - 1) /\ c - 1 \in Nat
    BY <1>1
  <1> HIDE DEF T
  <1>6. T = 0..c - 1
    BY ONLY <1>3, <1>4, <1>5, UpTo
  <1>7. c - 1 \in T
    BY <1>1, <1>6
  <1>8. PICK m \in S : \A i \in 1..c - 1 + 1 : f[i] <= m
    BY <1>7 DEF T
  <1>9. \A i \in 1..c : f[i] <= m
    BY <1>1, <1>8
  <1> QED BY <1>2, <1>9

\* A path begins with another, as characters.
Begins(m, p) == Len(m) <= Len(p) /\ \A i \in 1..Len(m) : p[i] = m[i]

LEMMA BeginsOK ==
  ASSUME NEW C, NEW m \in Seq(C), NEW p \in Seq(C)
  PROVE  /\ Len(m) <= Len(p) => (SubSeq(p, 1, Len(m)) = m <=> Begins(m, p))
         /\ Begins(m, p) /\ Len(m) = Len(p) => m = p
         /\ Begins(p, p)
  <1>1. Len(m) \in Nat /\ Len(p) \in Nat
    BY LenProperties
  <1>2. CASE Len(m) <= Len(p)
    <2>1. /\ SubSeq(p, 1, Len(m)) \in Seq(C) /\ Len(SubSeq(p, 1, Len(m))) = Len(m)
          /\ \A i \in 1..Len(m) : SubSeq(p, 1, Len(m))[i] = p[i]
      BY <1>1, <1>2
    <2>2. SubSeq(p, 1, Len(m)) = m <=> \A i \in 1..Len(m) : p[i] = m[i]
      BY <2>1, SeqEqual
    <2> QED BY <1>1, <1>2, <2>2, SeqEqual DEF Begins
  <1>3. CASE ~(Len(m) <= Len(p))
    BY <1>1, <1>3 DEF Begins
  <1> QED BY <1>2, <1>3

\* Under, as characters.
LEMMA UnderIs ==
  ASSUME NEW m \in Chars, NEW p \in Chars
  PROVE  Under(m, p) <=> \/ m = Root \/ m = p
                         \/ Len(m) < Len(p) /\ Begins(m, p) /\ p[Len(m) + 1] = "/"
  <1>1. Len(m) \in Nat /\ Len(p) \in Nat /\ Root \in Chars /\ Len(Root) = 1 /\ Root[1] = "/"
    BY SlashIsChar DEF Chars, Root
  <1> DEFINE x == m \o Root
  <1>2. /\ x \in Chars /\ Len(x) = Len(m) + 1
        /\ \A i \in 1..Len(m) + 1 : x[i] = IF i <= Len(m) THEN m[i] ELSE Root[i - Len(m)]
    <2>1. /\ x \in Chars /\ Len(x) = Len(m) + Len(Root)
          /\ \A i \in 1..Len(m) + Len(Root) :
               x[i] = IF i <= Len(m) THEN m[i] ELSE Root[i - Len(m)]
      BY <1>1, ConcatProperties DEF Chars
    <2> HIDE DEF x
    <2> QED BY <1>1, <2>1
  <1> HIDE DEF x
  <1>3. (\A i \in 1..Len(m) : x[i] = m[i]) /\ x[Len(m) + 1] = "/"
    <2>1. \A i \in 1..Len(m) : i \in 1..Len(m) + 1 /\ i <= Len(m)
      BY <1>1
    <2>2. Len(m) + 1 \in 1..Len(m) + 1 /\ ~(Len(m) + 1 <= Len(m)) /\ Len(m) + 1 - Len(m) = 1
      BY <1>1
    <2> QED BY <1>1, <1>2, <2>1, <2>2
  <1>4. Len(m) < Len(p) => (SubSeq(p, 1, Len(x)) = x <=> Begins(x, p))
    BY <1>1, <1>2, BeginsOK DEF Chars
  <1>5. Len(m) < Len(p) => (Begins(x, p) <=> Begins(m, p) /\ p[Len(m) + 1] = "/")
    <2>1. \A i \in 1..Len(m) + 1 : i \in 1..Len(m) \/ i = Len(m) + 1
      BY <1>1
    <2>2. \A i \in 1..Len(m) : i \in 1..Len(m) + 1
      BY <1>1
    <2>3. Len(m) + 1 \in 1..Len(m) + 1
      BY <1>1
    <2>4. Len(m) < Len(p) => Len(m) + 1 <= Len(p) /\ Len(m) <= Len(p)
      BY <1>1
    <2> QED BY <1>2, <1>3, <2>1, <2>2, <2>3, <2>4 DEF Begins
  <1> HIDE DEF x
  <1> QED BY <1>2, <1>4, <1>5 DEF Under, x

\* The comparison of the code says that.
LEMMA BelowIsUnder ==
  ASSUME NEW m \in Chars, NEW p \in Path
  PROVE  IsBelow(m, p) <=> Under(m, p)
  <1>1. p \in Chars /\ Len(p) \in Nat \ {0} /\ p[1] = "/" /\ Len(m) \in Nat
    BY DfsAssumption DEF Chars
  <1>2. IsBelow(m, p) <=> /\ Begins(m, p)
                          /\ Len(m) > 1 /\ Len(p) > Len(m) => p[Len(m) + 1] = "/"
    BY <1>1, BeginsOK DEF IsBelow, Begins, Chars
  <1>3. Root \in Chars /\ Len(Root) = 1 /\ Root[1] = "/"
    BY SlashIsChar DEF Chars, Root
  <1>4. ASSUME Under(m, p) PROVE IsBelow(m, p)
    <2>1. CASE m = Root
      <3>1. Begins(m, p) /\ ~(Len(m) > 1)
        <4>1. Len(m) = 1 /\ m[1] = p[1] /\ \A i \in 1..1 : i = 1
          BY <1>1, <1>3, <2>1
        <4> QED BY <1>1, <4>1 DEF Begins
      <3> QED BY <1>2, <3>1
    <2>2. CASE m = p
      <3>1. Begins(m, p) /\ ~(Len(p) > Len(m))
        BY <1>1, <2>2, BeginsOK DEF Chars
      <3> QED BY <1>2, <3>1
    <2>3. CASE Len(m) < Len(p) /\ Begins(m, p) /\ p[Len(m) + 1] = "/"
      BY <1>2, <2>3
    <2> QED BY <1>1, <1>4, <2>1, <2>2, <2>3, UnderIs
  <1>5. ASSUME IsBelow(m, p) PROVE Under(m, p)
    <2>1. CASE Len(m) = Len(p)
      <3>1. m = p
        BY <1>1, <1>2, <1>5, <2>1, BeginsOK DEF Chars
      <3> QED BY <1>1, <3>1, UnderIs
    <2>2. CASE Len(m) < Len(p) /\ Len(m) > 1
      <3>1. Begins(m, p) /\ p[Len(m) + 1] = "/"
        BY <1>1, <1>2, <1>5, <2>2
      <3> QED BY <1>1, <2>2, <3>1, UnderIs
    <2>3. CASE Len(m) = 1
      <3>1. m[1] = "/"
        BY <1>1, <1>2, <1>5, <2>3 DEF Begins
      <3>2. m = Root
        <4>1. \A i \in 1..Len(m) : m[i] = Root[i]
          BY <1>3, <2>3, <3>1
        <4> QED BY <1>3, <2>3, <4>1, SeqEqual DEF Chars
      <3> QED BY <1>1, <3>2, UnderIs
    <2>4. CASE Len(m) = 0
      <3>1. Begins(m, p) /\ Len(m) < Len(p) /\ p[Len(m) + 1] = "/"
        BY <1>1, <1>2, <1>5, <2>4
      <3> QED BY <1>1, <3>1, UnderIs
    <2>5. Len(m) <= Len(p)
      BY <1>2, <1>5 DEF Begins
    <2>6. \/ Len(m) = 0 \/ Len(m) = 1 \/ Len(m) = Len(p)
          \/ Len(m) < Len(p) /\ Len(m) > 1
      <3>1. PICK a \in Nat, b \in Nat : a = Len(m) /\ b = Len(p)
        BY <1>1
      <3>2. a <= b
        BY <2>5, <3>1
      <3>3. a = 0 \/ a = 1 \/ a = b \/ (a < b /\ a > 1)
        BY <3>2
      <3> QED BY <3>1, <3>3
    <2> QED BY <2>1, <2>2, <2>3, <2>4, <2>6
  <1> QED BY <1>4, <1>5

\* Of two paths that one is under, the shorter leads to the longer.
LEMMA ShorterLeads ==
  ASSUME NEW m \in Chars, NEW b \in Chars, NEW p \in Path,
         Under(m, p), Under(b, p), Len(m) <= Len(b)
  PROVE  Under(m, b)
  <1>1. p \in Chars /\ Len(p) \in Nat /\ Len(m) \in Nat /\ Len(b) \in Nat
    BY DfsAssumption DEF Chars
  <1>2. Begins(m, p) /\ Begins(b, p)
    BY <1>1, BelowIsUnder, BeginsOK DEF IsBelow, Chars
  <1>3. Begins(m, b)
    <2>1. \A i \in 1..Len(m) : i \in 1..Len(b)
      BY <1>1
    <2> QED BY <1>2, <2>1 DEF Begins
  <1>4. CASE Len(m) = Len(b)
    <2>1. m = b
      BY <1>1, <1>3, <1>4, BeginsOK DEF Chars
    <2> QED BY <2>1 DEF Under
  <1>5. CASE Len(m) < Len(b)
    <2>1. Len(m) < Len(p) /\ Len(m) + 1 \in 1..Len(b)
      BY <1>1, <1>2, <1>5 DEF Begins
    <2>2. b[Len(m) + 1] = p[Len(m) + 1]
      BY <1>2, <2>1 DEF Begins
    <2>3. CASE m = Root
      BY <2>3 DEF Under
    <2>4. CASE m # Root
      <3>1. m # p
        BY <1>1, <2>1
      <3>2. p[Len(m) + 1] = "/"
        BY <1>1, <2>4, <3>1, UnderIs
      <3> QED BY <1>3, <1>5, <2>2, <3>2, UnderIs
    <2> QED BY <2>3, <2>4
  <1> QED BY <1>1, <1>4, <1>5

\* The paths of file systems that are mounted, and of mounts under way.
PathsInv ==
  /\ mounted \subseteq {s \in FsSlot : table[s].type # none}
  /\ \A s \in FsSlot : table[s].type # none => table[s].path \in Chars
  /\ \A t \in Mounter : mountPc[t] # "out" =>
       /\ arg[t].typed \in Typed /\ arg[t].path \in Chars
       /\ arg[t].path = dfs_normalize_path(arg[t].typed)

\* What a search gives is the nearest, as FoundNearest has it.
LEMMA SearchNearest ==
  ASSUME PathsInv, NEW p \in Path, LookupPath(p)
  PROVE  /\ found'.slot # none => Under(table[found'.slot].path, p)
         /\ \A s \in mounted : Under(table[s].path, p) =>
              found'.slot # none /\ Under(table[s].path, table[found'.slot].path)
  <1> DEFINE S == {s \in FsSlot : table[s].type # none /\ IsBelow(table[s].path, p)}
             L == {Len(table[s].path) : s \in S}
  <1>1. p \in Chars /\ Len(p) \in Nat
    BY DfsAssumption DEF Chars
  <1>2. \A s \in S : /\ s \in FsSlot /\ table[s].path \in Chars /\ s \in Nat /\ s # none
                     /\ Under(table[s].path, p) /\ Len(table[s].path) \in 0..Len(p)
    <2> SUFFICES ASSUME NEW s \in S
                 PROVE  /\ s \in FsSlot /\ table[s].path \in Chars /\ s \in Nat /\ s # none
                        /\ Under(table[s].path, p) /\ Len(table[s].path) \in 0..Len(p)
      OBVIOUS
    <2>1. s \in FsSlot /\ table[s].path \in Chars /\ IsBelow(table[s].path, p)
      BY DEF PathsInv
    <2>2. Len(table[s].path) \in Nat /\ Len(table[s].path) <= Len(p)
      BY <2>1 DEF IsBelow, Chars
    <2> QED BY <1>1, <2>1, <2>2, BelowIsUnder, DfsAssumption
  <1>3. \A s \in mounted : Under(table[s].path, p) => s \in S
    BY BelowIsUnder DEF PathsInv
  <1>4. found'.slot = IF S = {} THEN none
                      ELSE CHOOSE s \in S : \A r \in S \ {s} : Better(s, r)
    BY DEF LookupPath
  <1> HIDE DEF S
  <1>5. CASE S = {}
    BY <1>3, <1>4, <1>5
  <1>6. CASE S # {}
    <2>1. \E s \in S : \A r \in S \ {s} : Better(s, r)
      <3>1. L \in SUBSET (0..Len(p)) /\ L # {}
        BY <1>2, <1>6
      <3>2. PICK l \in L : \A j \in L : j <= l
        BY <1>1, <3>1, GreatestExists
      <3> DEFINE M == {s \in S : Len(table[s].path) = l}
      <3>3. M \in SUBSET Nat /\ M # {} /\ M \in SUBSET FsSlot
        BY <1>2, <3>2
      <3>4. IsFiniteSet(M)
        BY <3>3, DfsAssumption, FS_Subset
      <3>5. PICK s \in M : \A r \in M : r <= s
        BY <3>3, <3>4, FiniteGreatest
      <3>6. ASSUME NEW r \in S \ {s} PROVE Better(s, r)
        <4>1. s \in S /\ Len(table[s].path) = l
          OBVIOUS
        <4>2. Len(table[r].path) <= l /\ Len(table[r].path) \in Nat /\ l \in Nat
          <5>1. Len(table[r].path) \in L /\ Len(table[r].path) \in 0..Len(p)
            BY <1>2
          <5>2. l \in 0..Len(p)
            BY <3>1, <3>2
          <5>3. Len(table[r].path) <= l
            BY <3>2, <5>1
          <5> QED BY <1>1, <5>1, <5>2, <5>3
        <4>3. r \in Nat /\ s \in Nat /\ r # s
          BY <1>2, <4>1
        <4>4. Len(table[r].path) = l => s > r
          BY <3>5, <4>3
        <4> QED BY <4>1, <4>2, <4>4 DEF Better
      <3> QED BY <3>5, <3>6
    <2>2. PICK b \in S : b = found'.slot /\ \A r \in S \ {b} : Better(b, r)
      BY <1>4, <1>6, <2>1
    <2>3. ASSUME NEW s \in mounted, Under(table[s].path, p)
          PROVE  Under(table[s].path, table[b].path)
      <3>1. s \in S /\ table[s].path \in Chars /\ table[b].path \in Chars
        BY <1>2, <1>3, <2>3
      <3>2. Len(table[s].path) <= Len(table[b].path)
        <4>1. Len(table[s].path) \in Nat /\ Len(table[b].path) \in Nat
          BY <1>2, <3>1
        <4>2. s = b \/ Better(b, s)
          BY <2>2, <3>1
        <4> QED BY <4>1, <4>2 DEF Better
      <3> QED BY <1>2, <2>3, <3>1, <3>2, ShorterLeads
    <2> QED BY <1>2, <2>2, <2>3
  <1> QED BY <1>5, <1>6

\* The path that a mount works with.
LEMMA TypedIs ==
  ASSUME NEW typed \in Typed
  PROVE  /\ typed \in Seq(Seq(NameChar)) /\ typed \in Seq(Chars) /\ typed # <<>>
         /\ dfs_normalize_path(typed) # none => dfs_normalize_path(typed) \in Chars
  <1>1. typed \in Seq(Seq(NameChar)) /\ typed # <<>>
    BY DfsAssumption
  <1>2. Seq(NameChar) \subseteq Chars
    BY SeqMonotonic DEF Chars, PathChar
  <1>3. typed \in Seq(Chars)
    BY <1>1, <1>2, SeqMonotonic
  <1> QED BY <1>1, <1>3, NormalizedOK DEF PathsOrNone

\* What a step of one mount does to its own path, when no entry of the table but
\* its own becomes another one.
LEMMA OnePath ==
  ASSUME PathsInv, NEW t \in Mounter,
         \A u \in Mounter \ {t} : arg'[u] = arg[u] /\ mountPc'[u] = mountPc[u],
         mountPc'[t] # "out" =>
           /\ arg'[t].typed \in Typed /\ arg'[t].path \in Chars
           /\ arg'[t].path = dfs_normalize_path(arg'[t].typed),
         \A s \in FsSlot : table'[s].type # none =>
           \/ table[s].type # none /\ table'[s].path = table[s].path
           \/ table'[s].path \in Chars,
         mounted' \subseteq {s \in FsSlot : table'[s].type # none}
  PROVE  PathsInv'
  <1>1. \A s \in FsSlot : table'[s].type # none => table'[s].path \in Chars
    BY DEF PathsInv
  <1>2. \A u \in Mounter : mountPc'[u] # "out" =>
          /\ arg'[u].typed \in Typed /\ arg'[u].path \in Chars
          /\ arg'[u].path = dfs_normalize_path(arg'[u].typed)
    BY DEF PathsInv
  <1> QED BY <1>1, <1>2 DEF PathsInv

LEMMA PathsBegin == DfsInit => PathsInv
  <1> SUFFICES ASSUME DfsInit PROVE PathsInv
    OBVIOUS
  <1>1. \A s \in FsSlot : table[s].type = none
    BY DEF DfsInit, NoFs
  <1>2. mounted = {} /\ \A t \in Mounter : mountPc[t] = "out"
    BY DEF DfsInit
  <1> QED BY <1>1, <1>2 DEF PathsInv

\* Every step keeps them.
LEMMA PathsKeep ==
  ASSUME MountsInv, MountsInv', PathsInv, [DfsNext]_mountVars
  PROVE  PathsInv'
  <1>1. MountTypes /\ SlotsKept /\ MountTypes' /\ SlotsKept'
    BY DEF MountsInv
  <1>2. mounted' \subseteq {s \in FsSlot : table'[s].type # none}
    BY <1>1 DEF MountTypes, SlotsKept
  <1>3. ASSUME UNCHANGED <<table, mountPc, arg, mounted>> PROVE PathsInv'
    BY <1>3 DEF PathsInv
  <1>4. CASE UNCHANGED mountVars
    BY <1>3, <1>4 DEF mountVars
  <1>5. CASE \E y \in Type : Register(y)
    BY <1>3, <1>5 DEF Register
  <1>6. CASE \E p \in Path : LookupPath(p)
    BY <1>3, <1>6 DEF LookupPath
  <1>7. ASSUME NEW t \in Mounter, NEW y \in Type, NEW typed \in Typed, NEW dev \in Device,
               Mount(t, y, typed, dev)
        PROVE  PathsInv'
    <2> DEFINE x == dfs_normalize_path(typed)
    <2>1. /\ mountPc' = [mountPc EXCEPT ![t] = "slot"] /\ x # none
          /\ arg' = [arg EXCEPT ![t] = [type |-> y, path |-> x, typed |-> typed,
                                        dev |-> dev, slot |-> none]]
          /\ UNCHANGED <<table, mounted>>
      BY <1>7 DEF Mount
    <2>2. x \in Chars
      BY <2>1, TypedIs
    <2> HIDE DEF x
    <2>3. arg'[t].typed = typed /\ arg'[t].path = x
      BY <1>1, <2>1 DEF MountTypes
    <2>4. \A u \in Mounter \ {t} : arg'[u] = arg[u] /\ mountPc'[u] = mountPc[u]
      BY <1>1, <2>1 DEF MountTypes
    <2>5. arg'[t].path = dfs_normalize_path(arg'[t].typed)
      BY <2>3 DEF x
    <2> QED BY <1>2, <2>1, <2>2, <2>3, <2>4, <2>5, OnePath
  <1>8. ASSUME NEW t \in Mounter, Fails(t),
               \A s \in FsSlot : table'[s].type # none =>
                 table[s].type # none /\ table'[s].path = table[s].path
        PROVE  PathsInv'
    <2>1. /\ mountPc'[t] = "out"
          /\ \A u \in Mounter \ {t} : arg'[u] = arg[u] /\ mountPc'[u] = mountPc[u]
      BY <1>1, <1>8 DEF Fails, MountTypes
    <2> QED BY <1>2, <1>8, <2>1, OnePath
  <1>9. ASSUME NEW t \in Mounter, TakeSlot(t) PROVE PathsInv'
    <2>1. CASE Fails(t) /\ UNCHANGED table
      BY <1>8, <2>1
    <2>2. CASE ~(Fails(t) /\ UNCHANGED table)
      <3>1. PICK f : f = FirstFree
        OBVIOUS
      <3>2. /\ mountPc[t] = "slot"
            /\ table' = [table EXCEPT ![f] = [path |-> arg[t].path, type |-> arg[t].type,
                                              data |-> FALSE]]
            /\ arg' = [arg EXCEPT ![t].slot = f]
            /\ mountPc' = [mountPc EXCEPT ![t] = IF arg[t].dev THEN "open" ELSE "mount"]
        BY <1>9, <2>2, <3>1 DEF TakeSlot
      <3>3. arg[t].path \in Chars /\ arg[t].typed \in Typed
            /\ arg[t].path = dfs_normalize_path(arg[t].typed)
        BY <3>2 DEF PathsInv
      <3>4. \A u \in Mounter \ {t} : arg'[u] = arg[u] /\ mountPc'[u] = mountPc[u]
        BY <1>1, <3>2 DEF MountTypes
      <3>5. arg'[t].path = arg[t].path /\ arg'[t].typed = arg[t].typed
        <4>1. arg[t] = [type |-> arg[t].type, path |-> arg[t].path, typed |-> arg[t].typed,
                        dev |-> arg[t].dev, slot |-> arg[t].slot]
          BY <1>1 DEF MountTypes
        <4>2. arg'[t] = [arg[t] EXCEPT !.slot = f]
          BY <1>1, <3>2 DEF MountTypes
        <4>3. arg'[t] = [type |-> arg[t].type, path |-> arg[t].path, typed |-> arg[t].typed,
                         dev |-> arg[t].dev, slot |-> f]
          BY <4>1, <4>2
        <4> QED BY <4>3
      <3>6. \A s \in FsSlot : table'[s] = table[s] \/ table'[s].path = arg[t].path
        BY <1>1, <3>2 DEF MountTypes
      <3> QED BY <1>2, <3>3, <3>4, <3>5, <3>6, OnePath
    <2> QED BY <2>1, <2>2
  <1>10. ASSUME NEW t \in Mounter, HasSlot(t), GiveUp(t) PROVE PathsInv'
    <2>1. table' = [table EXCEPT ![arg[t].slot] = NoFs] /\ Fails(t)
      BY <1>10 DEF GiveUp
    <2>2. \A s \in FsSlot : table'[s] = table[s] \/ table'[s] = NoFs
      BY <1>1, <2>1 DEF MountTypes
    <2>3. NoFs.type = none
      BY DEF NoFs
    <2> QED BY <1>8, <2>1, <2>2, <2>3
  <1>11. ASSUME NEW t \in Mounter, OpenDevice(t) PROVE PathsInv'
    <2>1. CASE GiveUp(t)
      BY <1>10, <1>11, <2>1 DEF OpenDevice, HasSlot
    <2>2. CASE ~GiveUp(t)
      <3>1. /\ mountPc[t] = "open" /\ mountPc' = [mountPc EXCEPT ![t] = "mount"]
            /\ UNCHANGED <<table, arg, mounted>>
        BY <1>11, <2>2 DEF OpenDevice
      <3>2. \A u \in Mounter : mountPc'[u] # "out" => mountPc[u] # "out"
        BY <1>1, <3>1 DEF MountTypes
      <3> QED BY <3>1, <3>2 DEF PathsInv
    <2> QED BY <2>1, <2>2
  <1>12. ASSUME NEW t \in Mounter, DoMount(t) PROVE PathsInv'
    <2>1. CASE GiveUp(t)
      BY <1>10, <1>12, <2>1 DEF DoMount, HasSlot
    <2>2. CASE ~GiveUp(t)
      <3>1. table' = [table EXCEPT ![arg[t].slot].data = TRUE] /\ Fails(t)
        BY <1>12, <2>2 DEF DoMount
      <3>2. ASSUME NEW s \in FsSlot
            PROVE  table'[s].type = table[s].type /\ table'[s].path = table[s].path
        <4>1. table[s] = [path |-> table[s].path, type |-> table[s].type, data |-> table[s].data]
          BY <1>1 DEF MountTypes
        <4>2. table'[s] = table[s] \/ table'[s] = [table[s] EXCEPT !.data = TRUE]
          BY <1>1, <3>1 DEF MountTypes
        <4>3. \/ table'[s] = table[s]
              \/ table'[s] = [path |-> table[s].path, type |-> table[s].type, data |-> TRUE]
          BY <4>1, <4>2
        <4> QED BY <4>3
      <3> QED BY <1>8, <3>1, <3>2
    <2> QED BY <2>1, <2>2
  <1> QED BY <1>4, <1>5, <1>6, <1>7, <1>9, <1>11, <1>12 DEF DfsNext

-----------------------------------------------------------------------------
(* What a typed path means. *)

\* How far a part leads down.
Down(w, k) == IF w[k] = DotDot THEN -1 ELSE IF w[k] \in {<<>>, Dot} THEN 0 ELSE 1

LEMMA NotDots == Dot # DotDot /\ Dot # <<>> /\ DotDot # <<>>
  <1>1. Len(Dot) = 1 /\ Len(DotDot) = 2
    BY DEF Dot, DotDot
  <1>2. Len(<<>>) = 0
    OBVIOUS
  <1> QED BY <1>1, <1>2

\* The names and the ways up among some parts are finitely many.
LEMMA PartsFinite ==
  ASSUME NEW w, NEW i \in Int, NEW j \in Int
  PROVE  /\ IsFiniteSet(Names(w, i, j)) /\ IsFiniteSet(Ups(w, i, j))
         /\ Cardinality(Names(w, i, j)) \in Nat /\ Cardinality(Ups(w, i, j)) \in Nat
         /\ Level(w, i, j) \in Int
  <1>1. Names(w, i, j) \subseteq i..j /\ Ups(w, i, j) \subseteq i..j
    BY DEF Names, Ups
  <1>2. IsFiniteSet(Names(w, i, j)) /\ IsFiniteSet(Ups(w, i, j))
    BY <1>1, FS_Interval, FS_Subset
  <1>3. Cardinality(Names(w, i, j)) \in Nat /\ Cardinality(Ups(w, i, j)) \in Nat
    BY <1>2, FS_CardinalityType
  <1> QED BY <1>2, <1>3 DEF Level

\* Two sets that have no member in common.
LEMMA TwoParts ==
  ASSUME NEW A, NEW B, IsFiniteSet(A), IsFiniteSet(B), A \cap B = {}
  PROVE  Cardinality(A \cup B) = Cardinality(A) + Cardinality(B)
  <1>1. Cardinality(A \cup B) = Cardinality(A) + Cardinality(B) - Cardinality(A \cap B)
    BY FS_Union
  <1>2. Cardinality(A \cap B) = 0
    BY FS_EmptySet
  <1>3. Cardinality(A) \in Nat /\ Cardinality(B) \in Nat
    BY FS_CardinalityType
  <1> QED BY <1>1, <1>2, <1>3

\* The parts from i on and those from m on.
LEMMA LevelSum ==
  ASSUME NEW w, NEW i \in Int, NEW j \in Int, NEW m \in i..j + 1
  PROVE  Level(w, i, j) = Level(w, i, m - 1) + Level(w, m, j)
  <1>1. m \in Int /\ m - 1 \in Int
    OBVIOUS
  <1>2. \A k : /\ k \in i..j <=> k \in i..m - 1 \/ k \in m..j
               /\ ~(k \in i..m - 1 /\ k \in m..j)
    OBVIOUS
  <1>3. /\ Names(w, i, j) = Names(w, i, m - 1) \cup Names(w, m, j)
        /\ Names(w, i, m - 1) \cap Names(w, m, j) = {}
        /\ Ups(w, i, j) = Ups(w, i, m - 1) \cup Ups(w, m, j)
        /\ Ups(w, i, m - 1) \cap Ups(w, m, j) = {}
    BY <1>2, Zenon DEF Names, Ups
  <1>4. /\ Cardinality(Names(w, i, j)) = Cardinality(Names(w, i, m - 1)) + Cardinality(Names(w, m, j))
        /\ Cardinality(Ups(w, i, j)) = Cardinality(Ups(w, i, m - 1)) + Cardinality(Ups(w, m, j))
    BY <1>1, <1>3, PartsFinite, TwoParts
  <1>5. /\ Cardinality(Names(w, i, m - 1)) \in Nat /\ Cardinality(Names(w, m, j)) \in Nat
        /\ Cardinality(Ups(w, i, m - 1)) \in Nat /\ Cardinality(Ups(w, m, j)) \in Nat
    BY <1>1, PartsFinite
  <1> QED BY <1>4, <1>5 DEF Level

\* One part, and none.
LEMMA LevelOne ==
  ASSUME NEW w, NEW k \in Int
  PROVE  Level(w, k, k) = Down(w, k)
  <1>1. \A x : x \in k..k <=> x = k
    OBVIOUS
  <1>2. Cardinality({}) = 0 /\ Cardinality({k}) = 1
    BY FS_EmptySet, FS_Singleton
  <1>3. CASE w[k] = DotDot
    <2>1. Names(w, k, k) = {} /\ Ups(w, k, k) = {k}
      BY <1>1, <1>3, Zenon DEF Names, Ups
    <2> QED BY <1>2, <1>3, <2>1 DEF Level, Down
  <1>4. CASE w[k] \in {<<>>, Dot}
    <2>1. Names(w, k, k) = {} /\ Ups(w, k, k) = {} /\ w[k] # DotDot
      BY <1>1, <1>4, NotDots, Zenon DEF Names, Ups
    <2> QED BY <1>2, <1>4, <2>1 DEF Level, Down
  <1>5. CASE w[k] \notin {<<>>, Dot, DotDot}
    <2>1. Names(w, k, k) = {k} /\ Ups(w, k, k) = {}
      BY <1>1, <1>5, Zenon DEF Names, Ups
    <2> QED BY <1>2, <1>5, <2>1 DEF Level, Down
  <1> QED BY <1>3, <1>4, <1>5

LEMMA LevelNone ==
  ASSUME NEW w, NEW i \in Int, NEW j \in Int, j < i
  PROVE  Level(w, i, j) = 0
  <1>1. i..j = {}
    OBVIOUS
  <1>2. Names(w, i, j) = {} /\ Ups(w, i, j) = {}
    BY <1>1 DEF Names, Ups
  <1> QED BY <1>2, FS_EmptySet DEF Level

\* One part more, at the end and at the beginning.
LEMMA LevelSteps ==
  ASSUME NEW w, NEW i \in Int, NEW j \in Int, i <= j
  PROVE  /\ Level(w, i, j) = Level(w, i, j - 1) + Down(w, j)
         /\ Level(w, i, j) = Down(w, i) + Level(w, i + 1, j)
  <1>1. j \in i..j + 1 /\ i + 1 \in i..j + 1 /\ i + 1 - 1 = i
    OBVIOUS
  <1> QED BY <1>1, LevelSum, LevelOne

-----------------------------------------------------------------------------

\* When the parts from a on lead down, one of them is kept.
LEMMA OneKept ==
  ASSUME NEW w, NEW k \in Nat, NEW a \in 1..k, Level(w, a, k) > 0
  PROVE  \E m \in a..k : m \in KeptIn(w, k)
  <1> DEFINE P == {i \in a..k : Level(w, i, k) > 0}
  <1>1. P \in SUBSET (0..k) /\ a \in P
    OBVIOUS
  <1>2. PICK m \in P : \A i \in P : i <= m
    BY <1>1, GreatestExists
  <1>3. m \in a..k /\ m \in Int /\ k \in Int /\ Level(w, m, k) > 0 /\ m \in 1..k
    BY <1>2
  <1>4. ASSUME NEW i \in m + 1..k + 1 PROVE Level(w, i, k) <= 0
    <2>1. CASE i = k + 1
      <3>1. i \in Int /\ k < i
        BY <2>1
      <3>2. Level(w, i, k) = 0
        BY <3>1, LevelNone
      <3> QED BY <3>2
    <2>2. CASE i # k + 1
      <3>1. i \in a..k /\ ~(i <= m) /\ i \in Int
        BY <1>3, <2>2
      <3>2. ~(Level(w, i, k) > 0)
        BY <1>2, <3>1
      <3>3. Level(w, i, k) \in Int
        BY <3>1, PartsFinite
      <3> QED BY <3>2, <3>3
    <2> QED BY <2>1, <2>2
  <1>5. m \in Names(w, 1, k)
    <2>1. Level(w, m, k) = Down(w, m) + Level(w, m + 1, k)
      BY <1>3, LevelSteps
    <2>2. Level(w, m + 1, k) <= 0 /\ Level(w, m + 1, k) \in Int /\ Down(w, m) \in Int
      <3>1. m + 1 \in m + 1..k + 1 /\ m + 1 \in Int
        BY <1>3
      <3> QED BY <1>3, <1>4, <3>1, PartsFinite DEF Down
    <2>3. Down(w, m) > 0
      BY <1>3, <2>1, <2>2
    <2> QED BY <1>3, <2>3 DEF Names, Down
  <1>6. ASSUME NEW j \in m..k PROVE Level(w, m, j) > 0
    <2>1. Level(w, m, k) = Level(w, m, j) + Level(w, j + 1, k)
      <3>1. j + 1 \in m..k + 1 /\ j + 1 - 1 = j
        BY <1>3
      <3> QED BY <1>3, <3>1, LevelSum
    <2>2. Level(w, j + 1, k) <= 0 /\ Level(w, j + 1, k) \in Int /\ Level(w, m, j) \in Int
      <3>1. j + 1 \in m + 1..k + 1 /\ j + 1 \in Int /\ j \in Int
        BY <1>3
      <3> QED BY <1>3, <1>4, <3>1, PartsFinite
    <2> QED BY <1>3, <2>1, <2>2
  <1> QED BY <1>3, <1>5, <1>6 DEF KeptIn

\* What the next part takes back or adds.
LEMMA KeptAfter ==
  ASSUME NEW w, NEW k \in Nat
  PROVE  /\ Down(w, k + 1) = 0 => KeptIn(w, k + 1) = KeptIn(w, k)
         /\ Down(w, k + 1) = 1 => KeptIn(w, k + 1) = KeptIn(w, k) \cup {k + 1}
         /\ Down(w, k + 1) = -1 /\ Level(w, 1, k + 1) >= 0 =>
              \E m \in KeptIn(w, k) : /\ KeptIn(w, k + 1) = KeptIn(w, k) \ {m}
                                      /\ \A i \in m + 1..k : i \notin KeptIn(w, k)
         /\ KeptIn(w, k) \subseteq 1..k
  <1> DEFINE n == k + 1
  <1>1. n \in Nat /\ n - 1 = k /\ k \in Int /\ n \in Int
    OBVIOUS
  <1>2. KeptIn(w, k) \subseteq 1..k
    BY DEF KeptIn, Names
  <1>3. \A i \in 1..n : Level(w, i, n) = Level(w, i, k) + Down(w, n)
    BY <1>1, LevelSteps
  <1>4. \A i \in 1..n : Level(w, i, k) \in Int
    BY <1>1, PartsFinite
  <1>5. \A i \in 1..k : i \in Names(w, 1, n) <=> i \in Names(w, 1, k)
    BY <1>1 DEF Names
  <1>6. \A i \in 1..k : \A j : j \in i..n <=> j \in i..k \/ j = n
    BY <1>1
  <1>7. ASSUME NEW i \in 1..k
        PROVE  i \in KeptIn(w, n) <=> i \in KeptIn(w, k) /\ Level(w, i, n) > 0
    BY <1>5, <1>6, Zenon DEF KeptIn
  <1>8. n \in KeptIn(w, n) <=> Down(w, n) = 1
    <2>1. Level(w, n, n) = Down(w, n) /\ \A j \in n..n : j = n
      BY <1>1, LevelOne
    <2>2. n \in Names(w, 1, n) <=> Down(w, n) = 1
      BY <1>1 DEF Names, Down
    <2>3. n \in KeptIn(w, n) <=> n \in Names(w, 1, n) /\ Level(w, n, n) > 0
      <3>1. n \in n..n
        BY <1>1
      <3> QED BY <2>1, <3>1, Zenon DEF KeptIn
    <2> QED BY <2>1, <2>2, <2>3
  <1>9. KeptIn(w, n) \subseteq 1..n
    BY DEF KeptIn, Names
  <1>10. \A i \in 1..n : i = n \/ i \in 1..k
    BY <1>1
  <1>11. \A i \in KeptIn(w, k) : i \in 1..k /\ Level(w, i, k) > 0
    <2>1. ASSUME NEW i \in KeptIn(w, k) PROVE i \in 1..k /\ Level(w, i, k) > 0
      <3>1. i \in 1..k /\ k \in i..k
        BY <1>2
      <3> QED BY <3>1 DEF KeptIn
    <2> QED BY <2>1
  <1> HIDE DEF n
  <1>12. ~(n \in 1..k)
    BY <1>1
  <1>13. CASE Down(w, n) = 0
    <2>1. \A i \in 1..k : i \in KeptIn(w, n) <=> i \in KeptIn(w, k)
      BY <1>3, <1>4, <1>7, <1>10, <1>11, <1>13, <1>1
    <2>2. n \notin KeptIn(w, n)
      BY <1>8, <1>13
    <2>3. KeptIn(w, n) = KeptIn(w, k)
      BY <1>2, <1>9, <1>10, <2>1, <2>2
    <2> QED BY <1>2, <1>13, <2>3 DEF n
  <1>14. CASE Down(w, n) = 1
    <2>1. \A i \in 1..k : i \in KeptIn(w, n) <=> i \in KeptIn(w, k)
      BY <1>3, <1>4, <1>7, <1>10, <1>11, <1>14, <1>1
    <2>2. n \in KeptIn(w, n)
      BY <1>8, <1>14
    <2>3. KeptIn(w, n) = KeptIn(w, k) \cup {n}
      BY <1>2, <1>9, <1>10, <2>1, <2>2
    <2> QED BY <1>2, <1>14, <2>3 DEF n
  <1>15. CASE Down(w, n) = -1 /\ Level(w, 1, n) >= 0
    <2>1. Level(w, 1, k) > 0 /\ k # 0
      <3>1. 1 \in 1..n
        BY <1>1
      <3>2. Level(w, 1, k) > 0
        BY <1>3, <1>4, <1>15, <3>1
      <3>3. k = 0 => Level(w, 1, k) = 0
        BY LevelNone
      <3> QED BY <3>2, <3>3
    <2>2. KeptIn(w, k) # {} /\ KeptIn(w, k) \in SUBSET (0..k)
      <3>1. 1 \in 1..k
        BY <1>1, <2>1
      <3> QED BY <1>2, <2>1, <3>1, OneKept
    <2>3. PICK m \in KeptIn(w, k) : \A i \in KeptIn(w, k) : i <= m
      BY <2>2, GreatestExists
    <2>4. m \in 1..k /\ Level(w, m, k) > 0 /\ \A i \in m + 1..k : i \notin KeptIn(w, k)
      <3>1. m \in 1..k /\ Level(w, m, k) > 0
        BY <1>11
      <3>2. \A i \in m + 1..k : ~(i <= m)
        BY <3>1
      <3> QED BY <2>3, <3>1, <3>2
    <2>5. Level(w, m, k) = 1
      <3>1. Level(w, m, k) = Down(w, m) + Level(w, m + 1, k)
        BY <1>1, <2>4, LevelSteps
      <3>2. Level(w, m + 1, k) <= 0
        <4>1. CASE m = k
          <5>1. k < m + 1 /\ m + 1 \in Int
            BY <1>1, <2>4, <4>1
          <5>2. Level(w, m + 1, k) = 0
            BY <1>1, <5>1, LevelNone
          <5> QED BY <5>2
        <4>2. CASE m # k
          <5>1. m + 1 \in 1..k /\ m + 1 \in Int
            BY <1>1, <2>4, <4>2
          <5>2. ~(Level(w, m + 1, k) > 0)
            BY <2>4, <5>1, OneKept
          <5>3. Level(w, m + 1, k) \in Int
            BY <1>1, <5>1, PartsFinite
          <5> QED BY <5>2, <5>3
        <4> QED BY <4>1, <4>2
      <3>3. Level(w, m + 1, k) \in Int /\ Down(w, m) \in {-1, 0, 1}
        <4>1. m + 1 \in Int
          BY <2>4
        <4> QED BY <1>1, <4>1, PartsFinite DEF Down
      <3> QED BY <2>4, <3>1, <3>2, <3>3
    <2>6. ASSUME NEW i \in KeptIn(w, k), i # m PROVE Level(w, i, k) > 1
      <3>1. i \in 1..k /\ m \in i..k + 1 /\ i <= m - 1 /\ m - 1 \in i..k
        BY <1>1, <1>11, <2>3, <2>4, <2>6
      <3>2. Level(w, i, k) = Level(w, i, m - 1) + Level(w, m, k)
        BY <1>1, <3>1, LevelSum
      <3>3. Level(w, i, m - 1) > 0
        BY <3>1 DEF KeptIn
      <3>4. Level(w, i, m - 1) \in Int
        BY <1>1, <2>4, <3>1, PartsFinite
      <3> QED BY <2>5, <3>2, <3>3, <3>4
    <2>7. \A i \in 1..k : i \in KeptIn(w, n) <=> i \in KeptIn(w, k) /\ i # m
      <3> SUFFICES ASSUME NEW i \in 1..k
                   PROVE  i \in KeptIn(w, n) <=> i \in KeptIn(w, k) /\ i # m
        OBVIOUS
      <3>1. Level(w, i, n) = Level(w, i, k) - 1 /\ Level(w, i, k) \in Int
        <4>1. i \in 1..n
          BY <1>1
        <4> QED BY <1>3, <1>4, <1>15, <4>1
      <3>2. CASE i = m
        BY <1>7, <2>5, <3>1, <3>2
      <3>3. CASE i # m
        BY <1>7, <2>6, <3>1, <3>3
      <3> QED BY <3>2, <3>3
    <2>8. n \notin KeptIn(w, n)
      BY <1>8, <1>15
    <2>9. KeptIn(w, n) = KeptIn(w, k) \ {m}
      BY <1>2, <1>9, <1>10, <1>12, <2>7, <2>8
    <2> QED BY <1>2, <1>15, <2>3, <2>4, <2>9 DEF n
  <1> QED BY <1>2, <1>13, <1>14, <1>15 DEF n

-----------------------------------------------------------------------------
(* PathsOrNone as texts. *)

\* A path with a slash behind it, and with a name behind that.
Slashed(d) == d \o <<"/">>
Behind(d, x) == d \o <<"/">> \o x

LEMMA SlashedOK ==
  ASSUME NEW d \in Chars
  PROVE  /\ Slashed(d) \in Chars /\ Len(Slashed(d)) = Len(d) + 1 /\ Len(d) \in Nat
         /\ Begins(d, Slashed(d)) /\ Slashed(d)[Len(d) + 1] = "/"
  <1> DEFINE x == Joined(d, Root)
  <1>1. Len(d) \in Nat /\ Root \in Chars /\ Len(Root) = 1 /\ Root[1] = "/"
    BY SlashIsChar DEF Chars, Root
  <1>2. /\ x \in Chars /\ Len(x) = Len(d) + Len(Root)
        /\ \A i \in 1..Len(d) + Len(Root) : x[i] = IF i <= Len(d) THEN d[i] ELSE Root[i - Len(d)]
    BY <1>1, ConcatProperties DEF Chars, Joined
  <1>3. x = Slashed(d)
    BY DEF Joined, Slashed, Root
  <1> HIDE DEF x
  <1>4. \A i \in 1..Len(d) : i \in 1..Len(d) + Len(Root) /\ i <= Len(d)
    BY <1>1
  <1>5. /\ Len(d) + 1 \in 1..Len(d) + Len(Root) /\ ~(Len(d) + 1 <= Len(d))
        /\ Len(d) + 1 - Len(d) = 1
    BY <1>1
  <1> QED BY <1>1, <1>2, <1>3, <1>4, <1>5 DEF Begins

LEMMA BehindOK ==
  ASSUME NEW d \in Chars, NEW x \in Seq(NameChar)
  PROVE  /\ Behind(d, x) \in Chars /\ Len(Behind(d, x)) = Len(d) + 1 + Len(x)
         /\ Len(x) \in Nat /\ Begins(Slashed(d), Behind(d, x))
         /\ \A i \in Len(d) + 2..Len(d) + 1 + Len(x) :
              Behind(d, x)[i] \in NameChar /\ Behind(d, x)[i] # "/"
  <1> DEFINE a == Slashed(d)
             b == Joined(a, x)
  <1>1. a \in Chars /\ Len(a) = Len(d) + 1 /\ Len(d) \in Nat
    BY SlashedOK
  <1>2. x \in Chars /\ Len(x) \in Nat /\ \A i \in 1..Len(x) : x[i] \in NameChar
    BY SeqMonotonic DEF Chars, PathChar
  <1>3. b = Behind(d, x)
    BY DEF Joined, Slashed, Behind
  <1> HIDE DEF a
  <1>4. /\ b \in Chars /\ Len(b) = Len(a) + Len(x)
        /\ \A i \in 1..Len(a) + Len(x) : b[i] = IF i <= Len(a) THEN a[i] ELSE x[i - Len(a)]
    BY <1>1, <1>2, ConcatProperties DEF Chars, Joined
  <1> HIDE DEF b
  <1>5. Begins(a, b)
    <2>1. \A i \in 1..Len(a) : i \in 1..Len(a) + Len(x) /\ i <= Len(a)
      BY <1>1, <1>2
    <2>2. Len(a) <= Len(b)
      BY <1>1, <1>2, <1>4
    <2> QED BY <1>4, <2>1, <2>2 DEF Begins
  <1>6. ASSUME NEW i \in Len(d) + 2..Len(d) + 1 + Len(x) PROVE b[i] \in NameChar
    <2>1. i \in 1..Len(a) + Len(x) /\ ~(i <= Len(a)) /\ i - Len(a) \in 1..Len(x)
      BY <1>1, <1>2
    <2> QED BY <1>2, <1>4, <2>1
  <1>7. "/" \notin NameChar
    BY DfsAssumption
  <1> QED BY <1>1, <1>2, <1>3, <1>4, <1>5, <1>6, <1>7 DEF a

\* A way up takes the name back.
LEMMA UpFromName ==
  ASSUME NEW d \in Chars, NEW x \in Seq(NameChar)
  PROVE  UpOne(Slashed(Behind(d, x))) = Slashed(d)
  <1> DEFINE a == Slashed(d)
             b == Behind(d, x)
             c == Slashed(b)
             n == Len(d) + 1
             S == {i \in 1..Len(c) - 1 : c[i] = "/"} \cup {0}
  <1>1. /\ a \in Chars /\ Len(a) = n /\ Len(d) \in Nat /\ a[n] = "/"
        /\ b \in Chars /\ Len(b) = n + Len(x) /\ Len(x) \in Nat /\ Begins(a, b)
        /\ \A i \in n + 1..n + Len(x) : b[i] # "/"
    <2>1. n + 1 = Len(d) + 2
      BY SlashedOK
    <2> QED BY <2>1, SlashedOK, BehindOK
  <1> HIDE DEF a, b
  <1>2. c \in Chars /\ Len(c) = n + Len(x) + 1 /\ Begins(b, c)
    BY <1>1, SlashedOK
  <1>3. c # <<>>
    BY <1>1, <1>2
  <1> HIDE DEF c
  <1>4. n \in Nat \ {0} /\ Len(c) - 1 = n + Len(x)
    BY <1>1, <1>2
  <1> HIDE DEF n
  <1>5. Begins(a, c)
    <2>1. \A i \in 1..n : i \in 1..n + Len(x)
      BY <1>1, <1>4
    <2>2. n <= Len(c)
      BY <1>1, <1>2, <1>4
    <2> QED BY <1>1, <1>2, <2>1, <2>2 DEF Begins
  <1>6. n \in S
    <2>1. n \in 1..n
      BY <1>4
    <2>2. c[n] = "/"
      BY <1>1, <1>5, <2>1 DEF Begins
    <2>3. n \in 1..Len(c) - 1
      BY <1>1, <1>4
    <2> QED BY <2>2, <2>3
  <1>7. ASSUME NEW j \in S PROVE j <= n
    <2>1. CASE j = 0
      BY <1>4, <2>1
    <2>2. CASE j # 0
      <3>1. j \in 1..n + Len(x) /\ c[j] = "/"
        BY <1>4, <2>2
      <3>2. c[j] = b[j]
        BY <1>1, <1>2, <3>1 DEF Begins
      <3>3. j \notin n + 1..n + Len(x)
        BY <1>1, <3>1, <3>2
      <3> QED BY <1>1, <1>4, <3>1, <3>3
    <2> QED BY <2>1, <2>2
  <1>8. \A i \in S : i \in Int
    OBVIOUS
  <1>9. UpOne(c) = SubSeq(c, 1, CHOOSE i \in S : \A j \in S : j <= i)
    BY <1>3 DEF UpOne
  <1> HIDE DEF S
  <1>10. (CHOOSE i \in S : \A j \in S : j <= i) = n
    <2> DEFINE m == CHOOSE i \in S : \A j \in S : j <= i
    <2>1. m \in S /\ \A j \in S : j <= m
      BY <1>6, <1>7
    <2> HIDE DEF m
    <2>2. m <= n /\ n <= m /\ m \in Int /\ n \in Int
      BY <1>6, <1>7, <1>8, <2>1
    <2>3. m = n
      BY <2>2
    <2> QED BY <2>3 DEF m
  <1>11. SubSeq(c, 1, Len(a)) = a
    <2>1. Len(a) <= Len(c)
      BY <1>5 DEF Begins
    <2> QED BY <1>1, <1>2, <1>5, <2>1, BeginsOK DEF Chars
  <1>12. UpOne(c) = a
    BY <1>1, <1>9, <1>10, <1>11
  <1> QED BY <1>12 DEF a, b, c

\* What is left of the slash at the end.
LEMMA TrimmedIs ==
  ASSUME NEW d \in Chars
  PROVE  /\ Trimmed(Slashed(d)) = IF d = <<>> THEN Root ELSE d
         /\ d # <<>> /\ d[Len(d)] # "/" => Trimmed(d) = d
         /\ Trimmed(<<>>) = Root
  <1> DEFINE c == Slashed(d)
  <1>1. /\ c \in Chars /\ Len(c) = Len(d) + 1 /\ Len(d) \in Nat /\ Begins(d, c)
        /\ c[Len(d) + 1] = "/"
    BY SlashedOK
  <1>2. none \notin Chars /\ <<>> \in Chars
    BY DfsAssumption, SlashIsChar DEF Chars
  <1>3. d = <<>> => c = Root
    <2>1. <<>> \o <<"/">> = <<"/">>
      BY SlashIsChar, ConcatEmptySeq DEF Chars
    <2> QED BY <2>1 DEF Slashed, Root
  <1> HIDE DEF c
  <1>4. Trimmed(c) = IF d = <<>> THEN Root ELSE d
    <2>1. c # none /\ c # <<>> /\ c[Len(c)] = "/"
      BY <1>1, <1>2
    <2>2. Trimmed(c) = IF Len(c) > 1 THEN SubSeq(c, 1, Len(c) - 1) ELSE c
      BY <2>1 DEF Trimmed
    <2>3. CASE d = <<>>
      <3>1. ~(Len(c) > 1)
        BY <1>1, <2>3
      <3> QED BY <1>3, <2>2, <2>3, <3>1
    <2>4. CASE d # <<>>
      <3>1. Len(d) # 0
        BY <2>4, EmptySeq DEF Chars
      <3>2. Len(c) > 1 /\ Len(c) - 1 = Len(d) /\ Len(d) <= Len(c)
        BY <1>1, <3>1
      <3>3. SubSeq(c, 1, Len(d)) = d
        BY <1>1, <3>2, BeginsOK DEF Chars
      <3> QED BY <2>2, <2>4, <3>2, <3>3
    <2> QED BY <2>3, <2>4
  <1>5. d # <<>> /\ d[Len(d)] # "/" => Trimmed(d) = d
    BY <1>2 DEF Trimmed
  <1>6. Trimmed(<<>>) = Root
    BY <1>2 DEF Trimmed, Root
  <1> QED BY <1>4, <1>5, <1>6 DEF c

-----------------------------------------------------------------------------

\* The names kept, one behind the other.
LEMMA JoinsAre ==
  ASSUME NEW w \in Seq(Seq(NameChar)), NEW S
  PROVE  /\ Joins(w, S)[0] = <<>>
         /\ \A i \in 1..Len(w) : Joins(w, S)[i] = IF i \in S THEN Behind(Joins(w, S)[i - 1], w[i])
                                                  ELSE Joins(w, S)[i - 1]
         /\ \A i \in 0..Len(w) : Joins(w, S)[i] \in Chars
  <1> DEFINE n == Len(w)
             Next1(i, d) == IF i \in S THEN Behind(d, w[i]) ELSE d
             st == [i \in 1..n |-> [d \in Chars |-> Next1(i, d)]]
             Is(f) == f = [i \in 0..n |-> IF i = 0 THEN <<>> ELSE Next1(i, f[i - 1])]
             a == Joins(w, S)
  <1>1. n \in Nat /\ \A i \in 1..n : w[i] \in Seq(NameChar)
    BY LenProperties, ElementOfSeq
  <1>2. \A i \in 1..n : \A d \in Chars : Next1(i, d) \in Chars
    BY <1>1, BehindOK
  <1>3. <<>> \in Chars
    BY SlashIsChar
  <1>4. a = CHOOSE f : Is(f)
    BY DEF Joins, Behind
  <1> HIDE DEF Next1
  <1>5. st \in [1..n -> [Chars -> Chars]]
    BY <1>2
  <1>6. \A i \in 1..n : \A d \in Chars : st[i][d] = Next1(i, d)
    OBVIOUS
  <1> HIDE DEF st
  <1>7. PICK g \in [0..n -> Chars] : Follows(n, <<>>, st, g)
    BY <1>1, <1>3, <1>5, RoundsExist
  <1>8. \A i \in 1..n : i - 1 \in 0..n /\ i # 0 /\ i \in 0..n
    BY <1>1
  <1>9. \A i \in 0..n : i = 0 \/ i \in 1..n
    BY <1>1
  <1>10. \A i \in 1..n : g[i] = Next1(i, g[i - 1])
    BY <1>6, <1>7, <1>8 DEF Follows
  <1>11. Is(g)
    <2> DEFINE h == [i \in 0..n |-> IF i = 0 THEN <<>> ELSE Next1(i, g[i - 1])]
    <2>1. \A i \in 0..n : h[i] = g[i]
      BY <1>7, <1>9, <1>10 DEF Follows
    <2>2. h = [i \in 0..n |-> h[i]] /\ g = [i \in 0..n |-> g[i]]
      BY <1>7
    <2> HIDE DEF h
    <2>3. g = h
      BY <2>1, <2>2
    <2> QED BY <2>3 DEF h
  <1> HIDE DEF Is, a
  <1>12. Is(a)
    BY <1>4, <1>11
  <1>13. /\ a[0] = <<>>
         /\ \A i \in 1..n : a[i] = Next1(i, a[i - 1])
    <2> DEFINE h == [i \in 0..n |-> IF i = 0 THEN <<>> ELSE Next1(i, a[i - 1])]
    <2>1. h[0] = <<>> /\ \A i \in 1..n : h[i] = Next1(i, a[i - 1])
      BY <1>1, <1>8
    <2> HIDE DEF h
    <2>2. a = h
      BY <1>12 DEF h, Is
    <2> QED BY <2>1, <2>2
  <1> DEFINE T == {k \in 0..n : a[k] \in Chars}
  <1>14. 0 \in T
    BY <1>1, <1>3, <1>13
  <1>15. ASSUME NEW k \in 0..(n - 1), k \in T PROVE k + 1 \in T
    <2>1. k + 1 \in 1..n /\ k + 1 - 1 = k /\ k + 1 \in 0..n
      BY <1>1
    <2>2. a[k + 1] = Next1(k + 1, a[k])
      BY <1>13, <2>1
    <2>3. a[k + 1] \in Chars
      BY <1>2, <1>15, <2>1, <2>2
    <2> QED BY <2>1, <2>3
  <1>16. T \in SUBSET (0..n)
    OBVIOUS
  <1> HIDE DEF T
  <1>17. T = 0..n
    BY <1>1, <1>14, <1>15, <1>16, UpTo
  <1>18. \A i \in 0..n : a[i] \in Chars
    BY <1>17 DEF T
  <1> QED BY <1>13, <1>18 DEF a, Next1

\* They depend on what is kept up to there.
LEMMA JoinsSame ==
  ASSUME NEW w \in Seq(Seq(NameChar)), NEW S, NEW R, NEW k \in 0..Len(w),
         \A i \in 1..k : i \in S <=> i \in R
  PROVE  Joins(w, S)[k] = Joins(w, R)[k]
  <1> DEFINE a == Joins(w, S)
             b == Joins(w, R)
             T == {i \in 0..k : a[i] = b[i]}
  <1>1. Len(w) \in Nat /\ k \in Nat
    BY LenProperties
  <1>2. a[0] = b[0]
    BY JoinsAre
  <1>3. \A i \in 1..Len(w) : a[i] = IF i \in S THEN Behind(a[i - 1], w[i]) ELSE a[i - 1]
    BY JoinsAre
  <1>4. \A i \in 1..Len(w) : b[i] = IF i \in R THEN Behind(b[i - 1], w[i]) ELSE b[i - 1]
    BY JoinsAre
  <1> HIDE DEF a, b
  <1>5. 0 \in T
    BY <1>1, <1>2
  <1>6. ASSUME NEW i \in 0..(k - 1), i \in T PROVE i + 1 \in T
    <2>1. i + 1 \in 1..k /\ i + 1 \in 1..Len(w) /\ i + 1 - 1 = i /\ i + 1 \in 0..k
      BY <1>1
    <2>2. a[i + 1] = b[i + 1]
      BY <1>3, <1>4, <1>6, <2>1
    <2> QED BY <2>1, <2>2
  <1>7. T \in SUBSET (0..k)
    OBVIOUS
  <1> HIDE DEF T
  <1>8. T = 0..k
    BY <1>1, <1>5, <1>6, <1>7, UpTo
  <1>9. k \in T
    BY <1>1, <1>8
  <1> QED BY <1>9 DEF T, a, b

\* What is not kept leaves no trace.
LEMMA JoinsSkip ==
  ASSUME NEW w \in Seq(Seq(NameChar)), NEW S, NEW k \in 0..Len(w), NEW m \in 0..k,
         \A i \in m + 1..k : i \notin S
  PROVE  Joins(w, S)[k] = Joins(w, S)[m]
  <1> DEFINE a == Joins(w, S)
             T == {i \in 0..k - m : a[m + i] = a[m]}
  <1>1. Len(w) \in Nat /\ k \in Nat /\ m \in Nat /\ k - m \in Nat
    BY LenProperties
  <1>2. \A i \in 1..Len(w) : a[i] = IF i \in S THEN Behind(a[i - 1], w[i]) ELSE a[i - 1]
    BY JoinsAre
  <1> HIDE DEF a
  <1>3. 0 \in T
    BY <1>1
  <1>4. ASSUME NEW i \in 0..(k - m - 1), i \in T PROVE i + 1 \in T
    <2>1. /\ m + (i + 1) \in m + 1..k /\ m + (i + 1) \in 1..Len(w)
          /\ m + (i + 1) - 1 = m + i /\ i + 1 \in 0..k - m
      BY <1>1
    <2>2. a[m + (i + 1)] = a[m + i]
      BY <1>2, <2>1
    <2> QED BY <1>4, <2>1, <2>2
  <1>5. T \in SUBSET (0..k - m)
    OBVIOUS
  <1> HIDE DEF T
  <1>6. T = 0..k - m
    BY <1>1, <1>3, <1>4, <1>5, UpTo
  <1>7. k - m \in T /\ m + (k - m) = k
    BY <1>1, <1>6
  <1> QED BY <1>7 DEF T, a

-----------------------------------------------------------------------------
(* dfs_normalize_path gives what is meant. *)

\* The path of the first k parts.
SoFar(w, k) == Joins(w, KeptIn(w, k))[k]

LEMMA SoFarOK ==
  ASSUME NEW w \in Seq(Seq(NameChar)), NEW k \in 0..Len(w)
  PROVE  SoFar(w, k) \in Chars /\ (k = 0 => SoFar(w, k) = <<>>)
  BY JoinsAre DEF SoFar

\* What the next part does to it.
LEMMA NextPart ==
  ASSUME NEW w \in Seq(Seq(NameChar)), NEW k \in Nat, k < Len(w)
  PROVE  /\ Down(w, k + 1) = 0 => SoFar(w, k + 1) = SoFar(w, k)
         /\ Down(w, k + 1) = 1 => SoFar(w, k + 1) = Behind(SoFar(w, k), w[k + 1])
         /\ Down(w, k + 1) = -1 /\ Level(w, 1, k + 1) >= 0 =>
              \E x \in Seq(NameChar) : SoFar(w, k) = Behind(SoFar(w, k + 1), x)
  <1> DEFINE n == k + 1
             K == KeptIn(w, k)
             N == KeptIn(w, n)
  <1>1. /\ Len(w) \in Nat /\ k \in 0..Len(w) /\ n \in 1..Len(w) /\ n \in 0..Len(w)
        /\ n - 1 = k /\ n \notin 1..k /\ \A i \in 1..n : i = n \/ i \in 1..k
    BY LenProperties
  <1>2. /\ Down(w, n) = 0 => N = K
        /\ Down(w, n) = 1 => N = K \cup {n}
        /\ Down(w, n) = -1 /\ Level(w, 1, n) >= 0 =>
             \E m \in K : N = K \ {m} /\ \A i \in m + 1..k : i \notin K
        /\ K \subseteq 1..k
    BY KeptAfter
  <1>3. /\ SoFar(w, k) = Joins(w, K)[k] /\ SoFar(w, n) = Joins(w, N)[n]
    BY DEF SoFar
  <1>4. Joins(w, N)[n] = IF n \in N THEN Behind(Joins(w, N)[k], w[n]) ELSE Joins(w, N)[k]
    BY <1>1, JoinsAre
  <1> HIDE DEF n, K, N
  <1>5. n \notin K
    BY <1>1, <1>2
  <1>6. Down(w, n) = 0 => SoFar(w, n) = SoFar(w, k)
    BY <1>2, <1>3, <1>4, <1>5
  <1>7. Down(w, n) = 1 => SoFar(w, n) = Behind(SoFar(w, k), w[n])
    <2>1. ASSUME Down(w, n) = 1 PROVE Joins(w, N)[k] = Joins(w, K)[k]
      <3>1. N = K \cup {n}
        BY <1>2, <2>1
      <3>2. \A i \in 1..k : i # n
        BY <1>1
      <3>3. \A i \in 1..k : i \in N <=> i \in K
        BY <3>1, <3>2
      <3>4. k \in 0..Len(w)
        BY <1>1
      <3> QED BY <3>3, <3>4, JoinsSame
    <2>2. Down(w, n) = 1 => n \in N
      BY <1>2
    <2> QED BY <1>3, <1>4, <2>1, <2>2
  <1>8. ASSUME Down(w, n) = -1, Level(w, 1, n) >= 0
        PROVE  \E x \in Seq(NameChar) : SoFar(w, k) = Behind(SoFar(w, n), x)
    <2>1. PICK m \in K : N = K \ {m} /\ \A i \in m + 1..k : i \notin K
      BY <1>2, <1>8
    <2>2. /\ m \in 1..k /\ m \in 1..Len(w) /\ m - 1 \in 0..Len(w) /\ m \in 0..k
          /\ m - 1 \in 0..n /\ w[m] \in Seq(NameChar) /\ m - 1 + 1 = m
      <3>1. m \in 1..k
        BY <1>2
      <3> QED BY <1>1, <3>1, ElementOfSeq
    <2>3. Joins(w, K)[k] = Joins(w, K)[m]
      BY <1>1, <2>1, <2>2, JoinsSkip
    <2>4. Joins(w, K)[m] = Behind(Joins(w, K)[m - 1], w[m])
      BY <2>2, JoinsAre
    <2>5. Joins(w, N)[n] = Joins(w, N)[m - 1]
      <3>1. ASSUME NEW i \in m..n PROVE i \notin N
        <4>1. i = m \/ i = n \/ i \in m + 1..k
          BY <1>1, <2>2
        <4> QED BY <1>5, <2>1, <4>1
      <3>2. \A i \in m - 1 + 1..n : i \notin N
        BY <2>2, <3>1
      <3> QED BY <1>1, <2>2, <3>2, JoinsSkip
    <2>6. Joins(w, N)[m - 1] = Joins(w, K)[m - 1]
      <3>1. \A i \in 1..m - 1 : i # m
        BY <2>2
      <3>2. \A i \in 1..m - 1 : i \in N <=> i \in K
        BY <2>1, <3>1
      <3> QED BY <2>2, <3>2, JoinsSame
    <2> QED BY <1>3, <2>2, <2>3, <2>4, <2>5, <2>6
  <1> QED BY <1>6, <1>7, <1>8 DEF n

\* What a round leaves, part k + 1 of what is typed at place i of the path.
LEMMA RoundIs ==
  ASSUME NEW w \in Seq(Seq(NameChar)), NEW k \in Nat, k < Len(w), Level(w, 1, k + 1) >= 0,
         NEW p, NEW i \in Nat, i > 1, p[i] = w[k + 1]
  PROVE  Round(p, Slashed(SoFar(w, k)), i) =
           IF Down(w, k + 1) = 1 /\ i >= Len(p) THEN SoFar(w, k + 1) ELSE Slashed(SoFar(w, k + 1))
  <1> DEFINE n == k + 1
             d == SoFar(w, k)
             e == SoFar(w, n)
             c == Slashed(d)
  <1>1. /\ k \in 0..Len(w) /\ n \in 0..Len(w) /\ n \in 1..Len(w) /\ w[n] \in Seq(NameChar)
        /\ p[i] = w[n]
    <2>1. k \in 0..Len(w) /\ n \in 0..Len(w) /\ n \in 1..Len(w)
      BY LenProperties
    <2> QED BY <2>1, ElementOfSeq
  <1>2. d \in Chars /\ e \in Chars
    BY <1>1, SoFarOK
  <1>3. /\ Down(w, n) = 0 => e = d
        /\ Down(w, n) = 1 => e = Behind(d, w[n])
        /\ Down(w, n) = -1 => \E x \in Seq(NameChar) : d = Behind(e, x)
    BY NextPart
  <1> HIDE DEF d, e, n
  <1>4. c # none
    <2>1. c \in Chars
      BY <1>2, SlashedOK
    <2> QED BY <2>1, DfsAssumption DEF Chars
  <1>5. c \o w[n] = Behind(d, w[n])
    BY DEF Slashed, Behind
  <1>6. /\ w[n] = Dot => Round(p, c, i) = c
        /\ w[n] = DotDot => Round(p, c, i) = UpOne(c)
        /\ w[n] = <<>> => Round(p, c, i) = c
        /\ w[n] \notin {<<>>, Dot, DotDot} =>
             Round(p, c, i) = c \o w[n] \o (IF i < Len(p) THEN <<"/">> ELSE <<>>)
    <2> HIDE DEF c
    <2> QED BY <1>1, <1>4, NotDots DEF Round
  <1>7. CASE w[n] \in {<<>>, Dot}
    <2>1. Down(w, n) = 0
      BY <1>7, NotDots DEF Down
    <2> QED BY <1>3, <1>6, <1>7, <2>1 DEF n, d, e, c
  <1>8. CASE w[n] = DotDot
    <2>1. Down(w, n) = -1
      BY <1>8 DEF Down
    <2>2. PICK x \in Seq(NameChar) : d = Behind(e, x)
      BY <1>3, <2>1
    <2>3. UpOne(c) = Slashed(e)
      BY <1>2, <2>2, UpFromName
    <2> QED BY <1>6, <1>8, <2>1, <2>3 DEF n, d, e, c
  <1>9. CASE w[n] \notin {<<>>, Dot, DotDot}
    <2>1. Down(w, n) = 1
      BY <1>9 DEF Down
    <2>2. Round(p, c, i) = e \o (IF i < Len(p) THEN <<"/">> ELSE <<>>)
      BY <1>3, <1>5, <1>6, <1>9, <2>1
    <2>3. e \o <<>> = e
      BY <1>2, ConcatEmptySeq DEF Chars
    <2>4. Round(p, c, i) = IF i < Len(p) THEN Slashed(e) ELSE e
      BY <2>2, <2>3 DEF Slashed
    <2> QED BY <2>1, <2>4 DEF n, d, e, c
  <1> QED BY <1>7, <1>8, <1>9

\* The rounds from part s + 1 on, when they have come to the path of the first s.
LEMMA RoundsLead ==
  ASSUME NEW w \in Seq(Seq(NameChar)), NEW p \in Seq(Chars), NEW off \in Nat, NEW s \in Nat,
         s < Len(w), off + s > 0, Len(p) = off + Len(w),
         \A i \in 1..Len(w) : p[off + i] = w[i] /\ Level(w, 1, i) >= 0,
         Rounds(p)[off + s] = Slashed(SoFar(w, s))
  PROVE  Rounds(p)[Len(p)] =
           IF Down(w, Len(w)) = 1 THEN SoFar(w, Len(w)) ELSE Slashed(SoFar(w, Len(w)))
  <1> DEFINE n == Len(w)
             c == n - 1 - s
             At(k) == off + s + k
             T == {k \in 0..c : Rounds(p)[At(k)] = Slashed(SoFar(w, s + k))}
  <1>1. n \in Nat /\ c \in Nat
    BY LenProperties
  <1>2. ASSUME NEW k \in 0..c
        PROVE  Rounds(p)[At(k) + 1] = Round(p, Rounds(p)[At(k)], At(k) + 1)
    <2>1. At(k) + 1 \in 1..Len(p) /\ At(k) + 1 - 1 = At(k)
      BY <1>1
    <2> QED BY <2>1, RoundsAre
  <1>3. ASSUME NEW k \in 0..c, k \in T
        PROVE  Rounds(p)[At(k) + 1] =
                 IF Down(w, s + k + 1) = 1 /\ At(k) + 1 >= Len(p) THEN SoFar(w, s + k + 1)
                 ELSE Slashed(SoFar(w, s + k + 1))
    <2> DEFINE j == s + k
               i == At(k) + 1
    <2>1. /\ j \in Nat /\ j < Len(w) /\ i \in Nat /\ i > 1 /\ j + 1 \in 1..Len(w)
          /\ off + (j + 1) = i
      <3>1. off \in Nat /\ s \in Nat /\ off + s > 0 /\ n \in Nat /\ k \in 0..n - 1 - s
        BY <1>1
      <3>2. i = off + s + k + 1 /\ j = s + k /\ Len(w) = n
        OBVIOUS
      <3> HIDE DEF i, j, n
      <3> QED BY ONLY <3>1, <3>2
    <2>2. p[i] = w[j + 1] /\ Level(w, 1, j + 1) >= 0
      BY <2>1
    <2>3. Rounds(p)[i] = Round(p, Slashed(SoFar(w, j)), i)
      BY <1>2, <1>3
    <2> HIDE DEF i, j
    <2>4. Round(p, Slashed(SoFar(w, j)), i) =
            IF Down(w, j + 1) = 1 /\ i >= Len(p) THEN SoFar(w, j + 1) ELSE Slashed(SoFar(w, j + 1))
      BY <2>1, <2>2, RoundIs
    <2> QED BY <2>3, <2>4 DEF i, j
  <1>4. 0 \in T
    BY <1>1
  <1>5. ASSUME NEW k \in 0..(c - 1), k \in T PROVE k + 1 \in T
    <2>1. /\ k \in 0..c /\ k + 1 \in 0..c /\ ~(At(k) + 1 >= Len(p)) /\ At(k) + 1 = At(k + 1)
          /\ s + k + 1 = s + (k + 1)
      BY <1>1
    <2>2. Rounds(p)[At(k) + 1] = Slashed(SoFar(w, s + k + 1))
      BY <1>3, <1>5, <2>1
    <2> QED BY <2>1, <2>2
  <1>6. T \in SUBSET (0..c)
    OBVIOUS
  <1>7. c \in 0..c /\ At(c) + 1 = Len(p) /\ At(c) + 1 >= Len(p) /\ s + c + 1 = Len(w)
    BY <1>1
  <1> HIDE DEF T, c
  <1>8. T = 0..c
    BY <1>1, <1>4, <1>5, <1>6, UpTo
  <1> HIDE DEF At
  <1>9. c \in T
    BY <1>7, <1>8
  <1> QED BY <1>3, <1>7, <1>9

\* What is typed, and not above the root, gives the path that it means.
LEMMA NormalIsMeant ==
  ASSUME NEW typed \in Typed, ~AboveRoot(typed)
  PROVE  dfs_normalize_path(typed) = Meant(typed)
  <1> DEFINE n == Len(typed)
             p == FromRoot(typed)
             R == Rounds(p)
             last == SoFar(typed, n)
  <1>1. /\ typed \in Seq(Seq(NameChar)) /\ typed \in Seq(Chars) /\ typed # <<>>
        /\ n \in Nat /\ n # 0
    <2>1. typed \in Seq(Seq(NameChar)) /\ typed \in Seq(Chars) /\ typed # <<>>
      BY TypedIs
    <2> QED BY <2>1
  <1>2. /\ p \in Seq(Chars) /\ dfs_normalize_path(typed) = Trimmed(R[Len(p)])
    BY <1>1, FromRootOK
  <1>3. Meant(typed) = IF last = <<>> THEN Root ELSE last
    BY DEF Meant, SoFar, Root
  <1>4. \A i \in 1..n : Level(typed, 1, i) >= 0
    <2>1. DOMAIN typed = 1..n
      BY <1>1
    <2>2. \A i \in 1..n : ~(Level(typed, 1, i) < 0) /\ Level(typed, 1, i) \in Int
      BY <2>1, PartsFinite DEF AboveRoot
    <2> QED BY <2>2
  <1>5. last \in Chars
    BY <1>1, SoFarOK
  <1>6. /\ R[0] = <<>>
        /\ \A i \in 1..Len(p) : R[i] = Round(p, R[i - 1], i)
    BY <1>2, RoundsAre
  <1>7. /\ <<>> # none /\ Root \in Chars /\ Root # none /\ <<>> # Dot /\ <<>> # DotDot
        /\ <<>> \o <<>> = <<>> /\ <<>> \o Root = Root
    <2>1. <<>> # none /\ Root # none /\ Root \in Chars
      BY DfsAssumption, SlashIsChar DEF Chars, Root
    <2>2. <<>> \o <<>> = <<>> /\ <<>> \o Root = Root
      BY <2>1, SlashIsChar, ConcatEmptySeq DEF Chars
    <2> QED BY <2>1, <2>2, NotDots
  <1>8. Slashed(SoFar(typed, 0)) = Root
    <2>1. SoFar(typed, 0) = <<>>
      BY <1>1, SoFarOK
    <2> QED BY <1>7, <2>1 DEF Slashed, Root
  <1>9. ASSUME R[Len(p)] = IF Down(typed, n) = 1 THEN last ELSE Slashed(last)
        PROVE  Trimmed(R[Len(p)]) = Meant(typed)
    <2>1. CASE Down(typed, n) # 1
      BY <1>3, <1>5, <1>9, <2>1, TrimmedIs
    <2>2. CASE Down(typed, n) = 1
      <3> DEFINE d == SoFar(typed, n - 1)
                 x == typed[n]
      <3>1. n - 1 \in Nat /\ n - 1 < Len(typed) /\ n - 1 \in 0..Len(typed) /\ n - 1 + 1 = n
            /\ n \in 1..Len(typed)
        BY <1>1
      <3>2. last = Behind(d, x)
        BY <1>1, <2>2, <3>1, NextPart
      <3>3. x \in Seq(NameChar) /\ x # <<>>
        BY <1>1, <2>2, <3>1, ElementOfSeq DEF Down
      <3>4. d \in Chars
        BY <1>1, <3>1, SoFarOK
      <3> HIDE DEF d, x
      <3>5. Len(x) \in Nat \ {0} /\ Len(d) \in Nat
        BY <3>3, <3>4, EmptySeq, LenProperties DEF Chars
      <3>6. Len(Behind(d, x)) = Len(d) + 1 + Len(x)
        BY <3>3, <3>4, BehindOK
      <3>7. Len(last) \in Len(d) + 2..Len(d) + 1 + Len(x) /\ Len(last) # 0
        BY <3>2, <3>5, <3>6
      <3>8. last[Len(last)] # "/"
        BY <3>2, <3>3, <3>4, <3>7, BehindOK
      <3>9. last # <<>>
        BY <3>7
      <3> QED BY <1>3, <1>5, <1>9, <2>2, <3>8, <3>9, TrimmedIs
    <2> QED BY <2>1, <2>2
  <1>10. CASE typed[1] = <<>>
    <2>1. p = typed /\ Len(p) = n /\ p[1] = <<>>
      BY <1>10 DEF FromRoot
    <2>2. R[1] = <<>> \o (IF 1 < n THEN Root ELSE <<>>)
      <3>1. R[1] = Round(p, <<>>, 1)
        <4>1. 1 \in 1..Len(p) /\ 1 - 1 = 0
          BY <1>1, <2>1
        <4> QED BY <1>6, <4>1
      <3> HIDE DEF p, R
      <3>2. Round(p, <<>>, 1) = <<>> \o <<>> \o (IF 1 < Len(p) THEN <<"/">> ELSE <<>>)
        BY <1>7, <2>1 DEF Round
      <3> QED BY <1>7, <2>1, <3>1, <3>2 DEF Root
    <2>3. Down(typed, 1) = 0
      BY <1>7, <1>10 DEF Down
    <2>4. SoFar(typed, 1) = SoFar(typed, 0)
      <3>1. 0 \in Nat /\ 0 < Len(typed) /\ 0 + 1 = 1
        BY <1>1
      <3> QED BY <1>1, <2>3, <3>1, NextPart
    <2>5. CASE n = 1
      <3>1. last = <<>>
        BY <1>1, <2>4, <2>5, SoFarOK
      <3>2. R[Len(p)] = <<>>
        BY <1>7, <2>1, <2>2, <2>5
      <3> HIDE DEF R, p
      <3> QED BY <1>2, <1>3, <3>1, <3>2, TrimmedIs, SlashIsChar
    <2>6. CASE n # 1
      <3>0. 1 < n
        <4> HIDE DEF n
        <4> QED BY <1>1, <2>6
      <3>1. R[1] = Slashed(SoFar(typed, 1))
        <4>1. R[1] = Root
          <5> HIDE DEF R, p, n
          <5> QED BY <1>7, <2>2, <3>0
        <4> QED BY <1>8, <2>4, <4>1
      <3>2. /\ 0 \in Nat /\ 1 \in Nat /\ 1 < Len(typed) /\ 0 + 1 > 0 /\ 0 + 1 = 1
            /\ Len(p) = 0 + Len(typed) /\ \A i \in 1..Len(typed) : 0 + i = i
        <4>1. Len(p) = Len(typed) /\ Len(typed) \in Nat
          BY <1>1, <2>1
        <4> HIDE DEF p
        <4> QED BY <3>0, <4>1
      <3>3. \A i \in 1..Len(typed) : p[0 + i] = typed[i] /\ Level(typed, 1, i) >= 0
        BY <1>4, <2>1, <3>2
      <3>4. Rounds(p)[0 + 1] = Slashed(SoFar(typed, 1))
        BY <3>1, <3>2
      <3> HIDE DEF p, R, n, last
      <3>5. Rounds(p)[Len(p)] = IF Down(typed, Len(typed)) = 1 THEN SoFar(typed, Len(typed))
                                ELSE Slashed(SoFar(typed, Len(typed)))
        BY <1>1, <1>2, <3>2, <3>3, <3>4, RoundsLead
      <3> QED BY <1>2, <1>9, <3>5 DEF R, n, last
    <2> QED BY <2>5, <2>6
  <1>11. CASE typed[1] # <<>>
    <2> DEFINE b == <<<<>>, <<>>>>
    <2>1. p = Joined(b, typed)
      BY <1>11 DEF FromRoot, Joined
    <2>2. b \in Seq(Chars) /\ Len(b) = 2 /\ b[1] = <<>> /\ b[2] = <<>>
      BY SlashIsChar
    <2> HIDE DEF b
    <2>3. /\ Len(Joined(b, typed)) = Len(b) + Len(typed)
          /\ \A i \in 1..Len(b) + Len(typed) :
               Joined(b, typed)[i] = IF i <= Len(b) THEN b[i] ELSE typed[i - Len(b)]
      BY <1>1, <2>2, ConcatProperties DEF Joined
    <2> HIDE DEF p
    <2>4. Len(p) = 2 + n /\ p[1] = <<>> /\ p[2] = <<>>
      <3>1. 1 \in 1..2 + n /\ 2 \in 1..2 + n
        BY <1>1
      <3> QED BY <2>1, <2>2, <2>3, <3>1
    <2>5. \A i \in 1..n : p[2 + i] = typed[i]
      <3>1. \A i \in 1..n : 2 + i \in 1..2 + n /\ ~(2 + i <= 2) /\ 2 + i - 2 = i
        BY <1>1
      <3> QED BY <2>1, <2>2, <2>3, <3>1
    <2>6. /\ 1 \in 1..Len(p) /\ 2 \in 1..Len(p) /\ 1 - 1 = 0 /\ 2 - 1 = 1 /\ 1 < Len(p)
          /\ ~(1 > 1) /\ 2 > 1
      BY <1>1, <2>4
    <2> HIDE DEF R
    <2>7. R[1] = Root
      <3>1. R[1] = Round(p, <<>>, 1)
        BY <1>6, <2>6
      <3>2. Round(p, <<>>, 1) = <<>> \o <<>> \o (IF 1 < Len(p) THEN <<"/">> ELSE <<>>)
        BY <1>7, <2>4 DEF Round
      <3> QED BY <1>7, <2>6, <3>1, <3>2 DEF Root
    <2>8. R[2] = Root
      <3>1. R[2] = Round(p, Root, 2)
        BY <1>6, <2>6, <2>7
      <3>2. Round(p, Root, 2) = Root
        BY <1>7, <2>4, <2>6 DEF Round
      <3> QED BY <3>1, <3>2
    <2>9. /\ 2 \in Nat /\ 0 \in Nat /\ 0 < Len(typed) /\ 2 + 0 > 0 /\ 2 + 0 = 2
          /\ Len(p) = 2 + Len(typed)
      BY <1>1, <2>4
    <2>10. \A i \in 1..Len(typed) : p[2 + i] = typed[i] /\ Level(typed, 1, i) >= 0
      BY <1>4, <2>5
    <2>11. Rounds(p)[2 + 0] = Slashed(SoFar(typed, 0))
      BY <1>8, <2>8, <2>9 DEF R
    <2> HIDE DEF n, last
    <2>12. Rounds(p)[Len(p)] = IF Down(typed, Len(typed)) = 1 THEN SoFar(typed, Len(typed))
                               ELSE Slashed(SoFar(typed, Len(typed)))
      BY <1>1, <1>2, <2>9, <2>10, <2>11, RoundsLead
    <2> QED BY <1>2, <1>9, <2>12 DEF R, n, last
  <1> QED BY <1>10, <1>11

\* PathsMeant and FoundNearest, for any paths and any table: what dfs_mount mounts
\* at is the path that was typed, and dfs_filesystem_lookup gives the file system
\* that a path is under and none that is above it.
THEOREM PathsAsMeant == DfsSpec => []PathsMeant /\ FoundNearest
  <1> DEFINE Nearest ==
        \A p \in Path : LookupPath(p) =>
          LET best == found'.slot IN
          /\ best # none => Under(table[best].path, p)
          /\ \A s \in mounted : Under(table[s].path, p) =>
               best # none /\ Under(table[s].path, table[best].path)
  <1>1. DfsInit => MountsInv /\ PathsInv
    BY MountsBegin, PathsBegin
  <1>2. MountsInv /\ PathsInv /\ [DfsNext]_mountVars => MountsInv' /\ PathsInv'
    <2>1. MountsInv /\ [DfsNext]_mountVars => MountsInv'
      BY MountsKeep DEF MountStep
    <2> QED BY <2>1, PathsKeep
  <1>3. PathsInv => PathsMeant
    BY NormalIsMeant DEF PathsInv, PathsMeant
  <1>4. PathsInv => Nearest
    BY SearchNearest
  <1>5. DfsSpec => []PathsMeant
    BY <1>1, <1>2, <1>3, PTL DEF DfsSpec
  <1>6. DfsSpec => FoundNearest
    BY <1>1, <1>2, <1>4, PTL DEF DfsSpec, FoundNearest
  <1> QED BY <1>5, <1>6
=============================================================================
