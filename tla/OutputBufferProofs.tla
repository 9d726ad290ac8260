-------------------------- MODULE OutputBufferProofs --------------------------
(***************************************************************************)
(* Proofs about the ring buffer, for every size, every set of lines and     *)
(* every way of splitting writes: its indices never leave the slots, it     *)
(* implements the bounded history of LineHistory, and what a reader beside  *)
(* the writer returns (HistoryRead) while nothing is written, and while the *)
(* ring is filling.                                                         *)
(***************************************************************************)
EXTENDS HistoryRead, SequenceTheorems, TLAPS

\* The inductive invariant: the types, and that the lines of a ring that is
\* not full lie in slots 0 .. m_count - 1.
Inv == TypeOK /\ CursorFollowsCount

\* Moving one slot on, as the code does it with %.
LEMMA NextSlot ==
    ASSUME NEW M \in Nat \ {0}, NEW c \in 0 .. M - 1
    PROVE  (c + 1) % M = IF c + 1 = M THEN 0 ELSE c + 1
<1>1. CASE c + 1 = M
  BY <1>1, SMT
<1>2. CASE c + 1 < M
  BY <1>2, SMT
<1> QED BY <1>1, <1>2

\* A sum of two slots is below twice the size, so % subtracts it at most once.
LEMMA WrapOnce ==
    ASSUME NEW M \in Nat \ {0}, NEW k \in 0 .. 2 * M - 1
    PROVE  k % M = IF k < M THEN k ELSE k - M
<1>1. CASE k < M
  BY <1>1, SMT
<1>2. CASE k >= M
  BY <1>2, SMT
<1> QED BY <1>1, <1>2

-----------------------------------------------------------------------------
\* Every step keeps the indices inside the slots.
LEMMA InvIsInductive == Inv /\ [Next]_vars => Inv'
<1> SUFFICES ASSUME Inv, [Next]_vars
             PROVE  Inv'
  OBVIOUS
<1> USE MaxSizeAssumption, LineAssumption DEF Inv, TypeOK, CursorFollowsCount, Slots
<1>1. CASE Write
  <2>1. pending' \in Seq(Line)
    BY <1>1, ChunksAssumption DEF Write
  <2> QED BY <1>1, <2>1 DEF Write
<1>2. CASE PutLine
  <2>1. m_cursor' = IF m_cursor + 1 = MaxSize THEN 0 ELSE m_cursor + 1
    BY <1>2, NextSlot DEF PutLine
  <2>2. Head(pending) \in Line /\ pending' \in Seq(Line)
    BY <1>2 DEF PutLine
  <2>3. m_buffer' \in [0 .. MaxSize - 1 -> Line]
    BY <1>2, <2>2 DEF PutLine
  <2>4. m_count' \in 0 .. MaxSize /\ m_cursor' \in 0 .. MaxSize - 1
    BY <1>2, <2>1 DEF PutLine
  <2>5. m_count' < MaxSize => m_cursor' = m_count'
    BY <1>2, <2>1 DEF PutLine
  <2> QED BY <2>2, <2>3, <2>4, <2>5
<1>3. CASE Clear
  BY <1>3 DEF Clear
<1>4. CASE UNCHANGED vars
  BY <1>4 DEF vars
<1> QED BY <1>1, <1>2, <1>3, <1>4 DEF Next

LEMMA InvInitially == Init => Inv
BY MaxSizeAssumption, LineAssumption
   DEF Init, Inv, TypeOK, CursorFollowsCount, Slots

\* write never leaves the slots: the cursor and the count that index the ring
\* stay in range, and the count says where the cursor is until the ring fills.
THEOREM TypeCorrect == Spec => [](TypeOK /\ CursorFollowsCount)
<1>1. Inv => TypeOK /\ CursorFollowsCount
  BY DEF Inv
<1> QED BY <1>1, InvInitially, InvIsInductive, PTL DEF Spec

-----------------------------------------------------------------------------
\* The lines of a ring buf with its cursor at cur and cnt lines stored.
View(buf, cur, cnt) ==
    [i \in 1 .. cnt |->
        LET k == (IF cnt >= MaxSize THEN cur ELSE 0) + i - 1
        IN  buf[IF k < MaxSize THEN k ELSE k - MaxSize]]

\* What getRecentLines() computes from them, with its two %.
AllLines(buf, cur, cnt) ==
    LET old   == IF cnt >= MaxSize THEN cur ELSE 0
        first == (old + (cnt - cnt)) % MaxSize
    IN  [i \in 1 .. cnt |-> buf[(first + i - 1) % MaxSize]]

LEMMA AllLinesIsView ==
    ASSUME NEW buf, NEW cur \in Slots, NEW cnt \in 0 .. MaxSize
    PROVE  AllLines(buf, cur, cnt) = View(buf, cur, cnt)
<1> USE MaxSizeAssumption DEF Slots
<1> DEFINE old   == IF cnt >= MaxSize THEN cur ELSE 0
           first == (old + (cnt - cnt)) % MaxSize
<1>1. old \in 0 .. MaxSize - 1
  OBVIOUS
<1>2. first = old
  <2> HIDE DEF old
  <2>1. old + (cnt - cnt) = old /\ old \in 0 .. 2 * MaxSize - 1 /\ old < MaxSize
    BY <1>1
  <2>2. old % MaxSize = old
    BY <2>1, WrapOnce
  <2> QED BY <2>1, <2>2
<1>3. ASSUME NEW i \in 1 .. cnt
      PROVE  (first + i - 1) % MaxSize
               = IF old + i - 1 < MaxSize THEN old + i - 1 ELSE old + i - 1 - MaxSize
  <2> HIDE DEF first, old
  <2> DEFINE k == old + i - 1
  <2>1. k \in 0 .. 2 * MaxSize - 1 /\ first + i - 1 = k /\ old + i - 1 = k
    BY <1>1, <1>2
  <2> HIDE DEF k
  <2>2. k % MaxSize = IF k < MaxSize THEN k ELSE k - MaxSize
    BY <2>1, WrapOnce
  <2>3. first + i - 1 = k /\ old + i - 1 = k
    BY <2>1
  <2> QED BY <1>1, <1>2, <2>2, <2>3
<1> HIDE DEF first
<1> QED BY <1>3 DEF AllLines, View, first

LEMMA RecentLinesIsView ==
    TypeOK => RecentLines(0) = View(m_buffer, m_cursor, m_count)
<1>1. RecentLines(0) = AllLines(m_buffer, m_cursor, m_count)
  BY DEF RecentLines, Oldest, AllLines
<1> QED BY <1>1, AllLinesIsView DEF TypeOK

\* Storing a line in the slot of the cursor appends it to the lines of the
\* ring, and drops the oldest of them when the ring is full.
LEMMA PutAppends ==
    ASSUME NEW buf \in [Slots -> Line], NEW cur \in Slots,
           NEW cnt \in 0 .. MaxSize, NEW line \in Line,
           cnt < MaxSize => cur = cnt
    PROVE  View([buf EXCEPT ![cur] = line],
                IF cur + 1 = MaxSize THEN 0 ELSE cur + 1,
                IF cnt < MaxSize THEN cnt + 1 ELSE cnt)
             = History!Bounded(Append(View(buf, cur, cnt), line))
<1> USE MaxSizeAssumption DEF Slots
<1> DEFINE old  == View(buf, cur, cnt)
           next == IF cur + 1 = MaxSize THEN 0 ELSE cur + 1
           new  == View([buf EXCEPT ![cur] = line], next,
                        IF cnt < MaxSize THEN cnt + 1 ELSE cnt)
<1>1. old \in [1 .. cnt -> Line]
  BY DEF View
<1>2. old \in Seq(Line) /\ Len(old) = cnt
  BY <1>1
<1>3. CASE cnt < MaxSize
  <2>1. new = [i \in 1 .. cnt + 1 |-> IF i = cnt + 1 THEN line ELSE buf[i - 1]]
    BY <1>3 DEF View
  <2>2. old = [i \in 1 .. cnt |-> buf[i - 1]]
    BY <1>3 DEF View
  <2> HIDE DEF old, new
  <2>3. Append(old, line)
          = [i \in 1 .. cnt + 1 |-> IF i = cnt + 1 THEN line ELSE buf[i - 1]]
    BY <1>2, <2>2
  <2>4. Len(Append(old, line)) = cnt + 1
    BY <1>2
  <2>5. History!Bounded(Append(old, line)) = Append(old, line)
    BY <1>3, <2>4 DEF History!Bounded
  <2> QED BY <2>1, <2>3, <2>5 DEF old, new
<1>4. CASE cnt = MaxSize
  <2> DEFINE slot(i) == IF cur + i < MaxSize THEN cur + i ELSE cur + i - MaxSize
  <2>1. new = [i \in 1 .. MaxSize |-> IF i = MaxSize THEN line ELSE buf[slot(i)]]
    BY <1>4 DEF View
  <2>2. old = [i \in 1 .. MaxSize |-> buf[slot(i - 1)]]
    BY <1>4 DEF View
  <2> HIDE DEF old, new
  <2> DEFINE longer == Append(old, line)
  <2>3. longer \in Seq(Line) /\ Len(longer) = MaxSize + 1 /\ longer # <<>>
    BY <1>2, <1>4
  <2>4. \A i \in 1 .. MaxSize + 1 :
          longer[i] = IF i = MaxSize + 1 THEN line ELSE old[i]
    BY <1>2, <1>4
  <2> DEFINE shorter == Tail(longer)
  <2> HIDE DEF longer
  <2>5. shorter \in [1 .. MaxSize -> Line]
    <3>1. shorter \in Seq(Line) /\ Len(shorter) = MaxSize
      BY <2>3
    <3> HIDE DEF shorter
    <3> QED BY <3>1
  <2>6. \A i \in 1 .. MaxSize : shorter[i] = longer[i + 1]
    BY <2>3
  <2>7. History!Bounded(longer) = shorter
    BY <2>3 DEF History!Bounded
  <2> HIDE DEF shorter
  <2>8. \A i \in 1 .. MaxSize :
          shorter[i] = IF i = MaxSize THEN line ELSE buf[slot(i)]
    <3> SUFFICES ASSUME NEW i \in 1 .. MaxSize
                 PROVE  shorter[i] = IF i = MaxSize THEN line ELSE buf[slot(i)]
      OBVIOUS
    <3>1. shorter[i] = longer[i + 1] /\ i + 1 \in 1 .. MaxSize + 1
      BY <2>6
    <3>2. CASE i = MaxSize
      BY <3>1, <3>2, <2>4
    <3>3. CASE i # MaxSize
      <4>1. longer[i + 1] = old[i + 1] /\ i + 1 \in 1 .. MaxSize
        BY <3>1, <3>3, <2>4
      <4>2. old[i + 1] = buf[slot(i)]
        BY <4>1, <2>2
      <4> QED BY <3>1, <3>3, <4>1, <4>2
    <3> QED BY <3>2, <3>3
  <2> HIDE DEF slot
  <2>9. shorter = new
    BY <2>1, <2>5, <2>8
  <2> QED BY <2>7, <2>9 DEF longer, old, new
<1> QED BY <1>3, <1>4

-----------------------------------------------------------------------------
LEMMA InitRefines == Init => History!Init
<1> SUFFICES ASSUME Init PROVE History!Init
  OBVIOUS
<1>1. TypeOK /\ m_count = 0
  BY InvInitially DEF Inv, Init
<1>2. RecentLines(0) = <<>>
  BY <1>1, RecentLinesIsView DEF View
<1> QED BY <1>2 DEF Init, History!Init

LEMMA StepRefines ==
    Inv /\ Inv' /\ [Next]_vars => [History!Next]_(History!vars)
<1> SUFFICES ASSUME Inv, Inv', [Next]_vars
             PROVE  [History!Next]_(History!vars)
  OBVIOUS
<1>1. RecentLines(0) = View(m_buffer, m_cursor, m_count)
  BY RecentLinesIsView DEF Inv
<1>2. RecentLines(0)' = View(m_buffer', m_cursor', m_count')
  <2>1. m_cursor' \in Slots /\ m_count' \in 0 .. MaxSize
    BY DEF Inv, TypeOK
  <2>2. RecentLines(0)' = AllLines(m_buffer', m_cursor', m_count')
    BY DEF RecentLines, Oldest, AllLines
  <2> QED BY <2>1, <2>2, AllLinesIsView
<1> HIDE DEF RecentLines
<1>3. CASE Write
  <2>1. RecentLines(0)' = RecentLines(0)
    BY <1>1, <1>2, <1>3 DEF Write
  <2> QED BY <1>3, <2>1 DEF Write, History!Next, History!Write
<1>4. CASE PutLine
  <2>1. m_cursor' = IF m_cursor + 1 = MaxSize THEN 0 ELSE m_cursor + 1
    BY <1>4, NextSlot, MaxSizeAssumption DEF PutLine, Inv, TypeOK, Slots
  <2>2. Head(pending) \in Line
    BY <1>4 DEF PutLine, Inv, TypeOK
  <2>3. /\ m_buffer \in [Slots -> Line] /\ m_cursor \in Slots
        /\ m_count \in 0 .. MaxSize /\ (m_count < MaxSize => m_cursor = m_count)
    BY DEF Inv, TypeOK, CursorFollowsCount
  <2>4. View(m_buffer', m_cursor', m_count')
          = History!Bounded(Append(View(m_buffer, m_cursor, m_count), Head(pending)))
    <3>1. /\ m_buffer' = [m_buffer EXCEPT ![m_cursor] = Head(pending)]
          /\ m_count' = IF m_count < MaxSize THEN m_count + 1 ELSE m_count
      BY <1>4 DEF PutLine
    <3>2. View([m_buffer EXCEPT ![m_cursor] = Head(pending)],
               IF m_cursor + 1 = MaxSize THEN 0 ELSE m_cursor + 1,
               IF m_count < MaxSize THEN m_count + 1 ELSE m_count)
            = History!Bounded(Append(View(m_buffer, m_cursor, m_count), Head(pending)))
      BY <2>2, <2>3, PutAppends
    <3> QED BY <2>1, <3>1, <3>2
  <2>5. RecentLines(0)' = History!Bounded(Append(RecentLines(0), Head(pending)))
    BY <1>1, <1>2, <2>4
  <2> QED BY <1>4, <2>5 DEF PutLine, History!Next, History!TakeLine
<1>5. CASE Clear
  <2>1. RecentLines(0)' = <<>>
    BY <1>2, <1>5 DEF Clear, View
  <2> QED BY <1>5, <2>1 DEF Clear, History!Next, History!Clear
<1>6. CASE UNCHANGED vars
  <2>1. RecentLines(0)' = RecentLines(0)
    BY <1>1, <1>2, <1>6 DEF vars
  <2> QED BY <1>6, <2>1 DEF vars, History!vars
<1> QED BY <1>3, <1>4, <1>5, <1>6 DEF Next

\* Whatever the size of the ring and whatever is written, getRecentLines()
\* returns the last maxSize lines written since the last clear, in order.
THEOREM ImplementsLineHistory == Spec => RefinesLineHistory
<1>1. Spec => []Inv
  BY InvInitially, InvIsInductive, PTL DEF Spec
<1> QED BY <1>1, InitRefines, StepRefines, PTL
        DEF Spec, RefinesLineHistory, History!Spec

-----------------------------------------------------------------------------
(* A reader beside the writer *)

\* A line that is in its slot is the next line of the write.
StoredIsNext == stored => pending # <<>> /\ m_buffer[m_cursor] = Head(pending)

\* What the reader holds; the ring does not shrink under it.
ReadTypes ==
    /\ stored \in BOOLEAN /\ torn \in BOOLEAN /\ alone \in BOOLEAN
    /\ at \in {"idle", "start", "skip", "next", "copy"}
    /\ n \in Int /\ start \in Slots /\ lines \in Seq(Line)
    /\ targetCount \in 0 .. MaxSize
    /\ at # "idle" => targetCount <= m_count
    /\ at \in {"start", "skip"} => lines = <<>>
    /\ Len(lines) <= targetCount /\ (at = "copy" => Len(lines) < targetCount)

\* With nothing written since it began, the reader is where getRecentLines would be.
Wrapped(k) == IF k < MaxSize THEN k ELSE k - MaxSize
QuietSoFar ==
    at # "idle" /\ alone =>
        /\ ~stored
        /\ targetCount = IF n <= 0 \/ n > m_count THEN m_count ELSE n
        /\ at = "skip" => start = Oldest
        /\ at \in {"next", "copy"} =>
              /\ start = Wrapped(Oldest + (m_count - targetCount))
              /\ \A i \in 1 .. Len(lines) : lines[i] = m_buffer[Wrapped(start + i - 1)]

\* In a ring that is not full it reads slots below the one that is written.
FillingSoFar ==
    at # "idle" /\ m_count < MaxSize =>
        /\ ~torn
        /\ at = "skip" => start = 0
        /\ at \in {"next", "copy"} =>
              /\ start + targetCount <= m_count
              /\ \A i \in 1 .. Len(lines) : lines[i] = m_buffer[start + i - 1]

IdleIsClean == at = "idle" => ~torn

ReadInv == Inv /\ StoredIsNext /\ ReadTypes /\ QuietSoFar /\ FillingSoFar /\ IdleIsClean

LEMMA ReadInitially == ReadInit => ReadInv
<1> SUFFICES ASSUME ReadInit PROVE ReadInv
  OBVIOUS
<1>1. Inv BY InvInitially DEF ReadInit
<1>2. 0 \in Slots /\ 0 \in 0 .. MaxSize BY MaxSizeAssumption DEF Slots
<1>3. at = "idle" /\ stored = FALSE /\ torn = FALSE /\ alone = FALSE /\ n = 0 /\ start = 0 /\ targetCount = 0 /\ lines = <<>>
  BY DEF ReadInit
<1>4. lines \in Seq(Line) /\ Len(lines) = 0 BY <1>3
<1>5. StoredIsNext BY <1>3 DEF StoredIsNext
<1>6. ReadTypes
  <2>1. stored \in BOOLEAN /\ torn \in BOOLEAN /\ alone \in BOOLEAN BY <1>3
  <2>2. n \in Int /\ start \in Slots /\ targetCount \in 0 .. MaxSize BY <1>2, <1>3
  <2>3. Len(lines) <= targetCount BY <1>3, <1>4
  <2> QED BY <1>3, <1>4, <2>1, <2>2, <2>3 DEF ReadTypes
<1>7. QuietSoFar /\ FillingSoFar /\ IdleIsClean BY <1>3 DEF QuietSoFar, FillingSoFar, IdleIsClean
<1> QED BY <1>1, <1>5, <1>6, <1>7 DEF ReadInv

LEMMA WrappedIsMod ==
    ASSUME NEW k \in 0 .. 2 * MaxSize - 1
    PROVE  k % MaxSize = Wrapped(k) /\ Wrapped(k) \in Slots
<1>1. k % MaxSize = IF k < MaxSize THEN k ELSE k - MaxSize
  BY WrapOnce, MaxSizeAssumption
<1>2. Wrapped(k) = IF k < MaxSize THEN k ELSE k - MaxSize
  BY DEF Wrapped
<1>3. Wrapped(k) \in 0 .. MaxSize - 1
  BY <1>2, MaxSizeAssumption
<1> QED BY <1>1, <1>2, <1>3 DEF Slots

\* Steps of the reader leave the ring alone.
LEMMA ReaderKeepsInv ==
    ASSUME ReadInv,
           ReadTarget \/ ReadStart \/ Skip \/ BeginCopy \/ EndCopy \/ Return
    PROVE  ReadInv'
<1>1. UNCHANGED <<m_buffer, m_cursor, m_count, pending, stored>>
  BY DEF ReadTarget, ReadStart, Skip, BeginCopy, EndCopy, Return, vars
<1>2. Inv' /\ StoredIsNext'
  BY <1>1 DEF ReadInv, Inv, TypeOK, CursorFollowsCount, StoredIsNext
<1>3. /\ m_cursor \in Slots /\ m_count \in 0 .. MaxSize /\ m_buffer \in [Slots -> Line]
      /\ m_count < MaxSize => m_cursor = m_count
  BY DEF ReadInv, Inv, TypeOK, CursorFollowsCount
<1> USE MaxSizeAssumption DEF Slots
<1>4. CASE ReadTarget
  <2>1. lines' = <<>> /\ at' = "start" /\ alone' = ~stored /\ torn' = FALSE /\ start' = start
    BY <1>4 DEF ReadTarget
  <2>2. /\ n' \in Int
        /\ targetCount' = IF n' <= 0 \/ n' > m_count THEN m_count ELSE n'
    BY <1>4, LimitsAssumption DEF ReadTarget
  <2>3. targetCount' \in 0 .. MaxSize /\ targetCount' <= m_count
    BY <1>3, <2>2
  <2>4. lines' \in Seq(Line) /\ Len(lines') = 0
    BY <2>1
  <2>5. Len(lines') <= targetCount'
    BY <2>3, <2>4
  <2>6. torn' \in BOOLEAN /\ alone' \in BOOLEAN /\ stored' \in BOOLEAN
    BY <1>1, <2>1 DEF ReadInv, ReadTypes
  <2>7. ReadTypes'
    BY <1>1, <2>1, <2>2, <2>3, <2>4, <2>5, <2>6 DEF ReadInv, ReadTypes
  <2>8. QuietSoFar'
    BY <1>1, <2>1, <2>2 DEF QuietSoFar
  <2>9. FillingSoFar' /\ IdleIsClean'
    BY <2>1 DEF FillingSoFar, IdleIsClean
  <2> QED BY <1>2, <2>7, <2>8, <2>9 DEF ReadInv
<1>5. CASE ReadStart
  <2>1. /\ start' = Oldest /\ at = "start" /\ at' = "skip"
        /\ UNCHANGED <<n, targetCount, lines, alone, torn>>
    BY <1>5 DEF ReadStart, Oldest
  <2>2. Oldest \in Slots /\ (m_count < MaxSize => Oldest = 0) BY <1>3 DEF Oldest
  <2>3. Oldest' = Oldest BY <1>1 DEF Oldest
  <2> QED BY <1>1, <1>2, <2>1, <2>2, <2>3
          DEF ReadInv, ReadTypes, QuietSoFar, FillingSoFar, IdleIsClean
<1>6. CASE Skip
  <2>1. /\ start' = (start + (m_count - targetCount)) % MaxSize /\ at = "skip" /\ at' = "next"
        /\ UNCHANGED <<n, targetCount, lines, alone, torn>> /\ lines = <<>>
    BY <1>6 DEF Skip, ReadInv, ReadTypes
  <2>2. /\ start \in Slots /\ targetCount \in 0 .. MaxSize /\ targetCount <= m_count
    BY <2>1 DEF ReadInv, ReadTypes
  <2> DEFINE k == start + (m_count - targetCount)
  <2>3. k \in 0 .. 2 * MaxSize - 1 BY <1>3, <2>2
  <2>4. start' = Wrapped(k) /\ Wrapped(k) \in Slots
    <3> HIDE DEF k
    <3>1. k % MaxSize = Wrapped(k) /\ Wrapped(k) \in Slots BY <2>3, WrappedIsMod
    <3> QED BY <2>1, <3>1 DEF k
  <2>5. ReadTypes'
    BY <1>1, <2>1, <2>4 DEF ReadInv, ReadTypes
  <2>6. QuietSoFar'
    <3>1. Oldest' = Oldest BY <1>1 DEF Oldest
    <3> QED BY <1>1, <2>1, <2>4, <3>1 DEF ReadInv, QuietSoFar
  <2>7. FillingSoFar'
    <3>1. m_count < MaxSize => start = 0 /\ ~torn BY <2>1 DEF ReadInv, FillingSoFar
    <3>2. m_count < MaxSize => start' + targetCount = m_count
      BY <1>3, <2>2, <2>4, <3>1 DEF Wrapped
    <3>3. start' \in Nat /\ targetCount \in Nat /\ m_count \in Nat /\ Len(lines) = 0
      BY <1>3, <2>1, <2>2, <2>4
    <3>4. m_count < MaxSize => start' + targetCount <= m_count
      <4>1. m_count <= m_count BY <3>3
      <4> QED BY <3>2, <4>1, Zenon
    <3>5. \A i \in 1 .. Len(lines') : lines'[i] = m_buffer'[start' + i - 1]
      BY <2>1, <3>3
    <3> QED BY <1>1, <2>1, <3>1, <3>4, <3>5 DEF FillingSoFar
  <2> QED BY <1>2, <2>1, <2>5, <2>6, <2>7 DEF ReadInv, IdleIsClean
<1>7. CASE BeginCopy
  <2>1. Oldest' = Oldest BY <1>1 DEF Oldest
  <2> QED BY <1>1, <1>2, <1>7, <2>1
          DEF BeginCopy, ReadInv, ReadTypes, QuietSoFar, FillingSoFar, IdleIsClean
<1>8. CASE EndCopy
  <2>1. /\ lines' = Append(lines, m_buffer[Copied]) /\ at = "copy" /\ at' = "next"
        /\ UNCHANGED <<n, targetCount, start, alone, torn>>
    BY <1>8 DEF EndCopy
  <2>2. /\ start \in Slots /\ targetCount \in 0 .. MaxSize /\ targetCount <= m_count
        /\ lines \in Seq(Line) /\ Len(lines) \in Nat /\ Len(lines) < targetCount
    BY <2>1 DEF ReadInv, ReadTypes
  <2> DEFINE k == start + Len(lines)
  <2>3. k \in 0 .. 2 * MaxSize - 1 BY <2>2
  <2>4. Copied = Wrapped(k) /\ Wrapped(k) \in Slots
    <3> HIDE DEF k
    <3>1. k % MaxSize = Wrapped(k) /\ Wrapped(k) \in Slots BY <2>3, WrappedIsMod
    <3> QED BY <3>1 DEF k, Copied
  <2>5. m_buffer[Copied] \in Line BY <1>3, <2>4
  <2>6. /\ lines' \in Seq(Line) /\ Len(lines') = Len(lines) + 1
        /\ \A i \in 1 .. Len(lines) : lines'[i] = lines[i]
        /\ lines'[Len(lines) + 1] = m_buffer[Wrapped(start + Len(lines))]
    BY <2>1, <2>2, <2>4, <2>5
  <2>7. ReadTypes'
    BY <1>1, <2>1, <2>2, <2>6 DEF ReadInv, ReadTypes
  <2>8. QuietSoFar'
    <3>1. Oldest' = Oldest BY <1>1 DEF Oldest
    <3>2. ASSUME NEW i \in 1 .. Len(lines'), alone
          PROVE  lines'[i] = m_buffer[Wrapped(start + i - 1)]
      <4>1. CASE i = Len(lines) + 1
        <5>1. start + i - 1 = start + Len(lines) BY <2>2, <4>1
        <5> QED BY <2>6, <4>1, <5>1
      <4>2. CASE i \in 1 .. Len(lines)
        BY <2>1, <2>6, <3>2, <4>2 DEF ReadInv, QuietSoFar
      <4> QED BY <2>2, <2>6, <4>1, <4>2
    <3> QED BY <1>1, <2>1, <3>1, <3>2 DEF ReadInv, QuietSoFar
  <2>9. FillingSoFar'
    <3>1. m_count < MaxSize => ~torn /\ start + targetCount <= m_count
      BY <2>1 DEF ReadInv, FillingSoFar
    <3>2. ASSUME m_count < MaxSize, NEW i \in 1 .. Len(lines')
          PROVE  lines'[i] = m_buffer[start + i - 1]
      <4>1. CASE i = Len(lines) + 1
        <5>1. start + i - 1 = start + Len(lines) /\ Wrapped(start + Len(lines)) = start + Len(lines)
          BY <1>3, <2>2, <3>1, <3>2, <4>1 DEF Wrapped
        <5> QED BY <2>6, <4>1, <5>1
      <4>2. CASE i \in 1 .. Len(lines)
        BY <2>1, <2>6, <3>2, <4>2 DEF ReadInv, FillingSoFar
      <4> QED BY <2>2, <2>6, <4>1, <4>2
    <3> QED BY <1>1, <2>1, <3>1, <3>2 DEF FillingSoFar
  <2> QED BY <1>2, <2>1, <2>7, <2>8, <2>9 DEF ReadInv, IdleIsClean
<1>9. CASE Return
  <2>1. /\ at' = "idle" /\ lines' = <<>> /\ n' = 0 /\ targetCount' = 0 /\ start' = 0
        /\ torn' = FALSE /\ alone' = FALSE
    BY <1>9 DEF Return
  <2>2. lines' \in Seq(Line) /\ Len(lines') = 0 BY <2>1
  <2>3. 0 \in Slots /\ 0 \in 0 .. MaxSize BY MaxSizeAssumption
  <2>4. ReadTypes'
    <3>1. n' \in Int /\ start' \in Slots /\ targetCount' \in 0 .. MaxSize /\ stored' \in BOOLEAN
      BY <1>1, <2>1, <2>3 DEF ReadInv, ReadTypes
    <3>2. torn' \in BOOLEAN /\ alone' \in BOOLEAN
      BY <2>1
    <3>3. Len(lines') <= targetCount'
      BY <2>1, <2>2
    <3> QED BY <2>1, <2>2, <3>1, <3>2, <3>3 DEF ReadTypes
  <2>5. QuietSoFar' /\ FillingSoFar' /\ IdleIsClean'
    BY <2>1 DEF QuietSoFar, FillingSoFar, IdleIsClean
  <2> QED BY <1>2, <2>4, <2>5 DEF ReadInv
<1> QED BY <1>4, <1>5, <1>6, <1>7, <1>8, <1>9

\* The writer changes one slot, and then the cursor and the count.
LEMMA WriterKeepsInv ==
    ASSUME ReadInv, BeginWrite \/ StoreLine \/ MoveOn \/ ClearAll
    PROVE  ReadInv'
<1> USE MaxSizeAssumption DEF Slots, reading
<1>1. /\ m_cursor \in Slots /\ m_count \in 0 .. MaxSize /\ m_buffer \in [Slots -> Line]
      /\ m_count < MaxSize => m_cursor = m_count
      /\ pending \in Seq(Line)
  BY DEF ReadInv, Inv, TypeOK, CursorFollowsCount
<1>2. CASE BeginWrite
  <2>1. Inv' BY <1>2, InvIsInductive DEF BeginWrite, Next, ReadInv
  <2>2. /\ pending = <<>> /\ UNCHANGED <<m_buffer, m_cursor, m_count, stored, alone, torn>>
        /\ UNCHANGED reading
    BY <1>2 DEF BeginWrite, Write
  <2>3. Oldest' = Oldest BY <2>2 DEF Oldest
  <2> QED BY <2>1, <2>2, <2>3
          DEF ReadInv, StoredIsNext, ReadTypes, QuietSoFar, FillingSoFar, IdleIsClean
<1>3. CASE StoreLine
  <2>1. /\ pending # <<>> /\ stored' = TRUE /\ alone' = FALSE
        /\ m_buffer' = [m_buffer EXCEPT ![m_cursor] = Head(pending)]
        /\ torn' = (torn \/ (at = "copy" /\ m_cursor = Copied))
        /\ UNCHANGED <<m_cursor, m_count, pending>> /\ UNCHANGED reading
    BY <1>3 DEF StoreLine
  <2>2. Head(pending) \in Line BY <1>1, <2>1
  <2>3. Inv' BY <1>1, <2>1, <2>2 DEF Inv, TypeOK, CursorFollowsCount
  <2>4. StoredIsNext' BY <1>1, <2>1 DEF StoredIsNext
  <2>5. ReadTypes' BY <2>1 DEF ReadInv, ReadTypes
  <2>6. QuietSoFar' BY <2>1 DEF QuietSoFar
  <2>7. IdleIsClean' BY <2>1 DEF ReadInv, IdleIsClean
  <2>8. FillingSoFar'
    <3> SUFFICES ASSUME at # "idle", m_count < MaxSize
                 PROVE  FillingSoFar'
      BY <2>1 DEF FillingSoFar
    <3>1. /\ ~torn /\ m_cursor = m_count
          /\ at = "skip" => start = 0
          /\ at \in {"next", "copy"} =>
                /\ start + targetCount <= m_count
                /\ \A i \in 1 .. Len(lines) : lines[i] = m_buffer[start + i - 1]
      BY <1>1 DEF ReadInv, FillingSoFar
    <3>2. /\ start \in Slots /\ targetCount \in 0 .. MaxSize /\ Len(lines) \in Nat
          /\ Len(lines) <= targetCount /\ (at = "copy" => Len(lines) < targetCount)
      BY DEF ReadInv, ReadTypes
    <3>3. ASSUME at = "copy" PROVE Copied # m_cursor
      <4> DEFINE k == start + Len(lines)
      <4>1. k \in 0 .. MaxSize - 1 /\ k < m_cursor /\ k \in 0 .. 2 * MaxSize - 1
        BY <1>1, <3>1, <3>2, <3>3
      <4>2. Copied = Wrapped(k)
        <5> HIDE DEF k
        <5>1. k % MaxSize = Wrapped(k) BY <4>1, WrappedIsMod
        <5> QED BY <5>1 DEF k, Copied
      <4> HIDE DEF k
      <4> QED BY <1>1, <4>1, <4>2 DEF Wrapped
    <3>4. ASSUME at \in {"next", "copy"}, NEW i \in 1 .. Len(lines)
          PROVE  m_buffer'[start + i - 1] = m_buffer[start + i - 1]
      <4>1. start + i - 1 \in Slots /\ start + i - 1 # m_cursor
        BY <1>1, <3>1, <3>2, <3>4
      <4> QED BY <1>1, <2>1, <4>1
    <3> QED BY <2>1, <3>1, <3>3, <3>4 DEF FillingSoFar
  <2> QED BY <2>3, <2>4, <2>5, <2>6, <2>7, <2>8 DEF ReadInv
<1>4. CASE MoveOn
  <2>1. Inv' BY <1>4, InvIsInductive DEF MoveOn, Next, ReadInv
  <2>2. /\ stored /\ m_buffer' = [m_buffer EXCEPT ![m_cursor] = Head(pending)]
        /\ m_count' = IF m_count < MaxSize THEN m_count + 1 ELSE m_count
        /\ stored' = FALSE /\ alone' = FALSE /\ UNCHANGED torn /\ UNCHANGED reading
    BY <1>4 DEF MoveOn, PutLine
  <2>3. m_buffer' = m_buffer
    BY <1>1, <2>2 DEF ReadInv, StoredIsNext
  <2>4. m_count' \in 0 .. MaxSize /\ m_count <= m_count' /\ (m_count' < MaxSize => m_count < MaxSize)
    BY <1>1, <2>2
  <2>5. StoredIsNext' /\ QuietSoFar' BY <2>2 DEF StoredIsNext, QuietSoFar
  <2>6. ReadTypes'
    <3>1. targetCount \in Nat /\ m_count \in Nat /\ m_count' \in Nat
      BY <1>1, <2>4 DEF ReadInv, ReadTypes
    <3>2. at # "idle" => targetCount <= m_count' BY <2>4, <3>1 DEF ReadInv, ReadTypes
    <3> QED BY <2>2, <3>2 DEF ReadInv, ReadTypes
  <2>7. FillingSoFar'
    <3> SUFFICES ASSUME at # "idle", m_count' < MaxSize PROVE FillingSoFar'
      BY <2>2 DEF FillingSoFar
    <3>1. start \in Nat /\ targetCount \in Nat /\ m_count \in Nat /\ m_count' \in Nat
      BY <1>1, <2>4 DEF ReadInv, ReadTypes
    <3>2. /\ ~torn
          /\ at = "skip" => start = 0
          /\ at \in {"next", "copy"} =>
                /\ start + targetCount <= m_count
                /\ \A i \in 1 .. Len(lines) : lines[i] = m_buffer[start + i - 1]
      BY <2>4 DEF ReadInv, FillingSoFar
    <3>3. start + targetCount <= m_count => start + targetCount <= m_count'
      BY <2>4, <3>1
    <3> QED BY <2>2, <2>3, <3>2, <3>3 DEF FillingSoFar
  <2>8. IdleIsClean' BY <2>2 DEF ReadInv, IdleIsClean
  <2> QED BY <2>1, <2>5, <2>6, <2>7, <2>8 DEF ReadInv
<1>5. CASE ClearAll
  <2>1. Inv' BY <1>5, InvIsInductive DEF ClearAll, Next, ReadInv
  <2>2. /\ pending = <<>> /\ at = "idle" /\ UNCHANGED <<stored, alone, torn>> /\ UNCHANGED reading
    BY <1>5 DEF ClearAll, Clear
  <2>3. ~stored BY <2>2 DEF ReadInv, StoredIsNext
  <2> QED BY <2>1, <2>2, <2>3
          DEF ReadInv, StoredIsNext, ReadTypes, QuietSoFar, FillingSoFar, IdleIsClean
<1> QED BY <1>2, <1>3, <1>4, <1>5

LEMMA ReadInvIsInductive == ReadInv /\ [ReadNext]_allVars => ReadInv'
<1> SUFFICES ASSUME ReadInv, [ReadNext]_allVars PROVE ReadInv'
  OBVIOUS
<1>1. CASE ReadNext
  BY <1>1, ReaderKeepsInv, WriterKeepsInv DEF ReadNext
<1>2. CASE UNCHANGED allVars
  <2>1. Oldest' = Oldest BY <1>2 DEF Oldest, allVars, vars
  <2> QED BY <1>2, <2>1
          DEF allVars, vars, reading, ReadInv, Inv, TypeOK, CursorFollowsCount, StoredIsNext, ReadTypes,
              QuietSoFar, FillingSoFar, IdleIsClean
<1> QED BY <1>1, <1>2

LEMMA ReadInvHolds == ReadSpec => []ReadInv
BY ReadInitially, ReadInvIsInductive, PTL DEF ReadSpec

\* Skipping d lines and then i - 1 more is skipping all of them at once.
LEMMA SkipsAdd ==
    ASSUME NEW o \in Slots, NEW d \in Nat, NEW i \in Nat \ {0}, d + i <= MaxSize
    PROVE  Wrapped(Wrapped(o + d) + i - 1) = Wrapped(o + (i + d) - 1)
BY MaxSizeAssumption DEF Wrapped, Slots

LEMMA Window ==
    ASSUME NEW s \in Seq(Line), NEW t \in Seq(Line), NEW d \in Nat,
           d + Len(t) <= Len(s), \A i \in 1 .. Len(t) : t[i] = s[i + d]
    PROVE  t = SubSeq(s, d + 1, d + Len(t))
<1> DEFINE w == SubSeq(s, d + 1, d + Len(t))
<1>1. Len(s) \in Nat /\ Len(t) \in Nat
  OBVIOUS
<1>2. d + 1 \in 1 .. Len(s) + 1 /\ d + Len(t) \in d + 1 - 1 .. Len(s)
  BY <1>1
<1>3. /\ w \in Seq(Line) /\ Len(w) = d + Len(t) - (d + 1) + 1
      /\ \A i \in 1 .. d + Len(t) - (d + 1) + 1 : w[i] = s[d + 1 + i - 1]
  BY <1>2, SubSeqProperties
<1> HIDE DEF w
<1>4. Len(w) = Len(t) BY <1>1, <1>3
<1>5. ASSUME NEW i \in 1 .. Len(t) PROVE w[i] = t[i]
  <2>1. d + 1 + i - 1 = i + d /\ i \in 1 .. d + Len(t) - (d + 1) + 1 BY <1>1
  <2>2. w[i] = s[i + d] BY <1>3, <2>1
  <2> QED BY <2>2
<1>6. w = t BY <1>3, <1>4, <1>5, SeqEqual
<1> QED BY <1>6 DEF w

\* Without a write beside it, the read is the getRecentLines of one call.
LEMMA QuietRead == ReadInv => QuietReadIsRecent
<1> SUFFICES ASSUME ReadInv, Complete, alone
             PROVE  /\ lines = RecentLines(n)
                    /\ lines = SubSeq(RecentLines(0), m_count - targetCount + 1, m_count)
  BY DEF QuietReadIsRecent
<1>1. at = "next" /\ Len(lines) = targetCount /\ lines \in Seq(Line)
  BY DEF Complete, ReadInv, ReadTypes
<1>2. /\ m_buffer \in [Slots -> Line] /\ m_cursor \in Slots /\ m_count \in 0 .. MaxSize
  BY DEF ReadInv, Inv, TypeOK
<1>3. /\ targetCount = IF n <= 0 \/ n > m_count THEN m_count ELSE n
      /\ start = Wrapped(Oldest + (m_count - targetCount))
      /\ \A i \in 1 .. Len(lines) : lines[i] = m_buffer[Wrapped(start + i - 1)]
  BY <1>1 DEF ReadInv, QuietSoFar
<1>4. Oldest \in Slots /\ (m_count < MaxSize => Oldest = 0)
  BY <1>2, MaxSizeAssumption DEF Oldest, Slots
<1>5. targetCount \in 0 .. MaxSize /\ targetCount <= m_count
  BY <1>1 DEF ReadInv, ReadTypes
<1> DEFINE d == m_count - targetCount
<1>6. d \in Nat /\ d + targetCount = m_count /\ d <= MaxSize
  BY <1>2, <1>5, MaxSizeAssumption
<1>7. Len(lines) \in Nat /\ lines = [i \in 1 .. Len(lines) |-> lines[i]]
  BY <1>1
<1> HIDE DEF d
<1>8. lines = RecentLines(n)
  <2>1. RecentLines(n) = [i \in 1 .. targetCount |->
                              m_buffer[(((Oldest + d) % MaxSize) + i - 1) % MaxSize]]
    BY <1>3 DEF RecentLines, d
  <2>2. (Oldest + d) % MaxSize = start /\ start \in Slots
    <3> DEFINE k == Oldest + d
    <3>1. k \in 0 .. 2 * MaxSize - 1
      <4>1. d <= m_count BY <1>2, <1>5, <1>6
      <4> QED BY <1>2, <1>4, <1>6, <4>1, MaxSizeAssumption DEF Slots
    <3> HIDE DEF k
    <3>2. k % MaxSize = Wrapped(k) /\ Wrapped(k) \in Slots BY <3>1, WrappedIsMod
    <3> QED BY <1>3, <3>2 DEF k, d
  <2>3. ASSUME NEW i \in 1 .. targetCount
        PROVE  m_buffer[(start + i - 1) % MaxSize] = lines[i]
    <3> DEFINE k == start + i - 1
    <3>1. k \in 0 .. 2 * MaxSize - 1 BY <1>5, <2>2, MaxSizeAssumption DEF Slots
    <3> HIDE DEF k
    <3>2. k % MaxSize = Wrapped(k) BY <3>1, WrappedIsMod
    <3> QED BY <1>1, <1>3, <3>2 DEF k
  <2> HIDE DEF RecentLines
  <2> QED BY <1>1, <1>7, <2>1, <2>2, <2>3
<1>9. lines = SubSeq(RecentLines(0), d + 1, d + Len(lines))
  <2>1. RecentLines(0) = [i \in 1 .. m_count |-> m_buffer[Wrapped(Oldest + i - 1)]]
    BY RecentLinesIsView DEF ReadInv, Inv, View, Wrapped, Oldest
  <2> HIDE DEF RecentLines
  <2>2. \A i \in 1 .. m_count : Wrapped(Oldest + i - 1) \in Slots
    BY <1>2, <1>4, MaxSizeAssumption DEF Wrapped, Slots
  <2>3. RecentLines(0) \in Seq(Line) /\ Len(RecentLines(0)) = m_count
    BY <1>2, <2>1, <2>2
  <2>4. ASSUME NEW i \in 1 .. Len(lines)
        PROVE  lines[i] = RecentLines(0)[i + d]
    <3>1. i \in Nat \ {0} /\ i <= targetCount BY <1>1, <1>7
    <3>2. i + d \in 1 .. m_count /\ d + i <= MaxSize
      <4>1. m_count \in Nat /\ targetCount \in Nat /\ m_count <= MaxSize
        BY <1>2, <1>5, MaxSizeAssumption
      <4> QED BY <1>6, <3>1, <4>1, MaxSizeAssumption
    <3>3. RecentLines(0)[i + d] = m_buffer[Wrapped(Oldest + (i + d) - 1)] BY <2>1, <3>2
    <3>4. Wrapped(Wrapped(Oldest + d) + i - 1) = Wrapped(Oldest + (i + d) - 1)
      BY <1>4, <1>6, <3>1, <3>2, SkipsAdd
    <3> QED BY <1>3, <3>3, <3>4 DEF d
  <2> QED BY <1>1, <1>2, <1>6, <2>3, <2>4, Window
<1>10. d + Len(lines) = m_count BY <1>1, <1>6
<1> QED BY <1>8, <1>9, <1>10 DEF d

\* Until the ring is full the lines are those of the first slots, which no store touches.
LEMMA FillingRead == ReadInv => FillingReadIsWhole
<1> SUFFICES ASSUME ReadInv, m_count < MaxSize
             PROVE  /\ ~torn
                    /\ Complete => \E k \in 0 .. m_count - targetCount :
                                      lines = SubSeq(RecentLines(0), k + 1, k + targetCount)
  BY DEF FillingReadIsWhole
<1>1. ~torn
  BY DEF ReadInv, FillingSoFar, IdleIsClean
<1>2. ASSUME Complete
      PROVE  \E k \in 0 .. m_count - targetCount :
                 lines = SubSeq(RecentLines(0), k + 1, k + targetCount)
  <2>1. at = "next" /\ Len(lines) = targetCount /\ lines \in Seq(Line)
    BY <1>2 DEF Complete, ReadInv, ReadTypes
  <2>2. m_buffer \in [Slots -> Line] /\ m_count \in 0 .. MaxSize
    BY DEF ReadInv, Inv, TypeOK
  <2>3. /\ start + targetCount <= m_count
        /\ \A i \in 1 .. Len(lines) : lines[i] = m_buffer[start + i - 1]
    BY <2>1 DEF ReadInv, FillingSoFar
  <2>4. start \in Nat /\ targetCount \in Nat
    BY MaxSizeAssumption DEF Slots, ReadInv, ReadTypes
  <2>5. start \in 0 .. m_count - targetCount
    BY <2>2, <2>3, <2>4
  <2>6. RecentLines(0) = [i \in 1 .. m_count |-> m_buffer[i - 1]]
    BY <2>2, RecentLinesIsView, MaxSizeAssumption DEF ReadInv, Inv, View
  <2> HIDE DEF RecentLines
  <2>7. RecentLines(0) \in Seq(Line) /\ Len(RecentLines(0)) = m_count
    BY <2>2, <2>6, MaxSizeAssumption DEF Slots
  <2>8. ASSUME NEW i \in 1 .. Len(lines)
        PROVE  lines[i] = RecentLines(0)[i + start]
    <3>1. i \in Nat \ {0} /\ i <= targetCount BY <2>1
    <3>2. i + start \in 1 .. m_count /\ (i + start) - 1 = start + i - 1
      BY <2>2, <2>3, <2>4, <3>1
    <3>3. RecentLines(0)[i + start] = m_buffer[(i + start) - 1]
      <4> DEFINE k == i + start
      <4>1. k \in 1 .. m_count BY <3>2
      <4> HIDE DEF k
      <4>2. RecentLines(0)[k] = m_buffer[k - 1] BY <2>6, <4>1
      <4> QED BY <4>2 DEF k
    <3>4. lines[i] = m_buffer[start + i - 1] BY <2>3
    <3> QED BY <3>2, <3>3, <3>4
  <2>9. lines = SubSeq(RecentLines(0), start + 1, start + Len(lines))
    BY <2>1, <2>3, <2>4, <2>7, <2>8, Window
  <2> QED BY <2>1, <2>5, <2>9
<1> QED BY <1>1, <1>2

\* An attach that no output overlaps returns the last lines of the history, as many as
\* were asked for, although it looks at the ring one field at a time.
THEOREM QuietReadsAreRecent == ReadSpec => []QuietReadIsRecent
BY ReadInvHolds, QuietRead, PTL

\* Before the ring has filled, an attach beside output copies no line that is being
\* stored and returns consecutive lines of the history.
THEOREM FillingReadsAreWhole == ReadSpec => []FillingReadIsWhole
BY ReadInvHolds, FillingRead, PTL

-----------------------------------------------------------------------------
(* The bounded history, in steps of single stores *)

\* The cursor, the count and the lines to come once the line in its slot counts as put.
NextCursor == IF stored THEN (m_cursor + 1) % MaxSize ELSE m_cursor
NextCount  == IF stored /\ m_count < MaxSize THEN m_count + 1 ELSE m_count
NextLines  == IF stored THEN Tail(pending) ELSE pending

LEMMA RingIsView ==
    ReadInv => Ring!RecentLines(0) = View(m_buffer, NextCursor, NextCount)
<1> SUFFICES ASSUME ReadInv PROVE Ring!RecentLines(0) = View(m_buffer, NextCursor, NextCount)
  OBVIOUS
<1>1. m_cursor \in Slots /\ m_count \in 0 .. MaxSize
  BY DEF ReadInv, Inv, TypeOK
<1>2. NextCursor \in Slots
  BY <1>1, NextSlot, MaxSizeAssumption DEF NextCursor, Slots
<1>3. NextCount \in 0 .. MaxSize
  BY <1>1, MaxSizeAssumption DEF NextCount
<1>4. Ring!RecentLines(0) = AllLines(m_buffer, NextCursor, NextCount)
  BY DEF Ring!RecentLines, Ring!Oldest, AllLines, NextCursor, NextCount
<1> QED BY <1>2, <1>3, <1>4, AllLinesIsView

LEMMA ReadInitRefines == ReadInit => Ring!History!Init
<1> SUFFICES ASSUME ReadInit PROVE Ring!History!Init
  OBVIOUS
<1>1. NextCount = 0 /\ NextLines = <<>>
  BY DEF ReadInit, Init, NextCount, NextLines
<1>2. Ring!RecentLines(0) = <<>>
  BY <1>1, ReadInitially, RingIsView DEF View
<1> QED BY <1>1, <1>2 DEF Ring!History!Init, NextLines

LEMMA ReadStepRefines ==
    ReadInv /\ ReadInv' /\ [ReadNext]_allVars => [Ring!History!Next]_(Ring!History!vars)
<1> SUFFICES ASSUME ReadInv, ReadInv', [ReadNext]_allVars
             PROVE  [Ring!History!Next]_(Ring!History!vars)
  OBVIOUS
<1>1. Ring!RecentLines(0) = View(m_buffer, NextCursor, NextCount)
  BY RingIsView
<1>2. Ring!RecentLines(0)' = View(m_buffer', NextCursor', NextCount')
  <2>1. (Ring!RecentLines(0) = View(m_buffer, NextCursor, NextCount))'
    BY RingIsView, PTL
  <2> QED BY <2>1 DEF View
<1> HIDE DEF Ring!RecentLines
<1>3. /\ m_buffer \in [Slots -> Line] /\ m_cursor \in Slots /\ m_count \in 0 .. MaxSize
      /\ m_count < MaxSize => m_cursor = m_count
      /\ pending \in Seq(Line)
  BY DEF ReadInv, Inv, TypeOK, CursorFollowsCount
\* A step that leaves what counts as put as it is, is a stutter of the history.
<1>4. ASSUME UNCHANGED <<m_buffer, NextCursor, NextCount, NextLines>>
      PROVE  UNCHANGED Ring!History!vars
  BY <1>1, <1>2, <1>4 DEF Ring!History!vars, NextLines
<1>5. CASE BeginWrite
  <2>1. /\ pending = <<>> /\ pending' \in Chunks /\ UNCHANGED <<m_buffer, m_cursor, m_count, stored>>
    BY <1>5 DEF BeginWrite, Write
  <2>2. ~stored BY <2>1 DEF ReadInv, StoredIsNext
  <2>3. UNCHANGED <<NextCursor, NextCount>> BY <2>1 DEF NextCursor, NextCount
  <2>4. NextLines = <<>> /\ NextLines' \in Chunks BY <2>1, <2>2 DEF NextLines
  <2>5. Ring!RecentLines(0)' = Ring!RecentLines(0) BY <1>1, <1>2, <2>1, <2>3
  <2> QED BY <2>4, <2>5 DEF Ring!History!Next, Ring!History!Write, NextLines
<1>6. CASE StoreLine
  <2>1. /\ pending # <<>> /\ ~stored /\ stored'
        /\ m_buffer' = [m_buffer EXCEPT ![m_cursor] = Head(pending)]
        /\ UNCHANGED <<m_cursor, m_count, pending>>
    BY <1>6 DEF StoreLine
  <2>2. Head(pending) \in Line BY <1>3, <2>1
  <2>3. NextCursor = m_cursor /\ NextCount = m_count /\ NextLines = pending
    BY <2>1 DEF NextCursor, NextCount, NextLines
  <2>4. NextCursor' = IF m_cursor + 1 = MaxSize THEN 0 ELSE m_cursor + 1
    BY <1>3, <2>1, NextSlot, MaxSizeAssumption DEF NextCursor, Slots
  <2>5. NextCount' = IF m_count < MaxSize THEN m_count + 1 ELSE m_count
    BY <2>1 DEF NextCount
  <2>6. View(m_buffer', NextCursor', NextCount')
          = History!Bounded(Append(View(m_buffer, m_cursor, m_count), Head(pending)))
    <3>1. View([m_buffer EXCEPT ![m_cursor] = Head(pending)],
               IF m_cursor + 1 = MaxSize THEN 0 ELSE m_cursor + 1,
               IF m_count < MaxSize THEN m_count + 1 ELSE m_count)
            = History!Bounded(Append(View(m_buffer, m_cursor, m_count), Head(pending)))
      BY <1>3, <2>2, PutAppends
    <3> QED BY <2>1, <2>4, <2>5, <3>1
  <2>7. Ring!RecentLines(0)' = Ring!History!Bounded(Append(Ring!RecentLines(0), Head(NextLines)))
    BY <1>1, <1>2, <2>3, <2>6 DEF History!Bounded, Ring!History!Bounded
  <2>8. NextLines # <<>> /\ NextLines' = Tail(NextLines)
    BY <2>1, <2>3 DEF NextLines
  <2> QED BY <2>7, <2>8 DEF Ring!History!Next, Ring!History!TakeLine, NextLines
<1>7. CASE MoveOn
  <2>1. /\ stored /\ ~stored'
        /\ m_buffer' = [m_buffer EXCEPT ![m_cursor] = Head(pending)]
        /\ m_cursor' = (m_cursor + 1) % MaxSize
        /\ m_count' = IF m_count < MaxSize THEN m_count + 1 ELSE m_count
        /\ pending' = Tail(pending)
    BY <1>7 DEF MoveOn, PutLine
  <2>2. m_buffer' = m_buffer
    BY <1>3, <2>1 DEF ReadInv, StoredIsNext
  <2>3. UNCHANGED <<NextCursor, NextCount, NextLines>>
    BY <2>1 DEF NextCursor, NextCount, NextLines
  <2> QED BY <1>4, <2>2, <2>3
<1>8. CASE ClearAll
  <2>1. /\ pending = <<>> /\ m_count' = 0 /\ UNCHANGED <<pending, stored>>
    BY <1>8 DEF ClearAll, Clear
  <2>2. ~stored BY <2>1 DEF ReadInv, StoredIsNext
  <2>3. NextCount' = 0 /\ NextLines = <<>> /\ NextLines' = NextLines
    BY <2>1, <2>2 DEF NextCount, NextLines
  <2>4. Ring!RecentLines(0)' = <<>> BY <1>2, <2>3 DEF View
  <2> QED BY <2>3, <2>4 DEF Ring!History!Next, Ring!History!Clear, NextLines
<1>9. CASE ReadTarget \/ ReadStart \/ Skip \/ BeginCopy \/ EndCopy \/ Return \/ UNCHANGED allVars
  <2>1. UNCHANGED <<m_buffer, m_cursor, m_count, pending, stored>>
    BY <1>9 DEF ReadTarget, ReadStart, Skip, BeginCopy, EndCopy, Return, vars, allVars
  <2>2. UNCHANGED <<NextCursor, NextCount, NextLines>>
    BY <2>1 DEF NextCursor, NextCount, NextLines
  <2> QED BY <1>4, <2>1, <2>2
<1> QED BY <1>5, <1>6, <1>7, <1>8, <1>9 DEF ReadNext

\* The writer keeps the last maxSize lines also when its stores are taken one by one, with
\* a reader between them: a line enters the history with the store to its slot.
THEOREM KeepsHistoryInSteps == ReadSpec => RefinesBoundedHistory
BY ReadInvHolds, ReadInitRefines, ReadStepRefines, PTL
   DEF ReadSpec, RefinesBoundedHistory, Ring!RefinesLineHistory, Ring!History!Spec

=============================================================================
