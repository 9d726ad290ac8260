----------------------------- MODULE OutputBuffer -----------------------------
(***************************************************************************)
(* The ring buffer that keeps a session's recent output                     *)
(* (Session/OutputBuffer.cpp).  The PTY read thread writes chunks of output *)
(* to it; an attach reads it back as the history of the session.            *)
(*                                                                          *)
(* A chunk is the sequence of lines that splitting the data at \n gives, so *)
(* it is never empty, and it is never the single empty line: that would be  *)
(* the empty string, which write returns from at once.                      *)
(***************************************************************************)
EXTENDS Integers, Sequences

CONSTANTS Line,       \* the lines a session can print
          EmptyLine,  \* the line between two consecutive \n
          Chunks,     \* what one call of write is split into
          MaxSize     \* m_maxSize, the number of slots

ASSUME LineAssumption == EmptyLine \in Line
ASSUME ChunksAssumption == Chunks \subseteq Seq(Line) \ {<<>>, <<EmptyLine>>}
\* ConfigManager::validate rejects an outputBufferLines that is not positive.
ASSUME MaxSizeAssumption == MaxSize \in Nat \ {0}

VARIABLES m_buffer,  \* the slots
          m_cursor,  \* the slot the next line goes to
          m_count,   \* how many slots hold a line
          pending    \* the lines of the current write that are not stored yet

vars == <<m_buffer, m_cursor, m_count, pending>>

Slots == 0 .. MaxSize - 1

TypeOK == /\ m_buffer \in [Slots -> Line]
          /\ m_cursor \in Slots
          /\ m_count \in 0 .. MaxSize
          /\ pending \in Seq(Line)

Init == /\ m_buffer = [s \in Slots |-> EmptyLine]
        /\ m_cursor = 0
        /\ m_count = 0
        /\ pending = <<>>

-----------------------------------------------------------------------------
(* write: the chunk is stored one line at a time. *)

Write == /\ pending = <<>>
         /\ pending' \in Chunks
         /\ UNCHANGED <<m_buffer, m_cursor, m_count>>

PutLine == /\ pending # <<>>
           /\ m_buffer' = [m_buffer EXCEPT ![m_cursor] = Head(pending)]
           /\ m_cursor' = (m_cursor + 1) % MaxSize
           /\ m_count' = IF m_count < MaxSize THEN m_count + 1 ELSE m_count
           /\ pending' = Tail(pending)

\* Mutant: clear forgets the cursor.
ClearKeepsCursor == /\ pending = <<>>
                    /\ m_buffer' = [s \in Slots |-> EmptyLine]
                    /\ m_count' = 0
                    /\ UNCHANGED <<m_cursor, pending>>

Clear == /\ pending = <<>>
         /\ m_buffer' = [s \in Slots |-> EmptyLine]
         /\ m_cursor' = 0
         /\ m_count' = 0
         /\ UNCHANGED pending

Next == Write \/ PutLine \/ Clear

Spec == Init /\ [][Next]_vars

-----------------------------------------------------------------------------
(* getRecentLines *)

\* Mutant: slot 0 is taken for the oldest line even when the ring has wrapped.
OldestIsFirstSlot == 0

\* When the ring is full the cursor is at the oldest line.
Oldest == IF m_count >= MaxSize THEN m_cursor ELSE 0

RecentLines(n) ==
    LET target == IF n <= 0 \/ n > m_count THEN m_count ELSE n
        start  == (Oldest + (m_count - target)) % MaxSize
    IN  [i \in 1 .. target |-> m_buffer[(start + i - 1) % MaxSize]]

-----------------------------------------------------------------------------
\* Asking for n lines gives the last n of what asking for all of them gives,
\* wherever the cursor stands: the two offsets of getRecentLines (the oldest
\* slot and the lines skipped) are each taken modulo the size.
RecentIsSuffixOfAll ==
    \A n \in 1 .. m_count :
        RecentLines(n) = SubSeq(RecentLines(0), m_count - n + 1, m_count)

\* Until the ring is full the cursor is also the number of lines stored.
CursorFollowsCount == m_count < MaxSize => m_cursor = m_count

\* The ring implements the bounded history of lines.
History == INSTANCE LineHistory
             WITH history <- RecentLines(0), incoming <- pending,
                  MaxLines <- MaxSize
RefinesLineHistory == History!Spec
=============================================================================
