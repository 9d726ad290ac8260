------------------------------ MODULE HistoryRead ------------------------------
(***************************************************************************)
(* The ring buffer with two threads on it and no lock: the read thread of   *)
(* the terminal writes (OutputBuffer), while the worker that handles an     *)
(* attach reads the history (getRecentLines, DaemonMain.cpp:195).           *)
(*                                                                          *)
(* A line is in its slot before cursor and count move on.  These two move   *)
(* in one step: the reader looks at the cursor only when the count is at    *)
(* its end and moves no more.  Copying a line out takes two steps, and a    *)
(* store to the same slot in between is a data race.                        *)
(***************************************************************************)
EXTENDS OutputBuffer

CONSTANT Limits     \* the arguments of getRecentLines; 0 asks for every line

ASSUME LimitsAssumption == Limits \subseteq Int

VARIABLES stored,   \* whether the next line is in its slot already
          at,       \* where the reader is
          n, targetCount, start, lines,
          alone,    \* whether nothing was written since the read began
          torn      \* whether a slot was stored to while it was copied

reading == <<at, n, targetCount, start, lines>>
allVars == <<vars, stored, reading, alone, torn>>

ReadInit ==
    /\ Init
    /\ stored = FALSE /\ at = "idle" /\ n = 0 /\ targetCount = 0 /\ start = 0
    /\ lines = <<>> /\ alone = FALSE /\ torn = FALSE

Copied == (start + Len(lines)) % MaxSize

-----------------------------------------------------------------------------
(* write, and clear, which nobody calls while another thread uses the buffer *)

BeginWrite ==
    /\ Write
    /\ UNCHANGED <<stored, reading, alone, torn>>

StoreLine ==
    /\ pending # <<>> /\ ~stored
    /\ m_buffer' = [m_buffer EXCEPT ![m_cursor] = Head(pending)]
    /\ stored' = TRUE /\ alone' = FALSE
    /\ torn' = (torn \/ (at = "copy" /\ m_cursor = Copied))
    /\ UNCHANGED <<m_cursor, m_count, pending, reading>>

MoveOn ==
    /\ stored /\ PutLine
    /\ stored' = FALSE /\ alone' = FALSE
    /\ UNCHANGED <<reading, torn>>

ClearAll ==
    /\ at = "idle" /\ Clear
    /\ UNCHANGED <<stored, reading, alone, torn>>

-----------------------------------------------------------------------------
(* getRecentLines, one look at the shared fields at a time *)

ReadTarget ==
    /\ at = "idle"
    /\ \E limit \in Limits :
         /\ n' = limit
         /\ targetCount' = IF limit <= 0 \/ limit > m_count THEN m_count ELSE limit
    /\ at' = "start" /\ lines' = <<>> /\ alone' = ~stored /\ torn' = FALSE
    /\ UNCHANGED <<vars, stored, start>>

ReadStartMutant ==          \* takes the cursor for the oldest line from the beginning
    /\ at = "start"
    /\ start' = m_cursor
    /\ at' = "skip"
    /\ UNCHANGED <<vars, stored, n, targetCount, lines, alone, torn>>

ReadStart ==
    /\ at = "start"
    /\ start' = IF m_count >= MaxSize THEN m_cursor ELSE 0
    /\ at' = "skip"
    /\ UNCHANGED <<vars, stored, n, targetCount, lines, alone, torn>>

SkipMutant ==               \* skips by the capacity
    /\ at = "skip"
    /\ start' = (start + (MaxSize - targetCount)) % MaxSize
    /\ at' = "next"
    /\ UNCHANGED <<vars, stored, n, targetCount, lines, alone, torn>>

Skip ==
    /\ at = "skip"
    /\ start' = (start + (m_count - targetCount)) % MaxSize
    /\ at' = "next"
    /\ UNCHANGED <<vars, stored, n, targetCount, lines, alone, torn>>

BeginCopy ==
    /\ at = "next" /\ Len(lines) < targetCount
    /\ at' = "copy"
    /\ UNCHANGED <<vars, stored, n, targetCount, start, lines, alone, torn>>

EndCopy ==
    /\ at = "copy"
    /\ lines' = Append(lines, m_buffer[Copied])
    /\ at' = "next"
    /\ UNCHANGED <<vars, stored, n, targetCount, start, alone, torn>>

Return ==
    /\ at = "next" /\ Len(lines) = targetCount
    /\ at' = "idle" /\ lines' = <<>> /\ n' = 0 /\ targetCount' = 0 /\ start' = 0
    /\ torn' = FALSE /\ alone' = FALSE
    /\ UNCHANGED <<vars, stored>>

-----------------------------------------------------------------------------
ReadNext == \/ BeginWrite \/ StoreLine \/ MoveOn \/ ClearAll
            \/ ReadTarget \/ ReadStart \/ Skip \/ BeginCopy \/ EndCopy \/ Return

ReadSpec == ReadInit /\ [][ReadNext]_allVars

-----------------------------------------------------------------------------
Complete == at = "next" /\ Len(lines) = targetCount

\* A read that no write overlaps returns the last lines of the history, as many as were
\* asked for.
QuietReadIsRecent ==
    Complete /\ alone => /\ lines = RecentLines(n)
                         /\ lines = SubSeq(RecentLines(0), m_count - targetCount + 1, m_count)

\* Until the ring has been filled, a read beside a write copies no line that is being
\* stored, and returns lines that were written one after the other, however the count
\* moves between its looks at it.
FillingReadIsWhole ==
    m_count < MaxSize =>
        /\ ~torn
        /\ Complete => \E k \in 0 .. m_count - targetCount :
                           lines = SubSeq(RecentLines(0), k + 1, k + targetCount)

\* The ring in which a line that is in its slot counts as put.
Ring == INSTANCE OutputBuffer WITH
            m_cursor <- IF stored THEN (m_cursor + 1) % MaxSize ELSE m_cursor,
            m_count <- IF stored /\ m_count < MaxSize THEN m_count + 1 ELSE m_count,
            pending <- IF stored THEN Tail(pending) ELSE pending

\* In steps of single stores too, the writer keeps the bounded history of lines.
RefinesBoundedHistory == Ring!RefinesLineHistory

-----------------------------------------------------------------------------
(* What does not hold *)

\* What an attach is given was printed, line by line ("Return history output",
\* DaemonMain.cpp).
ReadsAreWhole == ~torn
=============================================================================
