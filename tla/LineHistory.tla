----------------------------- MODULE LineHistory -----------------------------
(***************************************************************************)
(* What a session's output history promises: the lines of every write, in  *)
(* the order they were written, of which the most recent MaxLines are kept. *)
(* OutputBuffer implements it with a ring of slots, a cursor and a count.   *)
(***************************************************************************)
EXTENDS Integers, Sequences

CONSTANTS Line,     \* the lines a session can print
          Chunks,   \* what one write is split into: sequences of lines
          MaxLines  \* how many lines are kept

VARIABLES history,  \* the lines kept, oldest first
          incoming  \* the lines of the current write not yet appended

vars == <<history, incoming>>

\* The last MaxLines elements of a sequence that is at most one too long.
Bounded(s) == IF Len(s) > MaxLines THEN Tail(s) ELSE s

Init == history = <<>> /\ incoming = <<>>

Write == /\ incoming = <<>>
         /\ incoming' \in Chunks
         /\ UNCHANGED history

TakeLine == /\ incoming # <<>>
            /\ history' = Bounded(Append(history, Head(incoming)))
            /\ incoming' = Tail(incoming)

Clear == /\ incoming = <<>>
         /\ history' = <<>>
         /\ UNCHANGED incoming

Next == Write \/ TakeLine \/ Clear

Spec == Init /\ [][Next]_vars
=============================================================================
