---------------------------- MODULE MCOutputBuffer ----------------------------
(* The buffer and its reader for TLC: chunks of one, two and four lines over three. *)
EXTENDS HistoryRead

MCLine == {"a", "b", ""}
MCChunks == {<<x>> : x \in MCLine \ {""}} \cup (MCLine \X MCLine)
             \cup {<<"a", "b", "a", "">>}
=============================================================================
