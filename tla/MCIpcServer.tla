------------------------------ MODULE MCIpcServer ------------------------------
(* IpcServer for TLC: a byte in MCLineEnds ends a request. *)
EXTENDS IpcServer, TLC

MCLineEnds == {2}
WorkersAreAlike == Permutations(Workers)
=============================================================================
