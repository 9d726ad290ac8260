--------------------------- MODULE MCIpcServerSend ---------------------------
(* IpcServerSend for TLC: the byte in MCLineEnds ends a request. *)
EXTENDS IpcServerSend

MCLineEnds == {2}
=============================================================================
