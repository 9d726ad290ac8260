---------------------------- MODULE MCSessionOutput ----------------------------
(* SessionOutput for TLC: the clients are interchangeable in the safety runs. *)
EXTENDS SessionOutput, TLC

ClientsAreAlike == Permutations(Clients)
=============================================================================
