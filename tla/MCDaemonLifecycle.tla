--------------------------- MODULE MCDaemonLifecycle ---------------------------
(* A small instance of DaemonLifecycle for the model checker. *)
EXTENDS DaemonLifecycle, TLC

\* What load accepts.  One that it does not accept is the file init writes.
MCUserConfigs == {[f \in Fields |-> "valid"]}

\* No definition tells two commands or two PIDs apart.
MCSymmetry == Permutations(Commands) \cup Permutations(Daemons)
=============================================================================
