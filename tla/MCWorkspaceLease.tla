-------------------------- MODULE MCWorkspaceLease -------------------------
(* Small instances of WorkspaceLease for TLC.                               *)
EXTENDS WorkspaceLease, TLC

\* Processes, process ids and inode numbers are only ever compared.
MCSymmetry == Permutations(Procs) \cup Permutations(Pids)
=============================================================================
