---------------------------- MODULE MCFileStore ----------------------------
(***************************************************************************)
(* Instance of FileStore for TLC: processes are interchangeable.           *)
(***************************************************************************)
EXTENDS FileStore, TLC

ProcSymmetry == Permutations(Procs)

=============================================================================
