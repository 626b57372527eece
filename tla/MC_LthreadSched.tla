-------------------------- MODULE MC_LthreadSched --------------------------
(* Small instances of LthreadSched for TLC.                                *)
EXTENDS LthreadSched

Symmetry == Permutations(Lthread)

(* All calls but the waits on fds.                                         *)
SyncApi == ApiNames \ {"fd", "close"}
(* The waits on fds, and what may end one.                                 *)
FdApi == {"create", "fd", "close", "cancel"}
=============================================================================
