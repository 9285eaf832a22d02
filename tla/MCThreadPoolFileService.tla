---------------------- MODULE MCThreadPoolFileService ----------------------
(***************************************************************************)
(* ThreadPoolFileService for TLC.  Services, files, operations and         *)
(* descriptors are not told apart, and the safety properties neither.      *)
(***************************************************************************)
EXTENDS ThreadPoolFileService, TLC

Symmetry == Permutations(Services) \cup Permutations(Files)
            \cup Permutations(Ops) \cup Permutations(Fds)

=============================================================================
