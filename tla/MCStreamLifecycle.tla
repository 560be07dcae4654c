------------------------ MODULE MCStreamLifecycle ------------------------
(* Small instances of StreamLifecycle for TLC. *)
EXTENDS StreamLifecycle, TLC

CONSTANTS p1, p2, u1, u2, c1, c2, t1, t2, t3

\* Names, UIDs, containers and tasks are interchangeable. Used in safety runs only.
Symmetry ==
  Permutations(Names) \cup Permutations(Uids) \cup Permutations(Containers)
    \cup Permutations(Tasks)
=============================================================================
