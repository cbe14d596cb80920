---------------------------- MODULE MCKqueueServer -----------------------------
(* Instances of KqueueServer for TLC. *)
EXTENDS KqueueServer, TLC

(* Connections are interchangeable, and so are servers when none of their  *)
(* callbacks closes early: the runs that use this check safety only.       *)
Symmetry == Permutations(Conns) \cup Permutations(Fds) \cup Permutations(Servers)
================================================================================
