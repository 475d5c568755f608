--------------------------- MODULE MCSessionStore ---------------------------
(* SessionStore for TLC: requests, workers and ids are interchangeable. *)
EXTENDS SessionStore

Symmetry ==
  Permutations(Sid) \cup Permutations(Worker) \cup Permutations(Request)
=============================================================================
