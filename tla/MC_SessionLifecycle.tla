------------------------ MODULE MC_SessionLifecycle ------------------------
(* Small instances of SessionLifecycle for TLC. *)
EXTENDS SessionLifecycle, TLC

\* Sessions and request slots are interchangeable; used for safety only.
Symmetry == Permutations(Sessions) \cup Permutations(Requests)
=============================================================================
