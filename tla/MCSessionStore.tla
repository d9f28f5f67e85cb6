--------------------------- MODULE MCSessionStore ---------------------------
(***************************************************************************)
(* SessionStore on small instances, its ids and hosts interchangeable.     *)
(***************************************************************************)
EXTENDS SessionStore, TLC

Interchangeable == Permutations(Sessions) \cup Permutations(Hosts)
=============================================================================
