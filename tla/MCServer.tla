------------------------------ MODULE MCServer ------------------------------
(***************************************************************************)
(* Server on small instances: one session, one client, a channel of two    *)
(* slots, and one worker (the runtime of the repository's own tests, or of *)
(* a one-core machine) or two.                                             *)
(***************************************************************************)
EXTENDS Server
=============================================================================
