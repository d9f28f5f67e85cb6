--------------------------- MODULE MCCodexSessions ---------------------------
(***************************************************************************)
(* CodexSessions on small instances: two threads, one hook process or two. *)
(***************************************************************************)
EXTENDS CodexSessions
=============================================================================
