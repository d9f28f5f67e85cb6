----------------------------- MODULE MCViewModel -----------------------------
(***************************************************************************)
(* A small instance of ViewModel: one session, two statuses that count in  *)
(* the summary in different ways, two observers.                           *)
(***************************************************************************)
EXTENDS ViewModel, TLC

MCSymmetry == Permutations(Observers)
=============================================================================
