-------------------------- MODULE MCSessionService --------------------------
(***************************************************************************)
(* Small instances of SessionService for TLC.                              *)
(***************************************************************************)
EXTENDS SessionService, TLC

CONSTANTS ann, bob

\* Two callers do the same things (not for runs with a liveness property).
MCCallers == Permutations(Callers)
=============================================================================
