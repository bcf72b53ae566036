-------------------------- MODULE MCSessionService --------------------------
(* Model-checking instances of SessionService. *)
EXTENDS SessionRefinement, TLC

\* The ids carry no order and no meaning: any permutation of each set will do.
Symmetry ==
  Permutations(Session) \cup Permutations(NotaryReq) \cup Permutations(ResultReq)
=============================================================================
