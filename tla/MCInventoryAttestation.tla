----------------------- MODULE MCInventoryAttestation -----------------------
(* The instance of InventoryAttestation that TLC checks. *)
EXTENDS InventoryAttestation, TLC

CONSTANT alice

\* Alice owns two assets; the third is still to come.
MCInventories == {[a \in Asset |-> IF a = 3 THEN None ELSE alice]}

\* The second page, and beyond the page limit.
MCAsked == {<<alice, 2>>, <<alice, 3>>}
MCSymmetry == Permutations(Request)
=============================================================================
