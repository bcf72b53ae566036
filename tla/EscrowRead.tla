----------------------------- MODULE EscrowRead -----------------------------
(***************************************************************************)
(* What a settlement may rely on when it reads the escrow, without calls,  *)
(* retries or batches: a read looks at the purchase at one moment between  *)
(* its begin and its end, goes on only if the purchase is active then, and *)
(* returns that purchase or nothing.  The purchase may be settled, and     *)
(* replaced by another, before the read returns.                           *)
(***************************************************************************)
CONSTANT None

VARIABLES
  purchase,   \* the purchase of the asset on chain; purchase.active
  stage,      \* "idle", "chain", "parties" once it was seen active, "returned" or "failed"
  looked      \* the purchase that was seen, None before that and after a failure

readVars == <<purchase, stage, looked>>

Init == stage = "idle" /\ looked = None

\* A purchase that is active can only be settled; then another may follow.
Transaction ==
  /\ purchase.active => purchase' = [purchase EXCEPT !.active = FALSE]
  /\ UNCHANGED <<stage, looked>>

Begin == stage = "idle" /\ stage' = "chain" /\ UNCHANGED <<purchase, looked>>

Look ==
  /\ stage = "chain" /\ purchase.active
  /\ stage' = "parties"
  /\ looked' = purchase
  /\ UNCHANGED purchase

Return == stage = "parties" /\ stage' = "returned" /\ UNCHANGED <<purchase, looked>>

\* Refused, failed or timed out, possibly before it began.
GiveUp ==
  /\ stage \in {"idle", "chain", "parties"}
  /\ stage' = "failed"
  /\ looked' = None
  /\ UNCHANGED purchase

Next == Transaction \/ Begin \/ Look \/ Return \/ GiveUp

Spec == Init /\ [][Next]_readVars
=============================================================================
