-------------------------- MODULE ReaderRefinement --------------------------
(***************************************************************************)
(* ChainReader implements EscrowRead.                                      *)
(***************************************************************************)
EXTENDS ChainReader

\* The purchases call has returned an active purchase.
SeenActive == state["purchases"] = "ok" /\ value["purchases"].active

\* A snapshot is a read that returned.
ReadStage ==
  IF step = "idle" THEN "idle"
  ELSE IF step = "batch1" THEN (IF SeenActive THEN "parties" ELSE "chain")
  ELSE IF step = "batch2" THEN "parties"
  ELSE IF snapshot # None THEN "returned" ELSE "failed"

\* What was looked at is the answer of the call, and then what the snapshot says.
ReadLooked ==
  IF ReadStage = "parties" THEN value["purchases"]
  ELSE IF ReadStage = "returned" THEN snapshot.purchase ELSE None

Read == INSTANCE EscrowRead WITH stage <- ReadStage, looked <- ReadLooked

\* Five calls in two batches, each with its retries, amount to one look at the
\* purchase: read_escrow returns the purchase that its one successful call saw
\* active, during the read, and nothing after a failure or a timeout.
ReadsAtOneMoment == Read!Spec
=============================================================================
