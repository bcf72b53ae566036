------------------------- MODULE SessionRefinement --------------------------
(***************************************************************************)
(* SessionService implements OneTimeSettlement.                            *)
(***************************************************************************)
EXTENDS SessionService

\* A session is open while it is in the map, and closed once it has left it.
AbsLife == [s \in Session |->
  IF post[s] \in {"new", "refused", "full"} THEN "absent"
  ELSE IF s \in sessions THEN "open" ELSE "closed"]

\* The outcome is settled when it is sent to a live receiver.
AbsOutcome == [s \in Session |-> IF chan[s] = None THEN "none" ELSE verdict[chan[s]]]

\* It is delivered when a result request reads it from the receiver.
AbsDelivered == [s \in Session |-> {r \in ResultReq : rses[r] = s /\ rgot[r] # None}]

Promise == INSTANCE OneTimeSettlement
  WITH Client <- ResultReq, life <- AbsLife, outcome <- AbsOutcome, delivered <- AbsDelivered

\* Every behaviour of the three endpoints is one of a one-time settlement: no
\* session is reopened, no outcome is replaced, none is delivered twice or before
\* it exists.
OneTimePromise == Promise!Spec
=============================================================================
