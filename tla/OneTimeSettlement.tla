------------------------- MODULE OneTimeSettlement --------------------------
(***************************************************************************)
(* What the three session endpoints promise together, without handlers,    *)
(* locks, channels or permits: a session is opened and closed once; it is  *)
(* settled at most once and its outcome never changes; the outcome is      *)
(* delivered at most once and only after it exists.  Closing is not tied   *)
(* to delivery: a session may close unsettled, and an outcome may be       *)
(* delivered to a request that was already waiting when it closed.         *)
(***************************************************************************)
CONSTANTS Session, Client

VARIABLES
  life,       \* life[s]: "absent", then "open", then "closed"
  outcome,    \* outcome[s]: "none", then "signed" or "failed"
  delivered   \* delivered[s]: the clients that the outcome of s was delivered to

absVars == <<life, outcome, delivered>>

Init ==
  /\ life = [s \in Session |-> "absent"]
  /\ outcome = [s \in Session |-> "none"]
  /\ delivered = [s \in Session |-> {}]

Open(s) ==
  /\ life[s] = "absent"
  /\ life' = [life EXCEPT ![s] = "open"]
  /\ UNCHANGED <<outcome, delivered>>

Settle(s) ==
  /\ life[s] # "absent"
  /\ outcome[s] = "none"
  /\ \E v \in {"signed", "failed"} : outcome' = [outcome EXCEPT ![s] = v]
  /\ UNCHANGED <<life, delivered>>

Deliver(s, c) ==
  /\ outcome[s] # "none"
  /\ delivered[s] = {}
  /\ delivered' = [delivered EXCEPT ![s] = {c}]
  /\ UNCHANGED <<life, outcome>>

Close(s) ==
  /\ life[s] = "open"
  /\ life' = [life EXCEPT ![s] = "closed"]
  /\ UNCHANGED <<outcome, delivered>>

Next == \E s \in Session :
  Open(s) \/ Settle(s) \/ (\E c \in Client : Deliver(s, c)) \/ Close(s)

Spec == Init /\ [][Next]_absVars
=============================================================================
