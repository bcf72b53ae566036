---------------------------- MODULE Notarization ----------------------------
(***************************************************************************)
(* What a claimed session does once its WebSocket is up: the task          *)
(* handle_notarize_websocket of main.rs with run_mpc_tls and               *)
(* create_settlement_result of verifier.rs.  The task runs the MPC-TLS     *)
(* protocol with a prover, shuts the session driver down, reads the escrow *)
(* from the chain, decides and signs, all against one overall deadline.    *)
(*                                                                         *)
(* Time is discrete.  A timer fires before the clock moves past it, and    *)
(* a poll that finds its future ready wins over its timer (tokio::timeout  *)
(* polls the future first), so both may happen at the deadline itself.     *)
(*                                                                         *)
(* Phases: idle, commit, run, verify, reveal, close (the protocol, under   *)
(* the first timeout), drain and teardown (the driver's grace), chain and  *)
(* parties (the two batches of the chain read) and settle (under what is   *)
(* left of the overall deadline), done.                                    *)
(***************************************************************************)
EXTENDS SteamWorld

CONSTANTS
  Task,              \* the notarization tasks
  Timeout,           \* config.notarization.timeout
  Grace,             \* DRIVER_SHUTDOWN_GRACE
  AbandonedWindow,   \* JJSKIN.abandonedWindow()
  SettleTimes        \* bound: when the purchase may be settled on chain

ASSUME TimingAssumption == {Timeout, Grace, AbandonedWindow} \subseteq Nat

VARIABLES
  phase,      \* phase[t]
  started,    \* when t fixed its overall deadline, or None
  timer,      \* when the timeout that t awaits under fires, or None
  driver,     \* driver[t]: none, running, stopped or aborted
  prover,     \* the account at the other end of t, or None
  capture,    \* the transcript that t verified, or None
  seen,       \* when Steam answered the request in capture, or None
  escrow,     \* the EscrowSnapshot t read, or None
  outcome,    \* outcome[t]: None, or what t publishes
  signed,     \* when t signed its settlement, or None
  settled     \* when the purchase was settled on chain, or None while it is active

taskVars == <<phase, started, timer, driver, prover, capture, seen, escrow, outcome, signed>>
vars == <<world, taskVars, settled>>

Protocol == {"commit", "run", "verify", "reveal", "close"}

overall_deadline(t) == started[t] + Timeout

\* The escrow as the contracts hold it; the purchase was made at time 0.
ChainEscrow ==
  [asset_id |-> Asset, trade_offer_id |-> OfferId, purchase_time |-> 0,
   abandoned_window |-> AbandonedWindow,
   seller_steam_id |-> Steam64(Seller), buyer_steam_id |-> Steam64(Buyer)]

Init ==
  /\ WorldInit
  /\ phase = [t \in Task |-> "idle"]
  /\ started = [t \in Task |-> None]
  /\ timer = [t \in Task |-> None]
  /\ driver = [t \in Task |-> "none"]
  /\ prover = [t \in Task |-> None]
  /\ capture = [t \in Task |-> None]
  /\ seen = [t \in Task |-> None]
  /\ escrow = [t \in Task |-> None]
  /\ outcome = [t \in Task |-> None]
  /\ signed = [t \in Task |-> None]
  /\ settled = None

\* The task ends with an error, or keeps the error it already has.
Ends(t, error) ==
  /\ phase' = [phase EXCEPT ![t] = "done"]
  /\ timer' = [timer EXCEPT ![t] = None]
  /\ outcome' = [outcome EXCEPT ![t] = IF @ = None THEN Err(error) ELSE @]

-----------------------------------------------------------------------------
(* run_mpc_tls *)

\* The deadline is fixed, the driver task spawned and the protocol's timeout
\* armed.
Start(t) ==
  /\ phase[t] = "idle"
  /\ now + Timeout + Grace < MaxTime
  /\ \E account \in Accounts : prover' = [prover EXCEPT ![t] = account]
  /\ phase' = [phase EXCEPT ![t] = "commit"]
  /\ started' = [started EXCEPT ![t] = now]
  /\ timer' = [timer EXCEPT ![t] = now + Timeout]
  /\ driver' = [driver EXCEPT ![t] = "running"]
  /\ UNCHANGED <<world, capture, seen, escrow, outcome, signed, settled>>

\* A stage of the protocol completes.
Advance(t, from, to) ==
  /\ phase[t] = from
  /\ phase' = [phase EXCEPT ![t] = to]
  /\ UNCHANGED <<world, started, timer, driver, prover, escrow, outcome, signed, settled>>

\* The prover proposed MPC-TLS within the transcript limits: accept().
CommitAccepted(t) == Advance(t, "commit", "run") /\ UNCHANGED <<capture, seen>>

\* run(): Steam answers the prover's request at this moment.
Observe(t) ==
  /\ Advance(t, "run", "verify")
  /\ \E c \in Captures(prover[t]) : capture' = [capture EXCEPT ![t] = c]
  /\ seen' = [seen EXCEPT ![t] = now]

\* verify(): the prover asks to reveal the server identity and a transcript.
Verified(t) == Advance(t, "verify", "reveal") /\ UNCHANGED <<capture, seen>>

\* accept(): the authenticated output; then close().
OutputAccepted(t) == Advance(t, "reveal", "close") /\ UNCHANGED <<capture, seen>>

\* Faulty variant: the driver is awaited without a timeout.
CloseHandle_NoGrace(t, to) ==
  /\ phase' = [phase EXCEPT ![t] = to]
  /\ timer' = [timer EXCEPT ![t] = None]
  /\ UNCHANGED <<world, started, driver, prover, capture, seen, escrow, signed, settled>>

\* The handle is closed and the driver is awaited for DRIVER_SHUTDOWN_GRACE.
CloseHandle(t, to) ==
  /\ phase' = [phase EXCEPT ![t] = to]
  /\ timer' = [timer EXCEPT ![t] = now + Grace]
  /\ UNCHANGED <<world, started, driver, prover, capture, seen, escrow, signed, settled>>

ProtocolSucceeds(t) ==
  /\ phase[t] = "close"
  /\ CloseHandle(t, "drain")
  /\ UNCHANGED outcome

\* A stage returns an error: proxy mode or transcript limits refused at commit,
\* an incomplete reveal refused at reveal, or the peer or the network failing.
ProtocolFails(t) ==
  /\ phase[t] \in Protocol
  /\ CloseHandle(t, "teardown")
  /\ outcome' = [outcome EXCEPT ![t] = Err("Session")]

\* The timer that t awaits under is due.
Due(t) == timer[t] # None /\ now >= timer[t]

ProtocolTimesOut(t) ==
  /\ phase[t] \in Protocol
  /\ Due(t)
  /\ CloseHandle(t, "teardown")
  /\ outcome' = [outcome EXCEPT ![t] = Err("Timeout")]

-----------------------------------------------------------------------------
(* finish_driver_after_close, teardown_failed_session *)

\* Faulty variant: no time left is taken for a timeout of zero.
Continue_Saturating(t, to) ==
  /\ phase' = [phase EXCEPT ![t] = to]
  /\ timer' = [timer EXCEPT ![t] = overall_deadline(t)]
  /\ UNCHANGED outcome

\* The next step runs under what remaining_deadline leaves of the overall
\* deadline; with nothing left the task ends.
Continue(t, to) ==
  \/ /\ now <= overall_deadline(t)
     /\ phase' = [phase EXCEPT ![t] = to]
     /\ timer' = [timer EXCEPT ![t] = overall_deadline(t)]
     /\ UNCHANGED outcome
  \/ /\ now > overall_deadline(t)
     /\ Ends(t, "Timeout")

\* The driver of a verified session returns Ok within its grace.
DriverStops(t) ==
  /\ phase[t] = "drain"
  /\ driver' = [driver EXCEPT ![t] = "stopped"]
  /\ Continue(t, "chain")
  /\ UNCHANGED <<world, started, prover, capture, seen, escrow, signed, settled>>

\* The driver of a failed session stops, or any driver returns an error.
DriverFails(t) ==
  /\ phase[t] \in {"drain", "teardown"}
  /\ driver' = [driver EXCEPT ![t] = "stopped"]
  /\ Ends(t, "Session")
  /\ UNCHANGED <<world, started, prover, capture, seen, escrow, signed, settled>>

\* Faulty variant: a failed session is left behind with its driver running.
DriverAborted_Detached(t) ==
  /\ phase[t] \in {"drain", "teardown"}
  /\ Due(t)
  /\ driver' = [driver EXCEPT ![t] = IF phase[t] = "drain" THEN "aborted" ELSE @]
  /\ Ends(t, "Session")
  /\ UNCHANGED <<world, started, prover, capture, seen, escrow, signed, settled>>

\* The grace is over: abort the driver and wait for it; even a session that was
\* verified ends in an error.
DriverAborted(t) ==
  /\ phase[t] \in {"drain", "teardown"}
  /\ Due(t)
  /\ driver' = [driver EXCEPT ![t] = "aborted"]
  /\ Ends(t, "Session")
  /\ UNCHANGED <<world, started, prover, capture, seen, escrow, signed, settled>>

-----------------------------------------------------------------------------
(* Chain read and settlement *)

\* Faulty variant: the status of the purchase is not looked at.
PurchaseRead_AnyStatus(t) ==
  /\ Advance(t, "chain", "parties")
  /\ UNCHANGED <<capture, seen>>

\* The first batch of read_escrow finds the purchase active.  It may be settled
\* before the read ends.
PurchaseRead(t) ==
  /\ settled = None
  /\ Advance(t, "chain", "parties")
  /\ UNCHANGED <<capture, seen>>

\* The second batch finds both parties registered: read_escrow returns a snapshot.
ChainRead(t) ==
  /\ phase[t] = "parties"
  /\ escrow' = [escrow EXCEPT ![t] = ChainEscrow]
  /\ Continue(t, "settle")
  /\ UNCHANGED <<world, started, driver, prover, capture, seen, signed, settled>>

\* The purchase is not active any more, or the RPC failed.
ChainReadFails(t) ==
  /\ phase[t] \in {"chain", "parties"}
  /\ Ends(t, "ChainRead")
  /\ UNCHANGED <<world, started, driver, prover, capture, seen, escrow, signed, settled>>

\* The timeout around the chain read or the settlement fires.
DeadlineExceeded(t) ==
  /\ phase[t] \in {"chain", "parties", "settle"}
  /\ Due(t)
  /\ Ends(t, "Timeout")
  /\ UNCHANGED <<world, started, driver, prover, capture, seen, escrow, signed, settled>>

\* The decision on t's transcript with proof_timestamp = time.
DecisionAt(t, time) == decide(capture[t], escrow[t], time)

Settles(result) == result.tag = "settled"

\* create_settlement_result: proof_timestamp is the wall clock of the decision,
\* and the settlement it yields is signed.
Sign(t) ==
  /\ phase[t] = "settle"
  /\ Settles(DecisionAt(t, now))
  /\ outcome' = [outcome EXCEPT ![t] = DecisionAt(t, now)]
  /\ signed' = [signed EXCEPT ![t] = now]
  /\ phase' = [phase EXCEPT ![t] = "done"]
  /\ timer' = [timer EXCEPT ![t] = None]
  /\ UNCHANGED <<world, started, driver, prover, capture, seen, escrow, settled>>

\* decide refuses, or the signer fails.
SettlementFails(t) ==
  /\ phase[t] = "settle"
  /\ Ends(t, "Settlement")
  /\ UNCHANGED <<world, started, driver, prover, capture, seen, escrow, signed, settled>>

-----------------------------------------------------------------------------
\* The contract settles the active purchase (external): with a signature of one
\* of these tasks, of an earlier one, or of another registered oracle.
PurchaseSettled ==
  /\ settled = None
  /\ now \in SettleTimes
  /\ settled' = now
  /\ UNCHANGED <<world, taskVars>>

\* The clock waits until every task whose timer is due has been polled.
Tick ==
  /\ now < MaxTime
  /\ \A t \in Task : ~Due(t)
  /\ now' = now + 1
  /\ UNCHANGED <<offer, blamed, trade, taskVars, settled>>

ProtocolStep(t) ==
  \/ Start(t) \/ CommitAccepted(t) \/ Observe(t) \/ Verified(t) \/ OutputAccepted(t)
  \/ ProtocolSucceeds(t) \/ ProtocolFails(t) \/ ProtocolTimesOut(t)

SettlementStep(t) ==
  \/ DriverStops(t) \/ DriverFails(t) \/ DriverAborted(t)
  \/ PurchaseRead(t) \/ ChainRead(t) \/ ChainReadFails(t) \/ DeadlineExceeded(t)
  \/ Sign(t) \/ SettlementFails(t)

Next ==
  \/ \E t \in Task : ProtocolStep(t) \/ SettlementStep(t)
  \/ WorldStep /\ UNCHANGED <<taskVars, settled>>
  \/ PurchaseSettled
  \/ Tick

Spec == Init /\ [][Next]_vars

\* The clock runs, and timers fire when they are due.  Nothing is assumed of
\* the prover, of Steam, of the driver or of the chain.
FairSpec ==
  /\ Spec
  /\ WF_vars(Tick)
  /\ \A t \in Task : WF_vars(ProtocolTimesOut(t) \/ DriverAborted(t) \/ DeadlineExceeded(t))

-----------------------------------------------------------------------------
(* Properties *)

RefundReasons ==
  {"BuyerExpired", "BuyerCanceled", "BuyerDeclined",
   "SellerExpired", "SellerCanceled", "SellerDeclined",
   "InvalidItems", "Canceled2FA", "WrongParties", "NotCS2Item", "WrongAsset",
   "WrongRecipient", "TradeRollback", "DeprecatedRollback", "TradeNotExist"}

OptTime == Nat \cup {None}

\* Types of the task state; a published settlement is a release, or a refund
\* with one of the RefundReason values of types.rs.
TypeOK ==
  /\ now \in Nat
  /\ settled \in OptTime
  /\ \A t \in Task :
       /\ phase[t] \in Protocol \cup {"idle", "drain", "teardown", "chain", "parties", "settle", "done"}
       /\ driver[t] \in {"none", "running", "stopped", "aborted"}
       /\ started[t] \in OptTime /\ timer[t] \in OptTime
       /\ seen[t] \in OptTime /\ signed[t] \in OptTime
       /\ prover[t] \in Accounts \cup {None}
       /\ escrow[t] \in {ChainEscrow, None}
       /\ signed[t] # None =>
            outcome[t] \in {Settle(ChainEscrow, "Release", "None")}
                           \cup {Refund(ChainEscrow, r) : r \in RefundReasons}

\* One deadline governs the whole of handle_notarize_websocket: nothing is signed
\* after it, and the task (with its permit) lives at most the driver's grace
\* longer.
DeadlineHolds ==
  \A t \in Task :
    /\ signed[t] # None => signed[t] <= overall_deadline(t)
    /\ phase[t] \notin {"idle", "done"} => now <= overall_deadline(t) + Grace

\* The driver that run_mpc_tls spawns never outlives the task: whatever way the
\* protocol went, it has stopped or was aborted and joined, and nothing is read
\* from the chain or signed while it runs.
DriverNeverOutlives ==
  \A t \in Task : phase[t] \in {"chain", "parties", "settle", "done"} => driver[t] \in {"stopped", "aborted"}

Released(t) == signed[t] # None /\ outcome[t].decision = "Release"

\* A signed release is true of Steam: the seller gave the asset to the buyer in a
\* trade that Steam showed as complete, and time_settlement is past when the
\* settlement is signed.
ReleaseTruthful ==
  \A t \in Task : Released(t) =>
    /\ trade # None /\ offer.partner = Buyer /\ prover[t] = Seller
    /\ first_cs2_assetid(offer.give) = Asset
    /\ trade.time_settlement # None /\ trade.time_settlement <= signed[t]
    /\ trade.reverted # None => trade.reverted >= seen[t]

\* How stale a release can be: when Steam reverted the trade of a signed release,
\* it did so within one notarization timeout of time_settlement.
ReleaseMargin ==
  \A t \in Task : Released(t) /\ trade.reverted # None =>
    trade.reverted + Timeout >= trade.time_settlement

BlamesBuyer(t)  == outcome[t].refund_reason \in {"BuyerExpired", "BuyerCanceled", "BuyerDeclined"}
BlamesSeller(t) == outcome[t].refund_reason \in {"SellerExpired", "SellerCanceled", "SellerDeclined"}

\* A refund captured by the seller or the buyer names who was really at fault:
\* the recipient who let the offer expire or declined it, the creator who
\* canceled it; the seller's first CS2 item was not the asset; a rollback was one,
\* and abandonment is not claimed too early.
RefundTruthful ==
  \A t \in Task : signed[t] # None /\ prover[t] \in {Seller, Buyer} =>
    /\ BlamesBuyer(t) => blamed = Buyer
    /\ BlamesSeller(t) => blamed = Seller
    /\ outcome[t].refund_reason \in {"WrongParties", "WrongRecipient"} => offer.partner = Other
    /\ outcome[t].refund_reason \in {"WrongAsset", "NotCS2Item"} => first_cs2_assetid(offer.give) # Asset
    /\ outcome[t].refund_reason \in {"TradeRollback", "DeprecatedRollback"} => trade.reverted # None
    /\ outcome[t].refund_reason = "TradeNotExist" => signed[t] >= AbandonedWindow

\* decide_trade_offer gives the seller and the buyer the same settlement for the
\* same offer, although they see it mirrored.
ProversAgree ==
  offer # None /\ offer.partner = Buyer /\ Visible(Seller) /\ Visible(Buyer) =>
    decide(OfferCapture(Seller, OfferId), ChainEscrow, now)
      = decide(OfferCapture(Buyer, OfferId), ChainEscrow, now)

\* Waiting never changes a decision that settles: with the same transcript and
\* escrow a later proof_timestamp can only turn an error into a settlement.
DecisionsAreFinal ==
  [][\A t \in Task : escrow[t] # None /\ Settles(DecisionAt(t, now)) =>
        DecisionAt(t, now)' = DecisionAt(t, now)]_vars

\* After the purchase was settled on chain, signatures for it stop within one
\* notarization timeout: read_escrow refuses a purchase that is not active.
StaleSignatureBounded ==
  \A t \in Task : signed[t] # None /\ settled # None => signed[t] <= settled + Timeout

\* Every notarization ends and releases its permit, whatever the prover, the
\* driver and the chain do.
TaskEnds == \A t \in Task : phase[t] # "idle" ~> phase[t] = "done"

-----------------------------------------------------------------------------
(* The chain read of a task implements EscrowRead *)

ASSUME EscrowAssumption == ChainEscrow # None

ReadStage(t) ==
  IF phase[t] \in {"chain", "parties"} THEN phase[t]
  ELSE IF escrow[t] # None THEN "returned"
  ELSE IF phase[t] = "done" THEN "failed" ELSE "idle"

ReadLooked(t) == IF ReadStage(t) \in {"parties", "returned"} THEN [active |-> TRUE] ELSE None

TaskRead(t) == INSTANCE EscrowRead
  WITH purchase <- [active |-> settled = None], stage <- ReadStage(t), looked <- ReadLooked(t)

\* A task sees the purchase active at one moment between the end of the protocol and
\* its decision; the contract may settle the purchase before the decision is made.
TaskReadsEscrow ==
  /\ \A t \in Task : TaskRead(t)!Init
  /\ [][\A t \in Task : [TaskRead(t)!Next]_(TaskRead(t)!readVars)]_vars

-----------------------------------------------------------------------------
(* Claims of the documentation that the code does not keep *)

\* README: a release needs "status 3 + escrow passed".  Status 3 was seen when
\* the escrow period had passed.
ReleaseSeenAfterSettlement ==
  \A t \in Task : Released(t) => seen[t] >= trade.time_settlement

\* README: GetTradeStatus refunds for "status 4-12 rollback".
RollbackRangeRefunds ==
  /\ trade # None /\ trade.status \in 4..12
  /\ offer.partner = Buyer /\ first_cs2_assetid(offer.give) = Asset
  => Settles(decide(StatusCapture(Buyer), ChainEscrow, now))
=============================================================================
