--------------------------- MODULE DecisionProofs ---------------------------
(***************************************************************************)
(* Proofs that decisions are final, that the two sides of an offer get the *)
(* same one, that a signed release is true of Steam and that a refund      *)
(* blames who was at fault, for any timeouts, item lists and histories of  *)
(* the offer and its trade.                                                *)
(***************************************************************************)
EXTENDS NotarizationProofs

-----------------------------------------------------------------------------
(* What decide computes *)

\* Only the two time checks of decide look at proof_timestamp, and both go from
\* an error to a settlement.
LEMMA LaterAgrees ==
  ASSUME NEW c, NEW time \in Nat, NEW later \in Nat, time <= later,
         c.body.form = "status" => c.body.time_settlement \in OptTime,
         Settles(decide(c, ChainEscrow, time))
  PROVE  decide(c, ChainEscrow, later) = decide(c, ChainEscrow, time)
  <1> DEFINE d(x) == decide(c, ChainEscrow, x)
  <1>1. CASE detect_proof_source(c.request) = "TradeOffer"
    BY <1>1 DEF decide
  <1>2. ASSUME Settles(decide_trade_status(c.body, ChainEscrow, time))
        PROVE  decide_trade_status(c.body, ChainEscrow, later)
                 = decide_trade_status(c.body, ChainEscrow, time)
    BY <1>2, OffsetAssumption
    DEF decide_trade_status, EscrowPassed, parse_trade_status, Settles, Err, OptTime
  <1>3. CASE detect_proof_source(c.request) = "TradeStatus"
    BY <1>2, <1>3 DEF decide, Settles, Err
  <1>4. ASSUME Settles(decide_community(c.request, c.body, ChainEscrow, time))
        PROVE  decide_community(c.request, c.body, ChainEscrow, later)
                 = decide_community(c.request, c.body, ChainEscrow, time)
    BY <1>4, TimingAssumption DEF decide_community, Settles, Err, ChainEscrow
  <1>5. CASE detect_proof_source(c.request) = "Community"
    BY <1>4, <1>5 DEF decide, Settles, Err
  <1>6. detect_proof_source(c.request) \in {"TradeOffer", "TradeStatus", "Community", "unknown"}
    BY DEF detect_proof_source
  <1>7. CASE detect_proof_source(c.request) = "unknown"
    BY <1>7 DEF decide, Settles, Err
  <1>8. QED
    BY <1>1, <1>3, <1>5, <1>6, <1>7

\* A release rests on a GetTradeStatus body: complete, the asset given, to the
\* buyer, and settled at the time of the decision.
LEMMA ReleaseRests ==
  ASSUME NEW c, NEW time,
         Settles(decide(c, ChainEscrow, time)), decide(c, ChainEscrow, time).decision = "Release"
  PROVE  /\ c.body.form = "status" /\ c.body.status = 3
         /\ first_cs2_assetid(c.body.assets_given) = Asset
         /\ c.body.steamid_other = Steam64(Buyer)
         /\ c.body.time_settlement # None /\ ~(c.body.time_settlement > time)
  <1>1. ASSUME NEW x, NEW y, Settles(decide_trade_offer(x, y, ChainEscrow))
        PROVE  decide_trade_offer(x, y, ChainEscrow).decision = "Refund"
    BY <1>1 DEF decide_trade_offer, proof_asset, Settles, Err, Refund, Settle
  <1>2. ASSUME NEW x, NEW y, Settles(decide_community(x, y, ChainEscrow, time))
        PROVE  decide_community(x, y, ChainEscrow, time).decision = "Refund"
    BY <1>2 DEF decide_community, Settles, Err, Refund, Settle
  <1>3. /\ Settles(decide_trade_status(c.body, ChainEscrow, time))
        /\ decide_trade_status(c.body, ChainEscrow, time).decision = "Release"
    BY <1>1, <1>2 DEF decide, Settles, Err
  <1>4. QED
    BY <1>3 DEF decide_trade_status, EscrowPassed, parse_trade_status, Settles, Err, Refund, Settle, ChainEscrow

-----------------------------------------------------------------------------
(* What a refund rests on *)

\* Whatever is captured, a settlement is a release or has one of the refund reasons.
LEMMA DecideRange ==
  ASSUME NEW c, NEW time, Settles(decide(c, ChainEscrow, time))
  PROVE  decide(c, ChainEscrow, time) \in
           {Settle(ChainEscrow, "Release", "None")}
             \cup {Refund(ChainEscrow, r) : r \in RefundReasons}
  <1> DEFINE Range == {Settle(ChainEscrow, "Release", "None")}
                        \cup {Refund(ChainEscrow, r) : r \in RefundReasons}
  <1>1. ASSUME NEW x, NEW y, Settles(decide_trade_offer(x, y, ChainEscrow))
        PROVE  decide_trade_offer(x, y, ChainEscrow) \in Range
    <2>1. ASSUME NEW state, NEW created
          PROVE  OfferRefundReason(state, created) \in RefundReasons \cup {"NonTerminal"}
      BY DEF OfferRefundReason, fault_for_expired, fault_for_canceled, fault_for_declined,
             RefundReasons
    <2>2. {"WrongParties", "NotCS2Item", "WrongAsset"} \subseteq RefundReasons
      BY DEF RefundReasons
    <2>3. QED
      BY <1>1, <2>1, <2>2 DEF decide_trade_offer, Settles, Err
  <1>2. ASSUME NEW y, Settles(decide_trade_status(y, ChainEscrow, time))
        PROVE  decide_trade_status(y, ChainEscrow, time) \in Range
    BY <1>2 DEF decide_trade_status, Settles, Err, RefundReasons
  <1>3. ASSUME NEW x, NEW y, Settles(decide_community(x, y, ChainEscrow, time))
        PROVE  decide_community(x, y, ChainEscrow, time) \in Range
    BY <1>3 DEF decide_community, Settles, Err, RefundReasons
  <1>4. QED
    BY <1>1, <1>2, <1>3 DEF decide, Settles, Err

\* The reasons of the three proof sources are disjoint, so a reason tells the source.
LEMMA ReasonTellsSource ==
  ASSUME NEW c, NEW time, Settles(decide(c, ChainEscrow, time))
  PROVE  LET d == decide(c, ChainEscrow, time)
             r == d.refund_reason
         IN  /\ r \in {"WrongRecipient", "TradeRollback", "DeprecatedRollback"} =>
                  d = decide_trade_status(c.body, ChainEscrow, time)
             /\ r = "TradeNotExist" => d = decide_community(c.request, c.body, ChainEscrow, time)
             /\ r \notin {"WrongRecipient", "TradeRollback", "DeprecatedRollback",
                          "TradeNotExist", "None"} =>
                  d = decide_trade_offer(c.request, c.body, ChainEscrow)
  <1>1. ASSUME NEW x, NEW y, Settles(decide_trade_offer(x, y, ChainEscrow))
        PROVE  decide_trade_offer(x, y, ChainEscrow).refund_reason \notin
                 {"WrongRecipient", "TradeRollback", "DeprecatedRollback", "TradeNotExist"}
    <2>1. ASSUME NEW state, NEW created
          PROVE  OfferRefundReason(state, created) \notin
                   {"WrongRecipient", "TradeRollback", "DeprecatedRollback", "TradeNotExist"}
      BY DEF OfferRefundReason, fault_for_expired, fault_for_canceled, fault_for_declined
    <2>2. QED
      BY <1>1, <2>1 DEF decide_trade_offer, Settles, Err, Refund, Settle
  <1>2. ASSUME NEW y, Settles(decide_trade_status(y, ChainEscrow, time))
        PROVE  decide_trade_status(y, ChainEscrow, time).refund_reason \in
                 {"None", "WrongRecipient", "TradeRollback", "DeprecatedRollback"}
    BY <1>2 DEF decide_trade_status, Settles, Err, Refund, Settle
  <1>3. ASSUME NEW x, NEW y, Settles(decide_community(x, y, ChainEscrow, time))
        PROVE  decide_community(x, y, ChainEscrow, time).refund_reason = "TradeNotExist"
    BY <1>3 DEF decide_community, Settles, Err, Refund, Settle
  <1>4. QED
    BY <1>1, <1>2, <1>3 DEF decide, Settles, Err

-----------------------------------------------------------------------------
(* The inductive invariant of captures against the world *)

\* A trade belongs to an accepted offer, has a settlement time once it is
\* complete, and is reverted before that time or not at all.  Who ended an offer is
\* recorded.
WorldInv ==
  /\ offer \in Offers \cup {None}
  /\ offer # None => offer.creator \in {Seller, offer.partner}
  /\ trade \in Trades \cup {None}
  /\ trade # None =>
       /\ offer # None /\ offer.state = 3
       /\ trade.status # 1 => trade.time_settlement \in Nat
       /\ trade.status \in {1, 3} <=> trade.reverted = None
  /\ offer # None /\ offer.state \in {5, 7} => blamed = Recipient
  /\ offer # None /\ offer.state = 6 => blamed = offer.creator

\* What a verified GetTradeStatus body still says of the trade: parties and items
\* for good, the settlement time once it was complete, and since then no rollback
\* before the observation.
StatusSeen(t) ==
  LET body == capture[t].body
  IN  /\ trade # None
      /\ prover[t] \in {Seller, offer.partner}
      /\ body.steamid_other = Steam64(IF prover[t] = Seller THEN offer.partner ELSE Seller)
      /\ body.assets_given = IF prover[t] = Seller THEN offer.give ELSE offer.receive
      /\ body.time_settlement \in OptTime
      /\ body.status = 3 =>
           /\ trade.status # 1
           /\ body.time_settlement = trade.time_settlement
           /\ trade.reverted # None => trade.reverted >= seen[t]
      /\ body.status \notin {1, 3} => trade.reverted # None

\* What a verified GetTradeOffer body still says of the offer: parties and items for
\* good, and the state if it was one of those that nothing follows.
OfferSeen(t) ==
  LET body == capture[t].body
  IN  /\ offer # None /\ prover[t] \in {Seller, offer.partner}
      /\ body.accountid_other = IF prover[t] = Seller THEN offer.partner ELSE Seller
      /\ body.is_our_offer = IF prover[t] = offer.creator THEN "true" ELSE "absent"
      /\ body.items_to_give = IF prover[t] = Seller THEN offer.give ELSE offer.receive
      /\ body.items_to_receive = IF prover[t] = Seller THEN offer.receive ELSE offer.give
      /\ body.trade_offer_state \in {5, 6, 7} => offer.state = body.trade_offer_state

\* A task has an observation from its run stage on, made while it ran, an escrow
\* only once it may settle, and signs what decide says of the two.
CaptureInv(t) ==
  /\ driver[t] \in {"none", "running", "stopped", "aborted"}
  /\ prover[t] \in Accounts \cup {None}
  /\ seen[t] \in OptTime
  /\ phase[t] \in {"idle", "commit", "run"} => seen[t] = None
  /\ phase[t] \in {"verify", "reveal", "close", "drain", "chain", "parties", "settle"} => seen[t] # None
  /\ seen[t] # None => started[t] <= seen[t] /\ seen[t] <= now
  /\ seen[t] # None /\ capture[t].body.form = "status" => StatusSeen(t)
  /\ seen[t] # None /\ capture[t].body.form = "offer" => OfferSeen(t)
  /\ escrow[t] \in {ChainEscrow, None}
  /\ phase[t] \notin {"settle", "done"} => escrow[t] = None
  /\ phase[t] = "settle" => escrow[t] = ChainEscrow
  /\ escrow[t] # None => seen[t] # None
  /\ signed[t] # None =>
       /\ seen[t] # None
       /\ Settles(outcome[t])
       /\ outcome[t] = decide(capture[t], ChainEscrow, signed[t])

CapturesInv == \A t \in Task : CaptureInv(t)

DInv == IInv /\ WorldInv /\ CapturesInv

\* Only a GetTradeStatus answer has the form of one.
LEMMA StatusFromSteam ==
  ASSUME NEW account, NEW c \in Captures(account), c.body.form = "status"
  PROVE  c.body = StatusView(account) /\ trade # None /\ Visible(account)
  BY DEF Captures, OfferCapture, PageCapture, StatusCapture, Unreadable, SignedOut, OfferView,
         PageView, StatusView, Empty

\* Only a GetTradeOffer answer has the form of one.
LEMMA OfferFromSteam ==
  ASSUME NEW account, NEW c \in Captures(account), c.body.form = "offer"
  PROVE  \E id \in OfferIds : c.body = OfferView(account, id) /\ offer.id = id /\ Visible(account)
  BY DEF Captures, OfferCapture, PageCapture, StatusCapture, Unreadable, SignedOut, OfferView,
         PageView, StatusView, Empty

\* The world keeps its invariant and, once there is a trade, the offer.
LEMMA WorldKeeps ==
  ASSUME WorldInv, now \in Nat, WorldStep
  PROVE  /\ WorldInv' /\ now' = now
         /\ trade # None => trade' # None /\ offer' = offer
         /\ trade # None /\ trade.reverted # None => trade' = trade
         /\ offer # None =>
              /\ offer' # None /\ offer'.creator = offer.creator /\ offer'.partner = offer.partner
              /\ offer'.give = offer.give /\ offer'.receive = offer.receive
              /\ offer.state \in {5, 6, 7} => offer' = offer
         /\ trade # None /\ trade.status # 1 =>
              /\ trade'.status # 1 /\ trade'.time_settlement = trade.time_settlement
              /\ trade'.reverted # None /\ trade'.reverted # trade.reverted => trade'.reverted = now
  <1> USE WorldAssumption, NoneAssumption, OffsetAssumption
      DEF WorldInv, Offers, Trades, Recipient
  <1>1. CASE OfferMade
    BY <1>1 DEF OfferMade
  <1>2. ASSUME NEW from \in {2, 9}, NEW to \in {2, 5, 6, 7, 8, 10}, NEW culprit,
               OfferMoves(from, to, culprit), UNCHANGED trade,
               to \in {5, 7} => culprit = Recipient, to = 6 => culprit = offer.creator
        PROVE  /\ WorldInv' /\ now' = now /\ trade' = trade /\ (trade # None => offer' = offer)
               /\ offer # None /\ offer.state \notin {5, 6, 7}
               /\ offer' # None /\ offer'.creator = offer.creator /\ offer'.partner = offer.partner
               /\ offer'.give = offer.give /\ offer'.receive = offer.receive
    BY <1>2 DEF OfferMoves
  <1>3. CASE OfferConfirmed
    BY <1>2, <1>3 DEF OfferConfirmed
  <1>4. CASE OfferEnds
    <2>1. \E to \in {5, 6, 7, 8, 10}, from \in {2, 9}, culprit \in {Recipient, offer.creator, None} :
            /\ OfferMoves(from, to, culprit)
            /\ to \in {5, 7} => culprit = Recipient
            /\ to = 6 => culprit = offer.creator
      BY <1>4 DEF OfferEnds
    <2>2. QED
      BY <1>2, <1>4, <2>1 DEF OfferEnds
  <1>5. CASE OfferAccepted
    BY <1>5 DEF OfferAccepted, OfferMoves
  <1>6. CASE TradeCompletes
    BY <1>6 DEF TradeCompletes
  <1>7. CASE TradeRolledBack
    BY <1>7 DEF TradeRolledBack
  <1>8. QED
    BY <1>1, <1>3, <1>4, <1>5, <1>6, <1>7 DEF WorldStep

\* A step of a task leaves the world and the other tasks' captures alone.
LEMMA CaptureFrame ==
  ASSUME NEW t \in Task, ProtocolStep(t) \/ SettlementStep(t), Shape
  PROVE  /\ UNCHANGED world
         /\ \A u \in Task \ {t} :
              /\ driver'[u] = driver[u]
              /\ capture'[u] = capture[u] /\ prover'[u] = prover[u] /\ seen'[u] = seen[u]
              /\ escrow'[u] = escrow[u] /\ outcome'[u] = outcome[u]
  <1>1. CASE ProtocolStep(t)
    BY <1>1 DEF ProtocolStep, Start, CommitAccepted, Observe, Verified, OutputAccepted, Advance,
                ProtocolSucceeds, ProtocolFails, ProtocolTimesOut, CloseHandle, world, Shape,
                IsTaskFunction
  <1>2. CASE SettlementStep(t)
    BY <1>2 DEF SettlementStep, DriverStops, DriverFails, DriverAborted, PurchaseRead, Advance,
                ChainRead, ChainReadFails, DeadlineExceeded, Sign, SettlementFails, Continue, Ends, world,
                Shape, IsTaskFunction
  <1>3. QED
    BY <1>1, <1>2

\* What was seen of a trade or an offer stays true when only the world moves.
LEMMA SeenStays ==
  ASSUME NEW t \in Task, WorldInv, now \in Nat, WorldStep, UNCHANGED taskVars,
         seen[t] \in Nat, seen[t] <= now
  PROVE  /\ StatusSeen(t) => StatusSeen(t)'
         /\ OfferSeen(t) => OfferSeen(t)'
  <1>1. UNCHANGED <<capture, prover, seen>>
    BY DEF taskVars
  <1>2. StatusSeen(t) => StatusSeen(t)'
    BY <1>1, WorldKeeps, OffsetAssumption DEF StatusSeen, WorldInv, Trades, Steam64
  <1>3. OfferSeen(t) => OfferSeen(t)'
    BY <1>1, WorldKeeps DEF OfferSeen
  <1>4. QED
    BY <1>2, <1>3

\* Every step of the protocol keeps the capture invariant of its task.
LEMMA ProtocolKeepsCapture ==
  ASSUME NEW t \in Task, IInv, WorldInv, CaptureInv(t), ProtocolStep(t)
  PROVE  CaptureInv(t)'
  <1> USE OffsetAssumption DEF IInv, Shape, IsTaskFunction, TaskInv, TimerInv, SignInv, OptTime,
                               Protocol, CaptureInv, world
  <1>1. CASE Start(t)
    BY <1>1 DEF Start
  <1>2. CASE CommitAccepted(t) \/ Verified(t) \/ OutputAccepted(t)
    BY <1>2 DEF CommitAccepted, Verified, OutputAccepted, Advance, StatusSeen, OfferSeen
  <1>3. CASE Observe(t)
    <2>1. PICK c \in Captures(prover[t]) : capture' = [capture EXCEPT ![t] = c]
      BY <1>3 DEF Observe
    <2>2. ASSUME c.body.form = "status"
          PROVE  StatusSeen(t)'
      <3>1. c.body = StatusView(prover[t]) /\ trade # None /\ Visible(prover[t])
        BY <2>2, StatusFromSteam
      <3>2. capture'[t] = c /\ prover' = prover /\ UNCHANGED <<now, offer, trade>>
        BY <1>3, <2>1 DEF Observe, Advance
      <3>3. seen'[t] = now
        BY <1>3 DEF Observe
      <3>4. QED
        BY <3>1, <3>2, <3>3, WorldAssumption
        DEF StatusSeen, StatusView, WorldInv, Trades, Visible
    <2>3. ASSUME c.body.form = "offer"
          PROVE  OfferSeen(t)'
      <3>1. PICK id \in OfferIds :
              c.body = OfferView(prover[t], id) /\ offer.id = id /\ Visible(prover[t])
        BY <2>3, OfferFromSteam
      <3>2. capture'[t] = c /\ prover' = prover /\ offer' = offer
        BY <1>3, <2>1 DEF Observe, Advance
      <3>3. QED
        BY <3>1, <3>2 DEF OfferSeen, OfferView, Visible
    <2>4. QED
      BY <1>3, <2>1, <2>2, <2>3 DEF Observe, Advance
  <1>4. CASE ProtocolSucceeds(t) \/ ProtocolFails(t) \/ ProtocolTimesOut(t)
    BY <1>4 DEF ProtocolSucceeds, ProtocolFails, ProtocolTimesOut, CloseHandle, StatusSeen,
                OfferSeen
  <1>5. QED
    BY <1>1, <1>2, <1>3, <1>4 DEF ProtocolStep

\* So does every step of the settlement; Sign records what decide says.
LEMMA SettlementKeepsCapture ==
  ASSUME NEW t \in Task, IInv, WorldInv, CaptureInv(t), SettlementStep(t)
  PROVE  CaptureInv(t)'
  <1> USE OffsetAssumption DEF IInv, Shape, IsTaskFunction, TaskInv, TimerInv, SignInv, OptTime,
                               Protocol, CaptureInv, StatusSeen, OfferSeen, world
  <1>1. CASE DriverStops(t)
    BY <1>1 DEF DriverStops, Continue, Ends
  <1>2. CASE DriverFails(t) \/ DriverAborted(t)
    BY <1>2 DEF DriverFails, DriverAborted, Ends
  <1>3. CASE PurchaseRead(t) \/ ChainRead(t)
    BY <1>3 DEF PurchaseRead, Advance, ChainRead, Continue, Ends
  <1>4. CASE ChainReadFails(t) \/ DeadlineExceeded(t) \/ SettlementFails(t)
    BY <1>4 DEF ChainReadFails, DeadlineExceeded, SettlementFails, Ends
  <1>5. CASE Sign(t)
    BY <1>5 DEF Sign, DecisionAt
  <1>6. QED
    BY <1>1, <1>2, <1>3, <1>4, <1>5 DEF SettlementStep

\* Captures, signatures and the world fit together in every state.
THEOREM CaptureInvariance == Spec => []DInv
  <1>1. Init => WorldInv /\ CapturesInv
    BY DEF CapturesInv, Init, WorldInit, WorldInv, CaptureInv, OptTime
  <1>2. DInv /\ [Next]_vars => WorldInv' /\ CapturesInv'
    <2> SUFFICES ASSUME DInv, [Next]_vars
                 PROVE  WorldInv' /\ CapturesInv'
      OBVIOUS
    <2> USE DEF DInv, CapturesInv
    <2>1. ASSUME NEW t \in Task, ProtocolStep(t) \/ SettlementStep(t)
          PROVE  WorldInv' /\ CapturesInv'
      <3>1. UNCHANGED <<offer, blamed, trade, now>>
        BY <2>1, CaptureFrame DEF IInv, world
      <3>2. WorldInv'
        BY <3>1 DEF WorldInv, Recipient
      <3>3. CaptureInv(t)'
        BY <2>1, ProtocolKeepsCapture, SettlementKeepsCapture
      <3>4. ASSUME NEW u \in Task \ {t}
            PROVE  CaptureInv(u)'
        BY <2>1, <3>1, <3>4, CaptureFrame, TaskFrame DEF IInv, CaptureInv, StatusSeen, OfferSeen
      <3>5. QED
        BY <3>2, <3>3, <3>4
    <2>2. CASE WorldStep /\ UNCHANGED <<taskVars, settled>>
      <3>1. WorldInv' /\ now' = now
        BY <2>2, WorldKeeps DEF IInv, Shape
      <3>2. ASSUME NEW t \in Task
            PROVE  CaptureInv(t)'
        <4>1. CaptureInv(t)
          OBVIOUS
        <4>2. seen[t] # None /\ capture[t].body.form = "status" => StatusSeen(t)'
          BY <2>2, <4>1, SeenStays DEF CaptureInv, IInv, Shape, OptTime
        <4>3. seen[t] # None /\ capture[t].body.form = "offer" => OfferSeen(t)'
          BY <2>2, <4>1, SeenStays DEF CaptureInv, IInv, Shape, OptTime
        <4>4. QED
          BY <2>2, <3>1, <4>1, <4>2, <4>3 DEF CaptureInv, taskVars
      <3>3. QED
        BY <3>1, <3>2
    <2>3. CASE PurchaseSettled \/ UNCHANGED vars
      BY <2>3 DEF PurchaseSettled, vars, taskVars, world, WorldInv, Recipient, CaptureInv,
                  StatusSeen, OfferSeen
    <2>4. CASE Tick
      BY <2>4 DEF Tick, taskVars, WorldInv, Recipient, CaptureInv, StatusSeen, OfferSeen, IInv,
                  Shape, OptTime
    <2>5. QED
      BY <2>1, <2>2, <2>3, <2>4 DEF Next
  <1>3. QED
    BY <1>1, <1>2, Invariance, PTL DEF Spec, DInv

-----------------------------------------------------------------------------
(* The theorems *)

\* A signed release is true of Steam, for every history of the trade.
THEOREM ReleaseIsTruthful == Spec => []ReleaseTruthful
  <1>1. DInv => ReleaseTruthful
    <2> SUFFICES ASSUME DInv, NEW t \in Task, Released(t)
                 PROVE  /\ trade # None /\ offer.partner = Buyer /\ prover[t] = Seller
                        /\ first_cs2_assetid(offer.give) = Asset
                        /\ trade.time_settlement # None /\ trade.time_settlement <= signed[t]
                        /\ trade.reverted # None => trade.reverted >= seen[t]
      BY DEF ReleaseTruthful
    <2>1. /\ seen[t] # None /\ signed[t] \in Nat
          /\ Settles(decide(capture[t], ChainEscrow, signed[t]))
          /\ decide(capture[t], ChainEscrow, signed[t]).decision = "Release"
      BY DEF DInv, CapturesInv, CaptureInv, Released, IInv, TaskInv, SignInv, OptTime
    <2>2. /\ capture[t].body.form = "status" /\ capture[t].body.status = 3
          /\ first_cs2_assetid(capture[t].body.assets_given) = Asset
          /\ capture[t].body.steamid_other = Steam64(Buyer)
          /\ capture[t].body.time_settlement # None
          /\ ~(capture[t].body.time_settlement > signed[t])
      BY <2>1, ReleaseRests
    <2>3. StatusSeen(t)
      BY <2>1, <2>2 DEF DInv, CapturesInv, CaptureInv
    <2>4. prover[t] = Seller
      BY <2>2, <2>3, WorldAssumption, OffsetAssumption DEF StatusSeen, Steam64
    <2>5. offer \in Offers /\ offer.partner = Buyer
      <3>1. offer \in Offers
        BY <2>3 DEF StatusSeen, DInv, WorldInv
      <3>2. offer.partner \in Nat
        BY <3>1, WorldAssumption DEF Offers
      <3>3. QED
        BY <2>2, <2>3, <2>4, <3>1, <3>2, WorldAssumption, OffsetAssumption DEF StatusSeen, Steam64
    <2>6. QED
      BY <2>1, <2>2, <2>3, <2>4, <2>5 DEF StatusSeen, OptTime
  <1>2. QED
    BY <1>1, CaptureInvariance, PTL

\* A release can miss a rollback only if Steam reverts the trade within one
\* timeout of its settlement time.
THEOREM ReleaseMarginHolds == Spec => []ReleaseMargin
  <1>1. DInv /\ ReleaseTruthful => ReleaseMargin
    <2> SUFFICES ASSUME DInv, ReleaseTruthful, NEW t \in Task, Released(t), trade.reverted # None
                 PROVE  trade.reverted + Timeout >= trade.time_settlement
      BY DEF ReleaseMargin
    <2>1. /\ trade # None /\ trade.time_settlement # None
          /\ trade.time_settlement <= signed[t] /\ trade.reverted >= seen[t]
      BY DEF ReleaseTruthful
    <2>2. trade.time_settlement \in Nat /\ trade.reverted \in Nat
      BY <2>1 DEF DInv, WorldInv, Trades
    <2>3. /\ signed[t] \in Nat /\ signed[t] <= started[t] + Timeout
          /\ started[t] \in Nat
      BY DEF DInv, IInv, TaskInv, SignInv, TimerInv, OptTime, Released
    <2>4. seen[t] \in Nat /\ started[t] <= seen[t]
      BY DEF DInv, CapturesInv, CaptureInv, OptTime, Released
    <2>5. QED
      BY <2>1, <2>2, <2>3, <2>4, TimingAssumption
  <1>2. QED
    BY <1>1, CaptureInvariance, ReleaseIsTruthful, PTL

\* The seller and the buyer get the same settlement for the same offer.
THEOREM CapturersAgree == Spec => []ProversAgree
  <1>1. WorldInv => ProversAgree
    <2> SUFFICES ASSUME WorldInv, offer # None, offer.partner = Buyer, Visible(Seller),
                        Visible(Buyer)
                 PROVE  decide(OfferCapture(Seller, OfferId), ChainEscrow, now)
                          = decide(OfferCapture(Buyer, OfferId), ChainEscrow, now)
      BY DEF ProversAgree
    <2>1. CASE offer.id # OfferId
      BY <2>1 DEF OfferCapture, OfferView, decide, detect_proof_source, OfferRequest,
                  decide_trade_offer, proof_asset, Empty
    <2>2. CASE offer.id = OfferId
      <3> DEFINE ours    == parse_trade_offer(OfferView(Seller, OfferId))
                 theirs  == parse_trade_offer(OfferView(Buyer, OfferId))
      <3>1. /\ OfferView(Seller, OfferId).form = "offer" /\ OfferView(Buyer, OfferId).form = "offer"
            /\ ours.state = theirs.state
            /\ ours.trade_offer_id = OfferId /\ theirs.trade_offer_id = OfferId
            /\ ours.partner_steam_id = Steam64(Buyer) /\ theirs.partner_steam_id = Steam64(Seller)
            /\ ours.asset_to_give = theirs.asset_to_receive
        BY <2>2, WorldAssumption DEF OfferView, parse_trade_offer, Steam64
      <3>2. ours.is_our_offer = ~theirs.is_our_offer
        BY <2>2, WorldAssumption DEF OfferView, parse_trade_offer, WorldInv
      <3>3. Steam64(Seller) # Steam64(Buyer)
        BY WorldAssumption, OffsetAssumption DEF Steam64
      <3>4. determine_seller_created_offer(TRUE, ours.is_our_offer)
              = determine_seller_created_offer(FALSE, theirs.is_our_offer)
        BY <3>2 DEF determine_seller_created_offer
      <3> DEFINE request == OfferRequest(OfferId)
      <3>5. decide_trade_offer(request, OfferView(Seller, OfferId), ChainEscrow)
              = decide_trade_offer(request, OfferView(Buyer, OfferId), ChainEscrow)
        <4> HIDE DEF request
        <4>1. /\ ChainEscrow.seller_steam_id = Steam64(Seller)
              /\ ChainEscrow.buyer_steam_id = Steam64(Buyer)
          BY DEF ChainEscrow
        <4>2. (ours.partner_steam_id = ChainEscrow.buyer_steam_id) = TRUE
          BY <3>1, <4>1
        <4>3. (theirs.partner_steam_id = ChainEscrow.buyer_steam_id) = FALSE
          BY <3>1, <3>3, <4>1
        <4>4. QED
          BY <3>1, <3>4, <4>1, <4>2, <4>3 DEF decide_trade_offer, proof_asset
      <3> HIDE DEF ours, theirs
      <3>6. ASSUME NEW p \in {Seller, Buyer}
            PROVE  decide(OfferCapture(p, OfferId), ChainEscrow, now)
                     = IF detect_proof_source(request) = "TradeOffer"
                         THEN decide_trade_offer(request, OfferView(p, OfferId), ChainEscrow)
                         ELSE Err("UnknownProofSource")
        <4>1. OfferView(p, OfferId).form = "offer"
          BY <3>1, <3>6
        <4>2. detect_proof_source(request) \in {"TradeOffer", "unknown"}
          BY DEF request, OfferRequest, detect_proof_source
        <4> HIDE DEF request
        <4>3. /\ OfferCapture(p, OfferId).server = "api.steampowered.com"
              /\ OfferCapture(p, OfferId).request = request
              /\ OfferCapture(p, OfferId).body = OfferView(p, OfferId)
          BY DEF OfferCapture, request
        <4>4. QED
          BY <4>1, <4>2, <4>3 DEF decide
      <3> HIDE DEF request
      <3>7. QED
        BY <3>5, <3>6
    <2>3. QED
      BY <2>1, <2>2
  <1>2. QED
    BY <1>1, CaptureInvariance, PTL DEF DInv

\* Waiting never changes a decision that settles.
THEOREM DecisionsFinal == Spec => DecisionsAreFinal
  <1>1. DInv /\ DInv' /\ [Next]_vars =>
          [\A t \in Task : escrow[t] # None /\ Settles(DecisionAt(t, now)) =>
             DecisionAt(t, now)' = DecisionAt(t, now)]_vars
    <2> SUFFICES ASSUME DInv, DInv', Next, NEW t \in Task, escrow[t] # None,
                        Settles(DecisionAt(t, now))
                 PROVE  DecisionAt(t, now)' = DecisionAt(t, now)
      BY DEF vars
    <2>1. escrow[t] = ChainEscrow /\ seen[t] # None /\ phase[t] \in {"settle", "done"}
      BY DEF DInv, CapturesInv, CaptureInv
    <2>2. ASSUME NEW u \in Task, ProtocolStep(u) \/ SettlementStep(u)
          PROVE  capture'[t] = capture[t] /\ escrow'[t] = escrow[t] /\ now' = now
      <3>1. now' = now
        BY <2>2, TaskFrame DEF DInv, IInv
      <3>2. CASE u # t
        BY <2>2, <3>1, <3>2, CaptureFrame DEF DInv, IInv
      <3>3. CASE u = t
        <4>1. ~ProtocolStep(t)
          BY <2>1 DEF ProtocolStep, Start, CommitAccepted, Observe, Verified, OutputAccepted,
                      Advance, ProtocolSucceeds, ProtocolFails, ProtocolTimesOut, Protocol
        <4>2. SettlementStep(t)
          BY <2>2, <3>3, <4>1
        <4>3. UNCHANGED <<capture, escrow>>
          BY <2>1, <4>2 DEF SettlementStep, DriverStops, DriverFails, DriverAborted,
                            PurchaseRead, Advance, ChainRead, ChainReadFails, DeadlineExceeded, Sign, SettlementFails
        <4>4. QED
          BY <3>1, <4>3
      <3>4. QED
        BY <3>2, <3>3
    <2>3. CASE WorldStep /\ UNCHANGED <<taskVars, settled>>
      BY <2>3, WorldKeeps DEF DInv, IInv, Shape, taskVars, DecisionAt
    <2>4. CASE PurchaseSettled
      BY <2>4 DEF PurchaseSettled, world, taskVars, DecisionAt
    <2>5. CASE Tick
      <3>1. now \in Nat /\ now' \in Nat /\ now <= now' /\ UNCHANGED <<capture, escrow>>
        BY <2>5 DEF Tick, taskVars, DInv, IInv, Shape
      <3>2. capture[t].body.form = "status" => capture[t].body.time_settlement \in OptTime
        BY <2>1 DEF DInv, CapturesInv, CaptureInv, StatusSeen
      <3>3. decide(capture[t], ChainEscrow, now') = decide(capture[t], ChainEscrow, now)
        BY <2>1, <3>1, <3>2, LaterAgrees DEF DecisionAt
      <3>4. QED
        BY <2>1, <3>1, <3>3 DEF DecisionAt
    <2>6. QED
      BY <2>2, <2>3, <2>4, <2>5 DEF Next, DecisionAt
  <1>2. QED
    BY <1>1, CaptureInvariance, PTL DEF Spec, DecisionsAreFinal

\* The types of the task state, and the range of what is published.
THEOREM TaskTypes == Spec => []TypeOK
  <1>1. DInv => TypeOK
    <2> SUFFICES ASSUME DInv
                 PROVE  TypeOK
      OBVIOUS
    <2>1. ASSUME NEW t \in Task, signed[t] # None
          PROVE  outcome[t] \in {Settle(ChainEscrow, "Release", "None")}
                                \cup {Refund(ChainEscrow, r) : r \in RefundReasons}
      BY <2>1, DecideRange DEF DInv, CapturesInv, CaptureInv
    <2>2. QED
      BY <2>1 DEF TypeOK, DInv, IInv, Shape, TaskInv, TimerInv, SignInv, CapturesInv, CaptureInv
  <1>2. QED
    BY <1>1, CaptureInvariance, PTL

\* What a refund for a GetTradeOffer proof says of the offer, whichever side captured it.
LEMMA OfferRefundTrue ==
  ASSUME NEW t \in Task, NEW request, WorldInv, OfferSeen(t), prover[t] \in {Seller, Buyer},
         Settles(decide_trade_offer(request, capture[t].body, ChainEscrow))
  PROVE  LET r == decide_trade_offer(request, capture[t].body, ChainEscrow).refund_reason
         IN  /\ r = "WrongParties" => offer.partner = Other
             /\ r \in {"WrongAsset", "NotCS2Item"} => first_cs2_assetid(offer.give) # Asset
             /\ r \in {"BuyerExpired", "BuyerCanceled", "BuyerDeclined"} => blamed = Buyer
             /\ r \in {"SellerExpired", "SellerCanceled", "SellerDeclined"} => blamed = Seller
  <1> DEFINE body == capture[t].body
             data == parse_trade_offer(body)
             capturer == data.partner_steam_id = Steam64(Buyer)
             created == determine_seller_created_offer(capturer, data.is_our_offer)
             d == decide_trade_offer(request, body, ChainEscrow)
             reason == OfferRefundReason(data.state, created)
  <1>1. /\ offer \in Offers /\ offer.partner \in {Buyer, Other}
        /\ offer.creator \in {Seller, offer.partner}
    BY DEF OfferSeen, WorldInv, Offers
  <1>2. Steam64(Seller) # Steam64(Buyer) /\ Steam64(Other) \notin {Steam64(Seller), Steam64(Buyer)}
    BY WorldAssumption, OffsetAssumption DEF Steam64
  <1>3. /\ data.partner_steam_id = Steam64(IF prover[t] = Seller THEN offer.partner ELSE Seller)
        /\ data.is_our_offer = (prover[t] = offer.creator)
        /\ data.state = body.trade_offer_state
        /\ data.asset_to_give
             = first_cs2_assetid(IF prover[t] = Seller THEN offer.give ELSE offer.receive)
        /\ data.asset_to_receive
             = first_cs2_assetid(IF prover[t] = Seller THEN offer.receive ELSE offer.give)
    BY DEF OfferSeen, parse_trade_offer, Steam64
  <1>4. /\ ChainEscrow.seller_steam_id = Steam64(Seller)
        /\ ChainEscrow.buyer_steam_id = Steam64(Buyer) /\ ChainEscrow.asset_id = Asset
    BY DEF ChainEscrow
  <1> HIDE DEF data
  <1>5. CASE offer.partner = Other
    <2>1. prover[t] = Seller
      BY <1>5, WorldAssumption DEF OfferSeen
    <2>2. data.partner_steam_id \notin {Steam64(Seller), Steam64(Buyer)}
      BY <1>2, <1>3, <1>5, <2>1
    <2>3. d = Refund(ChainEscrow, "WrongParties")
      BY <1>4, <2>2 DEF decide_trade_offer, data, Settles, Err
    <2>4. QED
      BY <1>5, <2>3 DEF Refund, Settle
  <1>6. CASE offer.partner = Buyer
    <2>1. capturer <=> prover[t] = Seller
      BY <1>2, <1>3, <1>6, WorldAssumption
    <2>2. proof_asset(data, capturer) = first_cs2_assetid(offer.give)
      BY <1>3, <2>1 DEF proof_asset
    <2>3. created <=> offer.creator = Seller
      BY <1>1, <1>3, <1>6, <2>1, WorldAssumption DEF determine_seller_created_offer
    <2>4. data.partner_steam_id \in {Steam64(Seller), Steam64(Buyer)}
      BY <1>3, <1>6
    <2>5. \/ d.refund_reason \in {"NotCS2Item", "WrongAsset"}
             /\ proof_asset(data, capturer) # Asset
          \/ d.refund_reason = reason
      BY <1>4, <2>4, WorldAssumption, OffsetAssumption
      DEF decide_trade_offer, data, Settles, Err, Refund, Settle
    <2>6. /\ reason \notin {"WrongParties", "WrongAsset", "NotCS2Item"}
          /\ reason \in {"BuyerExpired", "BuyerDeclined"} => data.state \in {5, 7} /\ created
          /\ reason \in {"SellerExpired", "SellerDeclined"} => data.state \in {5, 7} /\ ~created
          /\ reason = "BuyerCanceled" => data.state = 6 /\ ~created
          /\ reason = "SellerCanceled" => data.state = 6 /\ created
      <3> HIDE DEF created
      <3>1. QED
        BY DEF OfferRefundReason, fault_for_expired, fault_for_canceled, fault_for_declined
    <2>7. /\ data.state \in {5, 7} => blamed = IF offer.creator = Seller THEN Buyer ELSE Seller
          /\ data.state = 6 => blamed = offer.creator
      BY <1>3, <1>6 DEF OfferSeen, WorldInv, Recipient
    <2> HIDE DEF d, reason, created, capturer
    <2>8. QED
      BY <1>1, <1>6, <2>2, <2>3, <2>5, <2>6, <2>7 DEF d
  <1>7. QED
    BY <1>1, <1>5, <1>6

\* What a refund for a GetTradeStatus proof says of the trade.
LEMMA StatusRefundTrue ==
  ASSUME NEW t \in Task, NEW time, WorldInv, StatusSeen(t), prover[t] \in {Seller, Buyer},
         Settles(decide_trade_status(capture[t].body, ChainEscrow, time))
  PROVE  LET r == decide_trade_status(capture[t].body, ChainEscrow, time).refund_reason
         IN  /\ r = "WrongRecipient" => offer.partner = Other
             /\ r \in {"TradeRollback", "DeprecatedRollback"} => trade.reverted # None
  <1> DEFINE body == capture[t].body
             d == decide_trade_status(body, ChainEscrow, time)
  <1>1. offer \in Offers /\ offer.partner \in {Buyer, Other} /\ offer.receive \in ReceiveLists
    BY DEF StatusSeen, WorldInv, Offers
  <1>2. d.refund_reason = "WrongRecipient" =>
          /\ first_cs2_assetid(body.assets_given) = Asset
          /\ body.steamid_other # Steam64(Buyer)
    BY DEF decide_trade_status, parse_trade_status, Settles, Err, Refund, Settle, ChainEscrow
  <1>3. d.refund_reason \in {"TradeRollback", "DeprecatedRollback"} => body.status \notin {1, 3}
    BY DEF decide_trade_status, parse_trade_status, Settles, Err, Refund, Settle
  <1>4. first_cs2_assetid(body.assets_given) = Asset => prover[t] = Seller
    BY <1>1, AssetAssumption DEF StatusSeen
  <1> HIDE DEF d
  <1>5. QED
    BY <1>1, <1>2, <1>3, <1>4 DEF StatusSeen, d

\* A refund captured by one of the parties names who was at fault, for every history of
\* the offer and its trade.
THEOREM RefundIsTruthful == Spec => []RefundTruthful
  <1>1. DInv => RefundTruthful
    <2> SUFFICES ASSUME DInv, NEW t \in Task, signed[t] # None, prover[t] \in {Seller, Buyer}
                 PROVE  /\ BlamesBuyer(t) => blamed = Buyer
                        /\ BlamesSeller(t) => blamed = Seller
                        /\ outcome[t].refund_reason \in {"WrongParties", "WrongRecipient"} =>
                             offer.partner = Other
                        /\ outcome[t].refund_reason \in {"WrongAsset", "NotCS2Item"} =>
                             first_cs2_assetid(offer.give) # Asset
                        /\ outcome[t].refund_reason \in {"TradeRollback", "DeprecatedRollback"} =>
                             trade.reverted # None
                        /\ outcome[t].refund_reason = "TradeNotExist" =>
                             signed[t] >= AbandonedWindow
      BY DEF RefundTruthful
    <2> DEFINE c == capture[t]
               r == outcome[t].refund_reason
    <2>1. /\ WorldInv /\ seen[t] # None /\ signed[t] \in Nat
          /\ Settles(outcome[t]) /\ outcome[t] = decide(c, ChainEscrow, signed[t])
          /\ c.body.form = "status" => StatusSeen(t)
          /\ c.body.form = "offer" => OfferSeen(t)
      BY DEF DInv, CapturesInv, CaptureInv, IInv, TaskInv, SignInv, OptTime
    <2>2. ASSUME outcome[t] = decide_trade_offer(c.request, c.body, ChainEscrow)
          PROVE  OfferSeen(t)
      BY <2>1, <2>2 DEF decide_trade_offer, Settles, Err
    <2>3. ASSUME outcome[t] = decide_trade_status(c.body, ChainEscrow, signed[t])
          PROVE  StatusSeen(t)
      BY <2>1, <2>3 DEF decide_trade_status, Settles, Err
    <2>4. ASSUME outcome[t] = decide_community(c.request, c.body, ChainEscrow, signed[t])
          PROVE  signed[t] >= AbandonedWindow
      BY <2>1, <2>4, TimingAssumption DEF decide_community, Settles, Err, ChainEscrow
    <2>5. r \in {"WrongRecipient", "TradeRollback", "DeprecatedRollback"} =>
            outcome[t] = decide_trade_status(c.body, ChainEscrow, signed[t])
      BY <2>1, ReasonTellsSource
    <2>6. r = "TradeNotExist" =>
            outcome[t] = decide_community(c.request, c.body, ChainEscrow, signed[t])
      BY <2>1, ReasonTellsSource
    <2>7. r \notin {"WrongRecipient", "TradeRollback", "DeprecatedRollback", "TradeNotExist", "None"}
            => outcome[t] = decide_trade_offer(c.request, c.body, ChainEscrow)
      BY <2>1, ReasonTellsSource
    <2>8. CASE r \in {"WrongRecipient", "TradeRollback", "DeprecatedRollback"}
      BY <2>1, <2>3, <2>5, <2>8, StatusRefundTrue DEF BlamesBuyer, BlamesSeller
    <2>9. CASE r \in {"TradeNotExist", "None"}
      BY <2>4, <2>6, <2>9 DEF BlamesBuyer, BlamesSeller
    <2>10. CASE r \notin {"WrongRecipient", "TradeRollback", "DeprecatedRollback", "TradeNotExist",
                          "None"}
      BY <2>1, <2>2, <2>7, <2>10, OfferRefundTrue DEF BlamesBuyer, BlamesSeller
    <2>11. QED
      BY <2>8, <2>9, <2>10
  <1>2. QED
    BY <1>1, CaptureInvariance, PTL

-----------------------------------------------------------------------------
(* The chain read *)

\* A step of the read of t, or none.
ReadStep(t) == [TaskRead(t)!Next]_(TaskRead(t)!readVars)

\* A step that changes neither the purchase nor the read of t is a stutter of it.
LEMMA TaskReadStutter ==
  ASSUME NEW t \in Task, UNCHANGED <<settled, phase[t], escrow[t]>>
  PROVE  ReadStep(t)
  <1>1. ReadStage(t)' = ReadStage(t) /\ ReadLooked(t)' = ReadLooked(t)
    BY DEF ReadStage, ReadLooked
  <1>2. QED
    BY <1>1 DEF ReadStep, TaskRead!readVars

\* Before the chain is read there is nothing to see of the read.
LEMMA TaskReadProtocol ==
  ASSUME NEW t \in Task, DInv, ProtocolStep(t)
  PROVE  ReadStep(t)
  <1>1. /\ phase[t] \notin {"chain", "parties", "settle", "done"}
        /\ phase'[t] \notin {"chain", "parties", "settle", "done"}
        /\ UNCHANGED <<settled, escrow>>
    BY DEF DInv, IInv, Shape, IsTaskFunction, ProtocolStep, Start, CommitAccepted, Observe, Verified,
           OutputAccepted, Advance, ProtocolSucceeds, ProtocolFails, ProtocolTimesOut, CloseHandle,
           Protocol
  <1>2. escrow[t] = None
    BY <1>1 DEF DInv, CapturesInv, CaptureInv
  <1>3. ReadStage(t)' = ReadStage(t) /\ ReadLooked(t)' = ReadLooked(t)
    BY <1>1, <1>2 DEF ReadStage, ReadLooked
  <1>4. QED
    BY <1>1, <1>3 DEF ReadStep, TaskRead!readVars

\* The task ends before or in its chain read: the read has failed.
LEMMA TaskReadGivesUp ==
  ASSUME NEW t \in Task, DInv, UNCHANGED <<settled, escrow>>,
         phase[t] \in {"drain", "teardown", "chain", "parties"}, phase'[t] = "done"
  PROVE  ReadStep(t)
  <1>1. escrow[t] = None
    BY DEF DInv, CapturesInv, CaptureInv
  <1>2. ReadStage(t) \in {"idle", "chain", "parties"}
    BY <1>1 DEF ReadStage
  <1>3. ReadStage(t)' = "failed" /\ ReadLooked(t)' = None
    BY <1>1 DEF ReadStage, ReadLooked
  <1>4. QED
    BY <1>2, <1>3 DEF ReadStep, TaskRead!Next, TaskRead!GiveUp

\* Of the steps after the protocol, PurchaseRead is the look and ChainRead the return.
LEMMA TaskReadSettlement ==
  ASSUME NEW t \in Task, DInv, SettlementStep(t)
  PROVE  ReadStep(t)
  <1>0. /\ phase = [u \in Task |-> phase[u]] /\ escrow = [u \in Task |-> escrow[u]]
        /\ phase[t] \notin {"settle", "done"} => escrow[t] = None
        /\ phase[t] = "settle" => escrow[t] = ChainEscrow
    BY DEF DInv, IInv, Shape, IsTaskFunction, CapturesInv, CaptureInv
  <1>1. CASE DriverStops(t)
    <2>1. /\ phase[t] = "drain" /\ phase'[t] \in {"chain", "done"}
          /\ UNCHANGED <<settled, escrow>>
      BY <1>0, <1>1 DEF DriverStops, Continue, Ends
    <2>2. CASE phase'[t] = "done"
      BY <2>1, <2>2, TaskReadGivesUp
    <2>3. CASE phase'[t] = "chain"
      <3>1. ReadStage(t) = "idle" /\ ReadLooked(t) = None
        BY <1>0, <2>1 DEF ReadStage, ReadLooked
      <3>2. ReadStage(t)' = "chain" /\ ReadLooked(t)' = None
        BY <2>3 DEF ReadStage, ReadLooked
      <3>3. QED
        BY <2>1, <3>1, <3>2 DEF ReadStep, TaskRead!Next, TaskRead!Begin
    <2>4. QED
      BY <2>1, <2>2, <2>3
  <1>2. CASE DriverFails(t) \/ DriverAborted(t)
    BY <1>0, <1>2, TaskReadGivesUp DEF DriverFails, DriverAborted, Ends
  <1>3. CASE PurchaseRead(t)
    <2>1. /\ phase[t] = "chain" /\ phase'[t] = "parties"
          /\ settled = None /\ UNCHANGED <<settled, escrow>>
      BY <1>0, <1>3 DEF PurchaseRead, Advance
    <2>2. ReadStage(t) = "chain" /\ ReadStage(t)' = "parties" /\ ReadLooked(t)' = [active |-> TRUE]
      BY <2>1 DEF ReadStage, ReadLooked
    <2>3. [active |-> settled = None] = [active |-> TRUE]
      BY <2>1
    <2>4. QED
      BY <2>1, <2>2, <2>3 DEF ReadStep, TaskRead!Next, TaskRead!Look
  <1>4. CASE ChainRead(t)
    <2>1. /\ phase[t] = "parties" /\ phase'[t] \in {"settle", "done"}
          /\ escrow'[t] = ChainEscrow /\ UNCHANGED settled
      BY <1>0, <1>4 DEF ChainRead, Continue, Ends
    <2>2. ReadStage(t) = "parties" /\ ReadStage(t)' = "returned"
      BY <2>1, EscrowAssumption DEF ReadStage
    <2>3. ReadLooked(t)' = ReadLooked(t)
      BY <2>2 DEF ReadLooked
    <2>4. QED
      BY <2>1, <2>2, <2>3 DEF ReadStep, TaskRead!Next, TaskRead!Return
  <1>5. CASE ChainReadFails(t)
    BY <1>0, <1>5, TaskReadGivesUp DEF ChainReadFails, Ends
  <1>6. CASE DeadlineExceeded(t) /\ phase[t] # "settle"
    BY <1>0, <1>6, TaskReadGivesUp DEF DeadlineExceeded, Ends
  <1>7. CASE (DeadlineExceeded(t) /\ phase[t] = "settle") \/ Sign(t) \/ SettlementFails(t)
    <2>1. phase[t] = "settle" /\ phase'[t] = "done" /\ UNCHANGED <<settled, escrow>>
      BY <1>0, <1>7 DEF DeadlineExceeded, Sign, SettlementFails, Ends
    <2>2. ReadStage(t) = "returned" /\ ReadStage(t)' = "returned"
      BY <1>0, <2>1, EscrowAssumption DEF ReadStage
    <2>3. ReadLooked(t)' = ReadLooked(t)
      BY <2>2 DEF ReadLooked
    <2>4. QED
      BY <2>1, <2>2, <2>3 DEF ReadStep, TaskRead!readVars
  <1>8. QED
    BY <1>1, <1>2, <1>3, <1>4, <1>5, <1>6, <1>7 DEF SettlementStep

\* TaskReadsEscrow holds of every behaviour: what a task of handle_notarize_websocket
\* does with the chain is the read that ChainReader implements.
THEOREM TaskImplementsRead == Spec => TaskReadsEscrow
  <1>1. Init => \A t \in Task : TaskRead(t)!Init
    BY DEF Init, TaskRead!Init, ReadStage, ReadLooked
  <1>2. DInv /\ [Next]_vars => [\A t \in Task : ReadStep(t)]_vars
    <2> SUFFICES ASSUME DInv, Next, NEW t \in Task
                 PROVE  ReadStep(t)
      OBVIOUS
    <2>1. ASSUME NEW u \in Task, ProtocolStep(u) \/ SettlementStep(u)
          PROVE  ReadStep(t)
      <3>1. CASE u = t
        BY <2>1, <3>1, TaskReadProtocol, TaskReadSettlement
      <3>2. CASE u # t
        <4>1. UNCHANGED <<settled, phase[t], escrow[t]>>
          BY <2>1, <3>2, TaskFrame, CaptureFrame DEF DInv, IInv
        <4>2. QED
          BY <4>1, TaskReadStutter
      <3>3. QED
        BY <3>1, <3>2
    <2>2. CASE (WorldStep /\ UNCHANGED <<taskVars, settled>>) \/ Tick
      BY <2>2, TaskReadStutter DEF Tick, taskVars
    <2>3. CASE PurchaseSettled
      <3>1. /\ [active |-> settled = None].active
            /\ [active |-> settled' = None] = [[active |-> settled = None] EXCEPT !.active = FALSE]
        <4>1. settled = None /\ settled' # None
          BY <2>3, OffsetAssumption DEF PurchaseSettled, DInv, IInv, Shape
        <4>2. (settled = None) = TRUE /\ (settled' = None) = FALSE
          BY <4>1
        <4>3. [active |-> settled = None] = [active |-> TRUE] /\ [active |-> settled' = None] = [active |-> FALSE]
          BY <4>2
        <4>4. [active |-> TRUE].active
          OBVIOUS
        <4>5. \A x, y : [[active |-> x] EXCEPT !.active = y] = [active |-> y]
          OBVIOUS
        <4>6. QED
          BY <4>3, <4>4, <4>5, Zenon
      <3>2. ReadStage(t)' = ReadStage(t) /\ ReadLooked(t)' = ReadLooked(t)
        BY <2>3 DEF PurchaseSettled, taskVars, ReadStage, ReadLooked
      <3>3. QED
        BY <3>1, <3>2 DEF ReadStep, TaskRead!Next, TaskRead!Transaction
    <2>4. QED
      BY <2>1, <2>2, <2>3 DEF Next
  <1>3. QED
    BY <1>1, <1>2, CaptureInvariance, PTL DEF Spec, TaskReadsEscrow, ReadStep
=============================================================================
