----------------------------- MODULE SteamWorld -----------------------------
(***************************************************************************)
(* What the oracle looks at, as the code in src/ uses it (external): one   *)
(* Steam trade offer of the seller, the trade that accepting it starts,    *)
(* and a wall clock.  Offer states and trade statuses are Steam's numbers. *)
(*                                                                         *)
(* A prover (the seller, the buyer or a third account) sends one request   *)
(* and Steam answers with its view of the offer or of the trade: what one  *)
(* side gives the other side receives, and is_our_offer tells whether the  *)
(* prover made the offer.                                                  *)
(***************************************************************************)
EXTENDS OracleDecision

CONSTANTS
  Seller, Buyer, Other,   \* Steam account ids (32 bit); Other is a third account
  Asset,                  \* the asset id under escrow
  OfferId,                \* the trade offer id under escrow
  OfferIds,               \* the ids the seller's offer may have
  GiveLists,              \* what the seller may put into the offer
  ReceiveLists,           \* what the other side may put into it
  RollbackStatuses,       \* the statuses a reverted trade may end in
  Protection,             \* from completion to time_settlement
  MaxTime                 \* bound on the clock

ASSUME WorldAssumption ==
  /\ {Seller, Buyer, Other, Protection, MaxTime} \subseteq Nat
  /\ Seller # Buyer /\ Other \notin {Seller, Buyer}
  /\ OfferId \in Nat /\ OfferIds \subseteq Nat
  /\ Asset \in Nat
  /\ RollbackStatuses \subseteq Nat \ {0, 1, 2, 3}

\* The asset under escrow is the seller's, so nobody else can put it into an offer.
ASSUME AssetAssumption == \A items \in ReceiveLists : first_cs2_assetid(items) # Asset

Offers ==
  [id : OfferIds, creator : {Seller, Buyer, Other}, partner : {Buyer, Other}, state : Nat,
   give : GiveLists, receive : ReceiveLists]

Trades == [status : Nat, time_settlement : Nat \cup {None}, reverted : Nat \cup {None}]

ASSUME NoneAssumption == None \notin Offers /\ None \notin Trades

VARIABLES
  now,      \* the server's wall clock, in seconds of some coarse unit
  offer,    \* the seller's trade offer, or None
  blamed,   \* the account whose doing ended the offer, or None
  trade     \* the trade of the accepted offer, or None

world == <<now, offer, blamed, trade>>

Steam64(account) == account + Steam64Offset

Accounts == {Seller, Buyer, Other}

Recipient == IF offer.creator = Seller THEN offer.partner ELSE Seller

-----------------------------------------------------------------------------
WorldInit == now = 0 /\ offer = None /\ blamed = None /\ trade = None

\* Either side makes the offer; the seller's waits for a mobile confirmation (9).
OfferMade ==
  /\ offer = None
  /\ \E id \in OfferIds, partner \in {Buyer, Other}, give \in GiveLists, receive \in ReceiveLists :
       \E creator \in {Seller, partner} :
         offer' = [id |-> id, creator |-> creator, partner |-> partner,
                   state |-> IF creator = Seller THEN 9 ELSE 2,
                   give |-> give, receive |-> receive]
  /\ UNCHANGED <<now, blamed, trade>>

OfferMoves(from, to, culprit) ==
  /\ offer # None
  /\ offer.state = from
  /\ offer' = [offer EXCEPT !.state = to]
  /\ blamed' = culprit
  /\ UNCHANGED now

OfferConfirmed == OfferMoves(9, 2, None) /\ UNCHANGED trade

\* An offer ends without a trade: its recipient lets it expire (5) or declines
\* it (7), its creator cancels it (6), an item is gone (8), or the creator does
\* not confirm it (10).
OfferEnds ==
  /\ \/ OfferMoves(2, 5, Recipient)
     \/ OfferMoves(2, 6, offer.creator)
     \/ OfferMoves(2, 7, Recipient)
     \/ OfferMoves(2, 8, None)
     \/ OfferMoves(9, 10, None)
  /\ UNCHANGED trade

OfferAccepted ==
  /\ OfferMoves(2, 3, None)
  /\ trade' = [status |-> 1, time_settlement |-> None, reverted |-> None]

TradeCompletes ==
  /\ trade # None
  /\ trade.status = 1
  /\ trade' = [status |-> 3, time_settlement |-> now + Protection, reverted |-> None]
  /\ UNCHANGED <<now, offer, blamed>>

\* Steam reverts a completed trade only while it is protected.
TradeRolledBack ==
  /\ trade # None
  /\ trade.status = 3
  /\ now < trade.time_settlement
  /\ \E status \in RollbackStatuses :
       trade' = [status |-> status, time_settlement |-> trade.time_settlement, reverted |-> now]
  /\ UNCHANGED <<now, offer, blamed>>

WorldStep ==
  \/ OfferMade \/ OfferConfirmed \/ OfferEnds \/ OfferAccepted
  \/ TradeCompletes \/ TradeRolledBack

-----------------------------------------------------------------------------
(* Steam's answers *)

\* An unconfirmed offer is visible to its creator only.
Visible(prover) ==
  /\ offer # None
  /\ prover \in {Seller, offer.partner}
  /\ offer.state \in {9, 10} => prover = offer.creator

Empty == [form |-> "empty"]

OfferView(prover, id) ==
  IF ~Visible(prover) \/ offer.id # id THEN Empty
  ELSE [form |-> "offer", tradeofferid |-> offer.id, trade_offer_state |-> offer.state,
        accountid_other  |-> IF prover = Seller THEN offer.partner ELSE Seller,
        is_our_offer     |-> IF prover = offer.creator THEN "true" ELSE "absent",
        items_to_give    |-> IF prover = Seller THEN offer.give ELSE offer.receive,
        items_to_receive |-> IF prover = Seller THEN offer.receive ELSE offer.give]

StatusView(prover) ==
  IF trade = None \/ ~Visible(prover) THEN Empty
  ELSE [form |-> "status", status |-> trade.status,
        steamid_other   |-> Steam64(IF prover = Seller THEN offer.partner ELSE Seller),
        assets_given    |-> IF prover = Seller THEN offer.give ELSE offer.receive,
        assets_received |-> IF prover = Seller THEN offer.receive ELSE offer.give,
        time_settlement |-> trade.time_settlement]

\* The tradeoffer page: an error page when the prover has no such offer.
PageView(prover, id) ==
  LET found == Visible(prover) /\ offer.id = id
  IN  [form |-> "html", sign_in |-> FALSE, steam_id |-> TRUE,
       error_page |-> ~found, not_found |-> ~found]

\* The three requests of a prover and what it can capture with them.
OfferRequest(id) ==
  [getTrade |-> "O", community |-> FALSE, offerParam |-> id, urlOffer |-> None, cookie |-> None]

StatusRequest ==
  [getTrade |-> "S", community |-> FALSE, offerParam |-> None, urlOffer |-> None, cookie |-> None]

PageRequest(prover, id) ==
  [getTrade |-> None, community |-> TRUE, offerParam |-> None, urlOffer |-> id,
   cookie |-> Steam64(prover)]

OfferCapture(prover, id) ==
  [server |-> "api.steampowered.com", request |-> OfferRequest(id), body |-> OfferView(prover, id)]

StatusCapture(prover) ==
  [server |-> "api.steampowered.com", request |-> StatusRequest, body |-> StatusView(prover)]

PageCapture(prover, id) ==
  [server |-> "steamcommunity.com", request |-> PageRequest(prover, id), body |-> PageView(prover, id)]

\* A response that cannot be decoded, and the page of somebody who is logged out.
Unreadable(capture) == [capture EXCEPT !.body = [form |-> "unreadable"]]

SignedOut(capture) ==
  [capture EXCEPT !.body = [form |-> "html", sign_in |-> TRUE, steam_id |-> FALSE,
                            error_page |-> TRUE, not_found |-> TRUE]]

Captures(prover) ==
  {OfferCapture(prover, id) : id \in OfferIds} \cup {PageCapture(prover, id) : id \in OfferIds}
  \cup {StatusCapture(prover), Unreadable(StatusCapture(prover)),
        SignedOut(PageCapture(prover, OfferId))}
=============================================================================
