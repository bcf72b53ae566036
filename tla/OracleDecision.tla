--------------------------- MODULE OracleDecision ---------------------------
(***************************************************************************)
(* The settlement decision: src/src/settlement/oracle.rs with the parsing  *)
(* of parsing.rs and the fault attribution of decision.rs.                 *)
(*                                                                         *)
(* A transcript is what the MPC-TLS verifier hands over: the server name,  *)
(* the request and the response body.  Text is abstracted to what the      *)
(* parsers extract from it:                                                *)
(*   request  [getTrade, community, offerParam, urlOffer, cookie]          *)
(*     getTrade    the letter after the first "GetTrade", or None          *)
(*     community   the request mentions steamcommunity.com                 *)
(*     offerParam  the number after "tradeofferid=", or None               *)
(*     urlOffer    the number after "/tradeoffer/", or None                *)
(*     cookie      the Steam id of the steamLoginSecure cookie, or None    *)
(*   body     [form |-> "offer" | "status" | "html" | "unreadable" | ...]  *)
(* Item lists are sequences of [appid, assetid]; assetid is None when it   *)
(* does not parse as a u64.                                                *)
(***************************************************************************)
EXTENDS Naturals, Sequences

CONSTANTS
  None,          \* Option::None
  Steam64Offset  \* STEAM64_OFFSET: Steam64 id = account id + offset

ASSUME OffsetAssumption == Steam64Offset \in Nat /\ None \notin Nat

CS2 == 730

-----------------------------------------------------------------------------
(* Results: Result<Settlement, SettlementError> *)

Err(e) == [tag |-> "error", error |-> e]

\* A settlement carries the ids of the escrow, never those of the transcript.
Settle(escrow, decision, reason) ==
  [tag |-> "settled", asset_id |-> escrow.asset_id, trade_offer_id |-> escrow.trade_offer_id,
   decision |-> decision, refund_reason |-> reason]

Refund(escrow, reason) == Settle(escrow, "Refund", reason)

-----------------------------------------------------------------------------
(* decision.rs *)

fault_for_expired(seller_created_offer) ==
  IF seller_created_offer THEN "BuyerExpired" ELSE "SellerExpired"

fault_for_canceled(seller_created_offer) ==
  IF seller_created_offer THEN "SellerCanceled" ELSE "BuyerCanceled"

fault_for_declined(seller_created_offer) ==
  IF seller_created_offer THEN "BuyerDeclined" ELSE "SellerDeclined"

\* Faulty variant: is_our_offer is read as "the seller's offer" whoever captured.
determine_seller_created_offer_IgnoresCapturer(capturer_is_seller, is_our_offer) ==
  is_our_offer

determine_seller_created_offer(capturer_is_seller, is_our_offer) ==
  IF capturer_is_seller THEN is_our_offer ELSE ~is_our_offer

-----------------------------------------------------------------------------
(* parsing.rs *)

\* The first "GetTrade" decides; only without one does the host mention count.
detect_proof_source(request) ==
  IF request.getTrade # None
    THEN IF request.getTrade = "O" THEN "TradeOffer"
         ELSE IF request.getTrade = "S" THEN "TradeStatus" ELSE "unknown"
    ELSE IF request.community THEN "Community" ELSE "unknown"

\* first_cs2_assetid and first_cs2_status_assetid: the first CS2 item of an
\* optional list whose asset id parses.
first_cs2_assetid(items) ==
  IF items = None THEN None
  ELSE LET hits == SelectSeq(items, LAMBDA it : it.appid = CS2 /\ it.assetid # None)
       IN  IF hits = <<>> THEN None ELSE hits[1].assetid

\* Some(TradeOfferData) from a body of form "offer"; is_our_offer is optional in
\* the JSON and defaults to false.
parse_trade_offer(body) ==
  [state            |-> body.trade_offer_state,
   trade_offer_id   |-> body.tradeofferid,
   partner_steam_id |-> body.accountid_other + Steam64Offset,
   asset_to_give    |-> first_cs2_assetid(body.items_to_give),
   asset_to_receive |-> first_cs2_assetid(body.items_to_receive),
   is_our_offer     |-> body.is_our_offer = "true"]

\* Some(TradeStatusData) from the first trade of a body of form "status".
parse_trade_status(body) ==
  LET received == first_cs2_assetid(body.assets_received)
      given    == first_cs2_assetid(body.assets_given)
  IN  [status           |-> body.status,
       partner_steam_id |-> body.steamid_other,
       asset_id_given   |-> given,
       asset_id         |-> IF received # None THEN received ELSE given,
       time_settlement  |-> body.time_settlement]

\* The page says that the trade offer does not exist: an error page with one of
\* the two phrases, and not the sign-in page of somebody who is logged out.
parse_community_html(request, body) ==
  IF body.form # "html" \/ request.cookie = None \/ request.urlOffer = None THEN Err("ParseFailed")
  ELSE IF body.sign_in /\ ~body.steam_id THEN Err("ParseFailed")
  ELSE IF ~(body.error_page /\ body.not_found) THEN Err("ParseFailed")
  ELSE [tag |-> "data", prover_steam_id |-> request.cookie, trade_offer_id |-> request.urlOffer]

-----------------------------------------------------------------------------
(* oracle.rs *)

\* The refund reason of a terminal GetTradeOffer state, or "NonTerminal".
OfferRefundReason(state, seller_created_offer) ==
  CASE state = 5  -> fault_for_expired(seller_created_offer)
    [] state = 6  -> fault_for_canceled(seller_created_offer)
    [] state = 7  -> fault_for_declined(seller_created_offer)
    [] state = 8  -> "InvalidItems"
    [] state = 10 -> "Canceled2FA"
    [] OTHER      -> "NonTerminal"

\* Faulty variant: the asset is looked for among the items to give, whoever
\* captured the offer.
proof_asset_GiveSide(data, capturer_is_seller) == data.asset_to_give

\* The seller gives the item, the buyer receives it.
proof_asset(data, capturer_is_seller) ==
  IF capturer_is_seller THEN data.asset_to_give ELSE data.asset_to_receive

decide_trade_offer(request, body, escrow) ==
  LET data == parse_trade_offer(body)
      capturer_is_seller == data.partner_steam_id = escrow.buyer_steam_id
      proof_asset_id == proof_asset(data, capturer_is_seller)
      seller_created == determine_seller_created_offer(capturer_is_seller, data.is_our_offer)
      reason == OfferRefundReason(data.state, seller_created)
  IN  IF body.form # "offer" THEN Err("ParseFailed")
      ELSE IF request.offerParam \notin {None, escrow.trade_offer_id} THEN Err("TradeOfferIdMismatch")
      ELSE IF data.trade_offer_id # escrow.trade_offer_id THEN Err("TradeOfferIdMismatch")
      ELSE IF data.partner_steam_id \notin {escrow.seller_steam_id, escrow.buyer_steam_id}
             THEN Refund(escrow, "WrongParties")
      ELSE IF proof_asset_id = None THEN Refund(escrow, "NotCS2Item")
      ELSE IF proof_asset_id # escrow.asset_id THEN Refund(escrow, "WrongAsset")
      ELSE IF reason = "NonTerminal" THEN Err("NonTerminalState")
      ELSE Refund(escrow, reason)

\* Faulty variant: the settlement time is not compared with the clock.
EscrowPassed_NoClock(time_settlement, proof_timestamp) == TRUE

\* Faulty variant: a release is accepted until the settlement time, not from it.
EscrowPassed_Reversed(time_settlement, proof_timestamp) == time_settlement >= proof_timestamp

EscrowPassed(time_settlement, proof_timestamp) == ~(time_settlement > proof_timestamp)

decide_trade_status(body, escrow, proof_timestamp) ==
  LET data == parse_trade_status(body)
      deprecated == {4, 5, 6, 7, 8, 9, 11}
  IN  IF body.form # "status" THEN Err("ParseFailed")
      ELSE IF data.status = 3 THEN
             IF data.asset_id_given # escrow.asset_id THEN Err("InvalidReleaseProof")
             ELSE IF data.partner_steam_id = None THEN Err("ParseFailed")
             ELSE IF data.partner_steam_id # escrow.buyer_steam_id THEN Refund(escrow, "WrongRecipient")
             ELSE IF data.time_settlement = None THEN Err("MissingTimeSettlement")
             ELSE IF ~EscrowPassed(data.time_settlement, proof_timestamp) THEN Err("EscrowNotPassed")
             ELSE Settle(escrow, "Release", "None")
      ELSE IF data.status \in deprecated \cup {12} THEN
             IF data.asset_id # escrow.asset_id THEN Err("AssetIdMismatch")
             ELSE IF data.status = 12 THEN Refund(escrow, "TradeRollback")
             ELSE Refund(escrow, "DeprecatedRollback")
      ELSE Err("NonTerminalState")

decide_community(request, body, escrow, proof_timestamp) ==
  LET data == parse_community_html(request, body)
  IN  IF data.tag = "error" THEN data
      ELSE IF data.trade_offer_id # escrow.trade_offer_id THEN Err("TradeOfferIdMismatch")
      ELSE IF data.prover_steam_id \notin {escrow.seller_steam_id, escrow.buyer_steam_id}
             THEN Err("PartnerMismatch")
      ELSE IF proof_timestamp < escrow.purchase_time + escrow.abandoned_window
             THEN Err("TooEarlyForAbandonment")
      ELSE Refund(escrow, "TradeNotExist")

decide(transcript, escrow, proof_timestamp) ==
  LET source == detect_proof_source(transcript.request)
      host   == IF source = "Community" THEN "steamcommunity.com" ELSE "api.steampowered.com"
  IN  IF transcript.server \notin {"api.steampowered.com", "steamcommunity.com"} THEN Err("InvalidServer")
      ELSE IF source = "unknown" THEN Err("UnknownProofSource")
      ELSE IF transcript.server # host THEN Err("InvalidServer")
      ELSE IF transcript.body.form = "unreadable" THEN Err("ParseFailed")
      ELSE IF source = "TradeOffer" THEN decide_trade_offer(transcript.request, transcript.body, escrow)
      ELSE IF source = "TradeStatus" THEN decide_trade_status(transcript.body, escrow, proof_timestamp)
      ELSE decide_community(transcript.request, transcript.body, escrow, proof_timestamp)
=============================================================================
