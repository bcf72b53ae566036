----------------------------- MODULE ChainReader ----------------------------
(***************************************************************************)
(* read_escrow and eth_call of src/src/settlement/chain_reader.rs: five    *)
(* eth_calls at "latest" in two parallel batches, each with its retries,   *)
(* while the contracts go on changing.                                     *)
(*                                                                         *)
(* The contracts are external and known by their getters: purchases and    *)
(* listings of the one asset, abandonedWindow, getSteamIdByWallet.  `no`   *)
(* numbers the purchases of the asset and stands for purchaseTime and      *)
(* tradeOfferId.                                                           *)
(*                                                                         *)
(* Time is discrete.  A timer that is due and a batch that is complete are *)
(* polled before the clock moves on.                                       *)
(***************************************************************************)
EXTENDS Naturals, FiniteSets

CONSTANTS
  None,         \* Option::None
  Wallet,       \* the wallets of the seller and of the buyers
  SteamId,      \* the Steam64 ids in SteamAccountFactory
  Registries,   \* what SteamAccountFactory may hold when the read begins
  Window,       \* the values the owner may give abandonedWindow
  RpcTimeout,   \* the timeout of the HTTP client
  BaseDelay,    \* BASE_DELAY_MS
  MaxChanges,   \* bound: transactions on chain while the reader runs
  MaxTime       \* bound on the clock

ASSUME ReaderAssumption ==
  /\ RpcTimeout \in Nat /\ BaseDelay \in Nat /\ MaxChanges \in Nat /\ MaxTime \in Nat
  /\ None \notin Nat
  /\ SteamId \subseteq Nat \ {0}
  /\ Registries \subseteq [Wallet -> SteamId \cup {0}]
  /\ None \notin Wallet

MAX_RETRIES == 3

Batch1 == {"purchases", "listings", "abandonedWindow"}
Batch2 == {"sellerSteamId", "buyerSteamId"}
Call == Batch1 \cup Batch2

VARIABLES
  now,          \* the time since read_escrow was called
  purchase,     \* [buyer, active, no]: purchases(assetId); buyer is None for address zero
  listing,      \* [seller, exists]: listings(assetId)
  window,       \* abandonedWindow()
  registry,     \* registry[w]: getSteamIdByWallet(w), 0 when not registered
  changes,      \* the number of transactions so far
  step,         \* step of read_escrow: idle, batch1, batch2, returned or dropped
  since,        \* when its current batch was started
  state,        \* state[c]: unsent, sent, sleeping, ok or failed
  attempt,      \* attempt[c]: the loop variable of eth_call
  until,        \* until[c]: when the request times out or the sleep ends
  value,        \* value[c]: what c returned
  next_rpc_id,  \* requests sent so far
  snapshot,     \* the EscrowSnapshot returned, or None
  history       \* the states of the contracts since read_escrow was called

chain == [purchase |-> purchase, listing |-> listing, window |-> window, registry |-> registry]
chainVars == <<purchase, listing, window, registry, changes>>
callVars  == <<state, attempt, until, value, next_rpc_id>>
vars == <<now, chainVars, step, since, callVars, snapshot, history>>

-----------------------------------------------------------------------------
NoPurchase == [buyer |-> None, active |-> FALSE, no |-> 0]

\* The contracts are in any state when the server calls read_escrow.
ChainInit ==
  /\ purchase \in {NoPurchase} \cup [buyer : Wallet, active : BOOLEAN, no : {1}]
  /\ listing \in [seller : Wallet, exists : BOOLEAN]
  /\ listing.seller # purchase.buyer
  /\ purchase.active => listing.exists
  /\ window \in Window
  /\ registry \in Registries
  /\ changes = 0

Init ==
  /\ ChainInit
  /\ now = 0
  /\ step = "idle"
  /\ since = 0
  /\ state = [c \in Call |-> "unsent"]
  /\ attempt = [c \in Call |-> 0]
  /\ until = [c \in Call |-> 0]
  /\ value = [c \in Call |-> None]
  /\ next_rpc_id = 0
  /\ snapshot = None
  /\ history = {}

-----------------------------------------------------------------------------
(* The contracts (external) *)

\* A transaction between the start and the end of the read.
Changes ==
  /\ step \in {"batch1", "batch2"}
  /\ changes < MaxChanges
  /\ changes' = changes + 1
  /\ history' = history \cup {chain'}
  /\ UNCHANGED <<now, step, since, callVars, snapshot>>

Listed ==
  /\ ~listing.exists
  /\ \E w \in Wallet : listing' = [seller |-> w, exists |-> TRUE]
  /\ UNCHANGED <<purchase, window, registry>>
  /\ Changes

Delisted ==
  /\ listing.exists /\ ~purchase.active
  /\ listing' = [listing EXCEPT !.exists = FALSE]
  /\ UNCHANGED <<purchase, window, registry>>
  /\ Changes

Purchased ==
  /\ listing.exists /\ ~purchase.active
  /\ \E w \in Wallet \ {listing.seller} :
       purchase' = [buyer |-> w, active |-> TRUE, no |-> purchase.no + 1]
  /\ UNCHANGED <<listing, window, registry>>
  /\ Changes

Settled ==
  /\ purchase.active
  /\ purchase' = [purchase EXCEPT !.active = FALSE]
  /\ UNCHANGED <<listing, window, registry>>
  /\ Changes

WindowSet ==
  /\ \E w \in Window \ {window} : window' = w
  /\ UNCHANGED <<purchase, listing, registry>>
  /\ Changes

Registered ==
  /\ \E w \in Wallet, id \in SteamId :
       /\ registry[w] = 0
       /\ \A v \in Wallet : registry[v] # id
       /\ registry' = [registry EXCEPT ![w] = id]
  /\ UNCHANGED <<purchase, listing, window>>
  /\ Changes

ChainStep == Listed \/ Delisted \/ Purchased \/ Settled \/ WindowSet \/ Registered

\* Faulty variant: the second batch asks for the buyer twice.
Query_BuyerTwice(c) ==
  CASE c = "purchases"       -> purchase
    [] c = "listings"        -> listing
    [] c = "abandonedWindow" -> window
    [] OTHER                 -> registry[value["purchases"].buyer]

\* What eth_call c asks of the contracts.
Query(c) ==
  CASE c = "purchases"       -> purchase
    [] c = "listings"        -> listing
    [] c = "abandonedWindow" -> window
    [] c = "sellerSteamId"   -> registry[value["listings"].seller]
    [] OTHER                 -> registry[value["purchases"].buyer]

-----------------------------------------------------------------------------
(* eth_call *)

\* The delay before retry number attempt + 1: BASE_DELAY_MS * 3^attempt.
Backoff(a) == BaseDelay * (CASE a = 0 -> 1 [] a = 1 -> 3 [] OTHER -> 9)

Due(c) == state[c] \in {"sent", "sleeping"} /\ now >= until[c]

\* The loop of c is left; there is nothing to wait for any more.
Ended(c, result) ==
  /\ state' = [state EXCEPT ![c] = result]
  /\ until' = [until EXCEPT ![c] = 0]

\* The call ends with an error that is not retried: an RPC error, a body that
\* cannot be read or decoded, or a timeout while the body is read.
Fails(c) ==
  /\ state[c] = "sent"
  /\ Ended(c, "failed")
  /\ UNCHANGED <<now, chainVars, step, since, attempt, value, next_rpc_id, snapshot, history>>

\* attempt + 1 < MAX_RETRIES.
RetriesLeft(a) == a + 1 < MAX_RETRIES

\* The request could not be sent, was answered with 429 or 5xx, or timed out:
\* sleep and go round the loop, or give up with the last error.
FailsTransiently(c) ==
  /\ state[c] = "sent"
  /\ \/ /\ RetriesLeft(attempt[c])
        /\ state' = [state EXCEPT ![c] = "sleeping"]
        /\ until' = [until EXCEPT ![c] = now + Backoff(attempt[c])]
     \/ /\ ~RetriesLeft(attempt[c])
        /\ Ended(c, "failed")
  /\ UNCHANGED <<now, chainVars, step, since, attempt, value, next_rpc_id, snapshot, history>>

\* The sleep is over: the next attempt, with a fresh id.
Retries(c) ==
  /\ state[c] = "sleeping"
  /\ Due(c)
  /\ state' = [state EXCEPT ![c] = "sent"]
  /\ attempt' = [attempt EXCEPT ![c] = @ + 1]
  /\ until' = [until EXCEPT ![c] = now + RpcTimeout]
  /\ next_rpc_id' = next_rpc_id + 1
  /\ UNCHANGED <<now, chainVars, step, since, value, snapshot, history>>

\* The node answers with the latest state of the contracts.
Answered(c) ==
  /\ state[c] = "sent"
  /\ Ended(c, "ok")
  /\ value' = [value EXCEPT ![c] = Query(c)]
  /\ UNCHANGED <<now, chainVars, step, since, attempt, next_rpc_id, snapshot, history>>

-----------------------------------------------------------------------------
(* read_escrow *)

\* Faulty variant: the HTTP client has no timeout.
SendBatch_NoTimeout(batch) ==
  /\ state' = [c \in Call |-> IF c \in batch THEN "sent" ELSE state[c]]
  /\ until' = [c \in Call |-> IF c \in batch THEN MaxTime ELSE until[c]]
  /\ since' = now
  /\ next_rpc_id' = next_rpc_id + Cardinality(batch)
  /\ UNCHANGED <<attempt, value>>

\* tokio::join! sends the requests of a batch.
SendBatch(batch) ==
  /\ state' = [c \in Call |-> IF c \in batch THEN "sent" ELSE state[c]]
  /\ until' = [c \in Call |-> IF c \in batch THEN now + RpcTimeout ELSE until[c]]
  /\ since' = now
  /\ next_rpc_id' = next_rpc_id + Cardinality(batch)
  /\ UNCHANGED <<attempt, value>>

Begin ==
  /\ step = "idle"
  /\ step' = "batch1"
  /\ history' = {chain}
  /\ SendBatch(Batch1)
  /\ UNCHANGED <<now, chainVars, snapshot>>

\* tokio::join! waits for all its calls, also after one has failed.
Joined(batch) == \A c \in batch : state[c] \in {"ok", "failed"}

Succeeded(batch) == \A c \in batch : state[c] = "ok"

\* Faulty variant: the status of the purchase is not looked at.
Valid_AnyStatus == value["purchases"].buyer # None /\ value["listings"].exists

\* There is a purchase, it is active, and there is a listing.
Valid ==
  /\ value["purchases"].buyer # None
  /\ value["purchases"].active
  /\ value["listings"].exists

\* Batch 1 is complete: go on with batch 2, or return the error.
EndBatch1 ==
  /\ step = "batch1"
  /\ Joined(Batch1)
  /\ \/ /\ Succeeded(Batch1) /\ Valid
        /\ step' = "batch2"
        /\ SendBatch(Batch2)
     \/ /\ ~(Succeeded(Batch1) /\ Valid)
        /\ step' = "returned"
        /\ UNCHANGED <<since, callVars>>
  /\ UNCHANGED <<now, chainVars, snapshot, history>>

PartiesRegistered == value["sellerSteamId"] # 0 /\ value["buyerSteamId"] # 0

\* Batch 2 is complete: both wallets are registered, or an error is returned.
EndBatch2 ==
  /\ step = "batch2"
  /\ Joined(Batch2)
  /\ step' = "returned"
  /\ snapshot' = IF Succeeded(Batch2) /\ PartiesRegistered
                   THEN [purchase |-> value["purchases"], seller |-> value["listings"].seller,
                         abandoned_window |-> value["abandonedWindow"],
                         seller_steam_id |-> value["sellerSteamId"],
                         buyer_steam_id |-> value["buyerSteamId"]]
                   ELSE None
  /\ UNCHANGED <<now, chainVars, since, callVars, history>>

\* The timeout around read_escrow fires: the future is dropped, and its requests
\* and sleeps with it.
Dropped ==
  /\ step \in {"batch1", "batch2"}
  /\ step' = "dropped"
  /\ state' = [c \in Call |-> "unsent"]
  /\ attempt' = [c \in Call |-> 0]
  /\ until' = [c \in Call |-> 0]
  /\ value' = [c \in Call |-> None]
  /\ UNCHANGED <<now, chainVars, since, next_rpc_id, snapshot, history>>

-----------------------------------------------------------------------------
Tick ==
  /\ step \in {"batch1", "batch2"}
  /\ now < MaxTime
  /\ \A c \in Call : ~Due(c)
  /\ ~(step = "batch1" /\ Joined(Batch1))
  /\ ~(step = "batch2" /\ Joined(Batch2))
  /\ now' = now + 1
  /\ UNCHANGED <<chainVars, step, since, callVars, snapshot, history>>

CallStep(c) == Fails(c) \/ FailsTransiently(c) \/ Retries(c) \/ Answered(c)

\* The caller has its answer, or has given up.
Done == step \in {"returned", "dropped"} /\ UNCHANGED vars

Next ==
  \/ ChainStep
  \/ \E c \in Call : CallStep(c)
  \/ Begin \/ EndBatch1 \/ EndBatch2 \/ Dropped
  \/ Tick \/ Done

Spec == Init /\ [][Next]_vars

-----------------------------------------------------------------------------
(* Properties *)

\* Types of the state of the reader.
TypeOK ==
  /\ now \in Nat /\ since \in Nat /\ next_rpc_id \in Nat
  /\ step \in {"idle", "batch1", "batch2", "returned", "dropped"}
  /\ state \in [Call -> {"unsent", "sent", "sleeping", "ok", "failed"}]
  /\ attempt \in [Call -> Nat]
  /\ until \in [Call -> Nat]

\* The longest an eth_call can take: three timeouts and two delays.
CallTime == MAX_RETRIES * RpcTimeout + Backoff(0) + Backoff(1)

\* read_escrow ends by itself within two batches of three timeouts and two
\* delays, whatever the node does and whichever of the calls fail.
ReadBounded == step \in {"batch1", "batch2"} => now <= 2 * CallTime

\* The node gets at most MAX_RETRIES requests for each of the five calls.
RequestsBounded == next_rpc_id <= MAX_RETRIES * Cardinality(Call)

\* No request or sleep is left behind: when read_escrow has returned or was
\* dropped, none of its calls is still going on.
NothingLeftBehind ==
  step \in {"returned", "dropped"} => \A c \in Call : state[c] \notin {"sent", "sleeping"}

\* Everything a snapshot says was so at some moment of the read: the purchase was
\* active, the listing stood, and the Steam ids are those of its two parties, never
\* the zero of a wallet that is not registered.
SnapshotFresh ==
  snapshot # None =>
    /\ \E h \in history : h.purchase = snapshot.purchase /\ h.purchase.active
    /\ \E h \in history : h.listing = [seller |-> snapshot.seller, exists |-> TRUE]
    /\ \E h \in history : h.window = snapshot.abandoned_window
    /\ \E h \in history : h.registry[snapshot.seller] = snapshot.seller_steam_id
    /\ \E h \in history : h.registry[snapshot.purchase.buyer] = snapshot.buyer_steam_id
    /\ {snapshot.seller_steam_id, snapshot.buyer_steam_id} \subseteq SteamId
=============================================================================
