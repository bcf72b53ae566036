--------------------------- MODULE OracleIdentity ---------------------------
(* Who the oracle is, from boot to boot: `Config::load` (src/config.rs), the  *)
(* start of `run_serve` and `info_handler` (src/main.rs), the key, domain and *)
(* digests of `OracleSigner` (src/settlement/signer.rs) and the quotes of     *)
(* src/attestation.rs.  Everything the process knows is lost when it stops;   *)
(* what lasts is the host it runs on, what it has told and signed, and the    *)
(* contracts.                                                                 *)
(*                                                                            *)
(* External: dstack (a key per image, a quote that names image and report     *)
(* data), the contracts, the people who deploy and register.  keccak256 is    *)
(* collision-free and an address stands for one key.                          *)
EXTENDS Naturals, FiniteSets

CONSTANTS
  Images,        \* what dstack measures
  OperatorKeys,  \* private keys in the environment or in a file
  Yamls,         \* contents of config.yaml: records with some of the keys
  Hosts,         \* where the oracle is deployed to, see Host
  ParseAddress,  \* texts of addresses -> addresses, or Invalid (alloy)
  ZERO_ADDR,     \* the text that main.rs compares with
  RandomKeys,    \* keys the random generator may produce
  DefaultChain,  \* default_chain_id, default_rpc_url
  Deployments,   \* JJSKIN contracts, [chain, contract]
  Assets, Offers, Details,
  Outcomes,      \* settlements that decide() comes to, [decision, refund_reason]
  None, Invalid,
  MaxChanges,    \* bound: crashes, failures at boot, redeployments, agent changes
  MaxSigned,     \* bound: signatures
  MaxTrusted     \* bound: registrations

KeyTexts == OperatorKeys \cup {None, Invalid}

Host ==
  [image : Images, tdx : BOOLEAN, env : KeyTexts, keyFile : KeyTexts,
   file : {"missing", "unparsable", "yaml"}, yaml : Yamls]

ASSUME HostAssumption == Hosts \subseteq Host

ASSUME DeploymentAssumption ==
  \A d \in Deployments : d = [chain |-> d.chain, contract |-> d.contract]

ASSUME BoundAssumption == MaxChanges \in Nat

VARIABLES
  host,            \* what the process finds when it starts
  pc,              \* how far run_serve has come: down, load, check, key, wire, start, serving
  config,          \* Config.oracle
  oracle_signer,   \* [key, domain_separator]
  chain_reader,    \* [at |-> [chain, contract], factory]
  ORACLE_ADDRESS,  \* the OnceLock
  quoting,         \* addresses that /attestation requests wait for a quote of
  epoch,           \* how often the server has started to serve
  changes,
  told,            \* what /info and /attestation answered
  signatures,      \* what was signed, with the circumstances
  registered       \* contracts: trusted oracle addresses

process == <<pc, config, oracle_signer, chain_reader, ORACLE_ADDRESS, quoting>>
history == <<told, signatures>>
vars == <<host, process, epoch, changes, history, registered>>

-----------------------------------------------------------------------------
(* signer.rs *)

keccak256(x) == [keccak |-> x]

\* The address of a key (external: alloy).
AddressOf(key) == [address |-> key]

SETTLEMENT_TYPEHASH == "Settlement"
ITEM_ATTESTATION_TYPEHASH == "ItemAttestation"

\* `decision as u8`, `refund_reason as u8`
DecisionU8 == [Release |-> 0, Refund |-> 1]

RefundReasonU8 ==
  [None |-> 0, Timeout |-> 1, NotCS2Item |-> 2, WrongAsset |-> 3, WrongParties |-> 4,
   InvalidItems |-> 5, Canceled2FA |-> 6, BuyerExpired |-> 7, SellerExpired |-> 8,
   BuyerCanceled |-> 9, SellerCanceled |-> 10, BuyerDeclined |-> 11, SellerDeclined |-> 12,
   WrongRecipient |-> 13, TradeRollback |-> 14, DeprecatedRollback |-> 15, TradeNotExist |-> 16]

ASSUME OutcomeAssumption ==
  Outcomes \subseteq [decision : DOMAIN DecisionU8, refund_reason : DOMAIN RefundReasonU8]

\* Faulty variant: the chain id is the default's, not the configuration's.
compute_domain_separator_Default(chain_id, contract_address) ==
  keccak256([name |-> "JJSKIN", version |-> "1", chainId |-> DefaultChain,
             verifyingContract |-> contract_address])

compute_domain_separator(chain_id, contract_address) ==
  keccak256([name |-> "JJSKIN", version |-> "1", chainId |-> chain_id,
             verifyingContract |-> contract_address])

compute_struct_hash(settlement) ==
  keccak256([typehash |-> SETTLEMENT_TYPEHASH, assetId |-> settlement.asset_id,
             tradeOfferId |-> settlement.trade_offer_id,
             decision |-> DecisionU8[settlement.decision],
             refundReason |-> RefundReasonU8[settlement.refund_reason]])

compute_item_attestation_struct_hash(asset_id, item_detail) ==
  keccak256([typehash |-> ITEM_ATTESTATION_TYPEHASH, assetId |-> asset_id,
             itemDetail |-> item_detail])

compute_eip712_digest(domain_separator, struct_hash) == keccak256(<<domain_separator, struct_hash>>)

-----------------------------------------------------------------------------
(* What the contract computes (external; the comments of signer.rs) *)

ContractDomain(d) ==
  keccak256([name |-> "JJSKIN", version |-> "1", chainId |-> d.chain,
             verifyingContract |-> d.contract])

\* A signature is accepted for a struct when it recovers to a trusted address.
Recovers(d, struct, s) ==
  /\ s.by \in registered[d]
  /\ s.digest = keccak256(<<ContractDomain(d), keccak256(struct)>>)

\* submitSettlement: the trade offer is the one the contract holds for the asset by then,
\* the rest comes from the wire result.
AcceptsSettlement(d, asset, offer, decision, reason, s) ==
  Recovers(d, [typehash |-> "Settlement", assetId |-> asset, tradeOfferId |-> offer,
               decision |-> decision, refundReason |-> reason], s)

AcceptsItem(d, asset, detail, s) ==
  Recovers(d, [typehash |-> "ItemAttestation", assetId |-> asset, itemDetail |-> detail], s)

-----------------------------------------------------------------------------
(* config.rs *)

Defaults ==
  [contract_address |-> ZERO_ADDR, steam_factory_address |-> ZERO_ADDR,
   chain_id |-> DefaultChain, rpc_url |-> DefaultChain, signing_key_path |-> None]

\* An absent file gives the defaults, an absent key its default.
Loaded(h) ==
  IF h.file = "missing" THEN Defaults
  ELSE [k \in DOMAIN Defaults |-> IF k \in DOMAIN h.yaml THEN h.yaml[k] ELSE Defaults[k]]

-----------------------------------------------------------------------------
Stopped ==
  /\ pc' = "down" /\ config' = None /\ oracle_signer' = None /\ chain_reader' = None
  /\ ORACLE_ADDRESS' = None /\ quoting' = {}

Init ==
  /\ host \in Hosts
  /\ pc = "down" /\ config = None /\ oracle_signer = None /\ chain_reader = None
  /\ ORACLE_ADDRESS = None /\ quoting = {}
  /\ epoch = 0 /\ changes = 0 /\ told = {} /\ signatures = {}
  /\ registered = [d \in Deployments |-> {}]

-----------------------------------------------------------------------------
(* run_serve *)

\* The container is started, or started again (external).
Boot ==
  /\ pc = "down"
  /\ pc' = "load"
  /\ UNCHANGED <<host, config, oracle_signer, chain_reader, ORACLE_ADDRESS, quoting,
                 epoch, changes, history, registered>>

\* Config::load: a file that does not parse ends the process.
LoadConfig ==
  /\ pc = "load"
  /\ IF host.file = "unparsable" THEN Stopped
     ELSE /\ config' = Loaded(host)
          /\ pc' = "check"
          /\ UNCHANGED <<oracle_signer, chain_reader, ORACLE_ADDRESS, quoting>>
  /\ UNCHANGED <<host, epoch, changes, history, registered>>

\* Faulty variant: only one of the two addresses is checked.
CheckAddresses_ContractOnly ==
  /\ pc = "check"
  /\ IF config.contract_address = ZERO_ADDR THEN Stopped
     ELSE /\ pc' = "key"
          /\ UNCHANGED <<config, oracle_signer, chain_reader, ORACLE_ADDRESS, quoting>>
  /\ UNCHANGED <<host, epoch, changes, history, registered>>

CheckAddresses ==
  /\ pc = "check"
  /\ IF ZERO_ADDR \in {config.contract_address, config.steam_factory_address} THEN Stopped
     ELSE /\ pc' = "key"
          /\ UNCHANGED <<config, oracle_signer, chain_reader, ORACLE_ADDRESS, quoting>>
  /\ UNCHANGED <<host, epoch, changes, history, registered>>

\* OracleSigner::from_config once it has its key.
SignerFrom(key) ==
  LET contract_address == ParseAddress[config.contract_address] IN
  /\ IF contract_address = Invalid THEN Stopped
     ELSE /\ oracle_signer' =
               [key |-> key,
                domain_separator |-> compute_domain_separator(config.chain_id, contract_address)]
          /\ pc' = "wire"
          /\ UNCHANGED <<config, chain_reader, ORACLE_ADDRESS, quoting>>
  /\ UNCHANGED <<host, epoch, changes, history, registered>>

OperatorGivesKey == host.env # None \/ config.signing_key_path # None

\* The environment variable comes before the file, and an unusable key is fatal.
OperatorKey ==
  /\ pc = "key" /\ OperatorGivesKey
  /\ LET text == IF host.env # None THEN host.env ELSE host.keyFile IN
     \/ /\ text \in {None, Invalid}
        /\ Stopped
        /\ UNCHANGED <<host, epoch, changes, history, registered>>
     \/ /\ text \notin {None, Invalid}
        /\ SignerFrom([kind |-> "operator", of |-> text])

\* Faulty variant: the derivation path differs from boot to boot.
DeriveKey_PerBoot ==
  /\ pc = "key" /\ ~OperatorGivesKey /\ host.tdx
  /\ SignerFrom([kind |-> "derived", of |-> <<host.image, epoch>>])

\* dstack answers with the key of the image and the path "oracle/signing/v1".
DeriveKey ==
  /\ pc = "key" /\ ~OperatorGivesKey /\ host.tdx
  /\ SignerFrom([kind |-> "derived", of |-> host.image])

\* dstack fails or its key is too short or not one of the curve: from_config fails.
DeriveFails ==
  /\ pc = "key" /\ ~OperatorGivesKey /\ host.tdx
  /\ changes < MaxChanges
  /\ changes' = changes + 1
  /\ Stopped
  /\ UNCHANGED <<host, epoch, history, registered>>

Seen == {t.address : t \in told} \cup {s.by : s \in signatures}

\* Faulty variant: the generator is seeded the same way at every boot.
RandomKey_Seeded ==
  /\ pc = "key" /\ ~OperatorGivesKey /\ ~host.tdx
  /\ SignerFrom([kind |-> "random", of |-> CHOOSE r \in RandomKeys : TRUE])

RandomKey ==
  /\ pc = "key" /\ ~OperatorGivesKey /\ ~host.tdx
  /\ \E r \in RandomKeys :
       /\ AddressOf([kind |-> "random", of |-> r]) \notin Seen
       /\ SignerFrom([kind |-> "random", of |-> r])

\* Faulty variant: the bound address is the image's, whatever key signs.
bind_oracle_address_Image(address) ==
  ORACLE_ADDRESS' = AddressOf([kind |-> "derived", of |-> host.image])

\* A OnceLock keeps what is set first; it is set outside dstack too.
bind_oracle_address(address) ==
  ORACLE_ADDRESS' = IF ORACLE_ADDRESS = None THEN address ELSE ORACLE_ADDRESS

\* The chain reader, and the address for the quotes.
Wire ==
  LET jjskin == ParseAddress[config.contract_address]
      factory == ParseAddress[config.steam_factory_address]
  IN
  /\ pc = "wire"
  /\ IF Invalid \in {jjskin, factory} THEN Stopped
     ELSE /\ chain_reader' = [at |-> [chain |-> config.rpc_url, contract |-> jjskin],
                              factory |-> factory]
          /\ bind_oracle_address(AddressOf(oracle_signer.key))
          /\ pc' = "start"
          /\ UNCHANGED <<config, oracle_signer, quoting>>
  /\ UNCHANGED <<host, epoch, changes, history, registered>>

\* Faulty variant: what an earlier start left behind keeps the port.
Listen_Once ==
  /\ pc = "start" /\ epoch = 0
  /\ pc' = "serving" /\ epoch' = epoch + 1
  /\ UNCHANGED <<host, config, oracle_signer, chain_reader, ORACLE_ADDRESS, quoting,
                 changes, history, registered>>

\* State, routes and the listening socket.
Listen ==
  /\ pc = "start"
  /\ pc' = "serving" /\ epoch' = epoch + 1
  /\ UNCHANGED <<host, config, oracle_signer, chain_reader, ORACLE_ADDRESS, quoting,
                 changes, history, registered>>

\* The catalog does not load, the address or the TLS files are wrong, the port is taken.
ListenFails ==
  /\ pc = "start"
  /\ changes < MaxChanges
  /\ changes' = changes + 1
  /\ Stopped
  /\ UNCHANGED <<host, epoch, history, registered>>

-----------------------------------------------------------------------------
(* Requests *)

\* GET /info
info_handler ==
  /\ pc = "serving"
  /\ told' = told \cup {[address |-> AddressOf(oracle_signer.key), image |-> host.image,
                         epoch |-> epoch]}
  /\ UNCHANGED <<host, process, epoch, changes, signatures, registered>>

\* GET /attestation as far as get_quote.  Without an address it answers 503, and
\* outside dstack 500: neither changes anything.
attestation_handler ==
  /\ pc = "serving"
  /\ ORACLE_ADDRESS # None /\ host.tdx
  /\ quoting' = quoting \cup {ORACLE_ADDRESS}
  /\ UNCHANGED <<host, pc, config, oracle_signer, chain_reader, ORACLE_ADDRESS,
                 epoch, changes, history, registered>>

\* dstack answers with a quote of the image and the report data.
QuoteReturns ==
  \E a \in quoting :
    /\ quoting' = quoting \ {a}
    /\ told' = told \cup {[address |-> a, image |-> host.image, epoch |-> epoch]}
    /\ UNCHANGED <<host, pc, config, oracle_signer, chain_reader, ORACLE_ADDRESS,
                   epoch, changes, signatures, registered>>

\* get_quote fails, its answer does not decode, or the client has gone.
QuoteFails ==
  \E a \in quoting :
    /\ quoting' = quoting \ {a}
    /\ UNCHANGED <<host, pc, config, oracle_signer, chain_reader, ORACLE_ADDRESS,
                   epoch, changes, history, registered>>

\* What the oracle is configured for.
Target == [chain |-> config.chain_id, contract |-> ParseAddress[config.contract_address]]

Signature(struct_hash, message, read) ==
  [by |-> AddressOf(oracle_signer.key),
   digest |-> compute_eip712_digest(oracle_signer.domain_separator, struct_hash),
   message |-> message, read |-> read, target |-> Target, image |-> host.image, epoch |-> epoch]

\* A decision is signed and leaves with the result; its ids are those of the escrow, read
\* from the contract of the reader on the chain of the RPC.
sign_settlement ==
  /\ pc = "serving" /\ chain_reader.at \in Deployments
  /\ Cardinality(signatures) < MaxSigned
  /\ \E a \in Assets, offer \in Offers, o \in Outcomes :
       LET settlement == [asset_id |-> a, trade_offer_id |-> offer,
                          decision |-> o.decision, refund_reason |-> o.refund_reason]
       IN signatures' = signatures \cup
            {Signature(compute_struct_hash(settlement), [settlement |-> settlement],
                       chain_reader.at)}
  /\ UNCHANGED <<host, process, epoch, changes, told, registered>>

sign_item_attestation ==
  /\ pc = "serving" /\ Cardinality(signatures) < MaxSigned
  /\ \E a \in Assets, detail \in Details :
       signatures' = signatures \cup
         {Signature(compute_item_attestation_struct_hash(a, detail),
                    [item |-> [asset_id |-> a, item_detail |-> detail]], Target)}
  /\ UNCHANGED <<host, process, epoch, changes, told, registered>>

-----------------------------------------------------------------------------
(* External *)

\* The process dies.
Crash ==
  /\ pc # "down" /\ changes < MaxChanges
  /\ changes' = changes + 1
  /\ Stopped
  /\ UNCHANGED <<host, epoch, history, registered>>

\* Another image or configuration, or the same on another machine.
Redeploy ==
  /\ changes < MaxChanges
  /\ changes' = changes + 1
  /\ \E h \in Hosts : h # host /\ host' = h
  /\ Stopped
  /\ UNCHANGED <<epoch, history, registered>>

\* The sockets of dstack appear or disappear under the running process.
AgentChanges ==
  /\ changes < MaxChanges
  /\ changes' = changes + 1
  /\ host' = [host EXCEPT !.tdx = ~@]
  /\ UNCHANGED <<process, epoch, history, registered>>

\* registerOracle and registerOracleDirect: an address the oracle has told.
RegisterOracle ==
  \E t \in told, d \in Deployments :
    /\ Cardinality({r \in Seen \X Deployments : r[1] \in registered[r[2]]}) < MaxTrusted
    /\ registered' = [registered EXCEPT ![d] = @ \cup {t.address}]
    /\ UNCHANGED <<host, process, epoch, changes, history>>

-----------------------------------------------------------------------------
Advance ==
  \/ LoadConfig \/ CheckAddresses \/ OperatorKey \/ DeriveKey \/ RandomKey \/ Wire \/ Listen

Next ==
  \/ Boot \/ Advance \/ DeriveFails \/ ListenFails
  \/ info_handler \/ attestation_handler \/ QuoteReturns \/ QuoteFails
  \/ sign_settlement \/ sign_item_attestation
  \/ Crash \/ Redeploy \/ AgentChanges \/ RegisterOracle

Spec == Init /\ [][Next]_vars

\* run_serve goes on once it has been started, and dstack answers.
FairSpec == Spec /\ WF_vars(Advance)

-----------------------------------------------------------------------------
(* Properties *)

Keys ==
  [kind : {"derived"}, of : Images] \cup [kind : {"operator"}, of : OperatorKeys]
    \cup [kind : {"random"}, of : RandomKeys]

Addresses == {AddressOf(k) : k \in Keys}

\* Each part of the process exists from its step of run_serve on, and not before.
TypeOK ==
  /\ pc \in {"down", "load", "check", "key", "wire", "start", "serving"}
  /\ host \in Host
  /\ config = IF pc \in {"down", "load"} THEN None ELSE Loaded(host)
  /\ IF pc \in {"down", "load", "check", "key"} THEN oracle_signer = None
     ELSE oracle_signer.key \in Keys
  /\ IF pc \in {"start", "serving"}
     THEN ORACLE_ADDRESS \in Addresses /\ chain_reader.at.chain = config.rpc_url
     ELSE ORACLE_ADDRESS = None /\ chain_reader = None
  /\ pc # "serving" => quoting = {}
  /\ epoch \in Nat /\ changes \in 0..MaxChanges
  /\ told \subseteq [address : Addresses, image : Images, epoch : 1..epoch]
  /\ registered \in [Deployments -> SUBSET Addresses]

KindOf(address) == address.address.kind

\* Everything the oracle tells and everything it signs between two starts names one
\* address: the quote is bound to the key that signs, also when requests overlap, when
\* the dstack sockets come and go and when the process was killed before.
QuoteNamesSigner ==
  /\ \A t \in told, s \in signatures : t.epoch = s.epoch => t.address = s.by
  /\ \A t, u \in told : t.epoch = u.epoch => t.address = u.address

\* The derived key survives reboots: once an address told by an image was registered,
\* what that image signs after any number of crashes is accepted by the contract it is
\* configured for, for the message that was meant.
RestartKeepsRegistration ==
  \A t \in told, s \in signatures :
    (/\ t.image = s.image /\ KindOf(t.address) = "derived" /\ KindOf(s.by) = "derived"
     /\ s.target \in Deployments /\ t.address \in registered[s.target])
    => IF "item" \in DOMAIN s.message
       THEN AcceptsItem(s.target, s.message.item.asset_id, s.message.item.item_detail, s)
       ELSE LET m == s.message.settlement IN
            AcceptsSettlement(s.target, m.asset_id, m.trade_offer_id, DecisionU8[m.decision],
                              RefundReasonU8[m.refund_reason], s)

\* A registration covers what was registered and nothing else: a trusted signature of a
\* generated key comes from the image that told the address, and with a random key from
\* the same start of it ("requires registerOracle() on every reboot").
RegistrationCoversIdentity ==
  \A s \in signatures, d \in Deployments :
    s.by \in registered[d] /\ KindOf(s.by) # "operator" =>
      \E t \in told : /\ t.address = s.by /\ t.image = s.image
                      /\ KindOf(s.by) = "random" => t.epoch = s.epoch

\* A contract accepts a signature only for what was decided: for the message that was
\* signed, about the trade offer the contract holds, by an oracle configured for this
\* contract on this chain that read the escrow of this contract.  One key may have signed
\* for several contracts.
AcceptedMeansDecided ==
  \A s \in signatures, d \in Deployments, a \in Assets :
    /\ \A offer \in Offers, o \in Outcomes :
         AcceptsSettlement(d, a, offer, DecisionU8[o.decision],
                           RefundReasonU8[o.refund_reason], s) =>
           /\ s.target = d /\ s.read.contract = d.contract
           /\ s.message = [settlement |->
                             [asset_id |-> a, trade_offer_id |-> offer,
                              decision |-> o.decision, refund_reason |-> o.refund_reason]]
    /\ \A detail \in Details :
         AcceptsItem(d, a, detail, s) =>
           /\ s.target = d
           /\ s.message = [item |-> [asset_id |-> a, item_detail |-> detail]]

\* The server serves only with the two addresses its file gives, both of them readable
\* and neither the default: a missing file, a missing key or a typing error stops it.
ServesOnlyConfigured ==
  pc = "serving" =>
    /\ host.file = "yaml"
    /\ {"contract_address", "steam_factory_address"} \subseteq DOMAIN host.yaml
    /\ chain_reader.at.contract = ParseAddress[host.yaml.contract_address]
    /\ chain_reader.factory = ParseAddress[host.yaml.steam_factory_address]
    /\ Invalid \notin {chain_reader.at.contract, chain_reader.factory}

\* run_serve succeeds on this host, with the derived key.
Usable(h) ==
  /\ h.tdx /\ h.env = None /\ h.file # "unparsable"
  /\ LET c == Loaded(h) IN
     /\ c.signing_key_path = None
     /\ ZERO_ADDR \notin {c.contract_address, c.steam_factory_address}
     /\ Invalid \notin {ParseAddress[c.contract_address], ParseAddress[c.steam_factory_address]}

\* An oracle of h is trusted by the contract h is configured for.
Trusted(h) ==
  LET c == Loaded(h)
      d == [chain |-> c.chain_id, contract |-> ParseAddress[c.contract_address]]
  IN /\ d \in Deployments
     /\ \E t \in told : /\ t.image = h.image /\ KindOf(t.address) = "derived"
                        /\ t.address \in registered[d]

\* If the container is started again whenever it is down, a registered image comes back
\* with a key its contract trusts, without a new registration, whatever it was doing when
\* it died and however often dstack failed.  Nothing is said of a start without the dstack
\* sockets: that one takes a random key and keeps it when the sockets appear.
RegisteredComesBack ==
  WF_vars(Boot) =>
    \A h \in {x \in Hosts : Usable(x)} :
      pc = "down" /\ host = h /\ Trusted(h)
        ~> host # h \/ (pc = "serving" /\ AddressOf(oracle_signer.key) \in registered[Target])
=============================================================================
