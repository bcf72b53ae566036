--------------------------- MODULE IdentityProofs ---------------------------
(* Theorems about OracleIdentity.  What the oracle says about itself and what *)
(* it signs is one set of statements, each made by one start of one image:    *)
(* the invariant says which statements there can be.                          *)
EXTENDS OracleIdentity, TLAPS

-----------------------------------------------------------------------------
(* The inductive invariant *)

\* What the process holds comes from its configuration, and its derived key from its
\* image.
Process ==
  /\ pc \notin {"down", "load"} => host.file # "unparsable"
  /\ pc \in {"key", "wire", "start", "serving"} =>
       ZERO_ADDR \notin {config.contract_address, config.steam_factory_address}
  /\ pc \in {"wire", "start", "serving"} =>
       /\ ParseAddress[config.contract_address] # Invalid
       /\ oracle_signer.domain_separator =
            compute_domain_separator(config.chain_id, ParseAddress[config.contract_address])
       /\ oracle_signer.key.kind = "derived" => oracle_signer.key.of = host.image
  /\ pc \in {"start", "serving"} =>
       /\ ORACLE_ADDRESS = AddressOf(oracle_signer.key)
       /\ chain_reader.at.contract = ParseAddress[config.contract_address]
       /\ chain_reader.factory = ParseAddress[config.steam_factory_address]
       /\ chain_reader.factory # Invalid
  /\ quoting \subseteq {ORACLE_ADDRESS}

\* Who says something, and what the running server would say.
Statement(address, image, e) == [address |-> address, image |-> image, epoch |-> e]

Statements ==
  {Statement(t.address, t.image, t.epoch) : t \in told}
    \cup {Statement(s.by, s.image, s.epoch) : s \in signatures}

Current == Statement(AddressOf(oracle_signer.key), host.image, epoch)

\* The statements so far: one per start, a derived address of one image, a random address
\* of one start.
Consistent ==
  /\ \A x \in Statements :
       /\ x.address \in Addresses /\ x.image \in Images /\ x.epoch \in 1..epoch
       /\ KindOf(x.address) = "derived" => x.address.address.of = x.image
  /\ \A x, y \in Statements : x.epoch = y.epoch => x = y
  /\ \A x, y \in Statements :
       KindOf(x.address) = "random" /\ x.address = y.address => x = y

\* How the running process relates to them.
Ongoing ==
  /\ pc \in {"wire", "start"} /\ oracle_signer.key.kind = "random" =>
       \A x \in Statements : x.address # AddressOf(oracle_signer.key)
  /\ pc = "serving" =>
       /\ \A x \in Statements : x.epoch = epoch => x = Current
       /\ oracle_signer.key.kind = "random" =>
            \A x \in Statements : x.address = AddressOf(oracle_signer.key) => x = Current
       /\ epoch \in Nat \ {0}

\* A signature is over its message, for its target.
Digest(target, struct) == keccak256(<<ContractDomain(target), keccak256(struct)>>)

SettlementStruct(m) ==
  [typehash |-> "Settlement", assetId |-> m.asset_id, tradeOfferId |-> m.trade_offer_id,
   decision |-> DecisionU8[m.decision], refundReason |-> RefundReasonU8[m.refund_reason]]

ItemStruct(m) ==
  [typehash |-> "ItemAttestation", assetId |-> m.asset_id, itemDetail |-> m.item_detail]

SignsSettlement(s) ==
  \E a \in Assets, offer \in Offers, o \in Outcomes :
    LET m == [asset_id |-> a, trade_offer_id |-> offer,
              decision |-> o.decision, refund_reason |-> o.refund_reason]
    IN /\ s.message = [settlement |-> m]
       /\ s.digest = Digest(s.target, SettlementStruct(m))
       /\ s.read.contract = s.target.contract

SignsItem(s) ==
  \E a \in Assets, detail \in Details :
    LET m == [asset_id |-> a, item_detail |-> detail]
    IN /\ s.message = [item |-> m]
       /\ s.digest = Digest(s.target, ItemStruct(m))

Faithful ==
  \A s \in signatures :
    /\ s.target = [chain |-> s.target.chain, contract |-> s.target.contract]
    /\ SignsSettlement(s) \/ SignsItem(s)

\* Only told addresses are trusted.
TrustedWereTold ==
  \A d \in Deployments : \A a \in registered[d] : \E t \in told : t.address = a

IInv ==
  TypeOK /\ Process /\ Consistent /\ Ongoing /\ Faithful /\ TrustedWereTold

-----------------------------------------------------------------------------
(* What changes nothing, what stops, what speaks *)

\* The parts of a statement.
LEMMA StatementParts ==
  ASSUME NEW address, NEW image, NEW e
  PROVE  /\ Statement(address, image, e).address = address
         /\ Statement(address, image, e).image = image
         /\ Statement(address, image, e).epoch = e
BY DEF Statement

\* Without a new statement the statements stay as they are.
LEMMA StatementsKept ==
  ASSUME UNCHANGED <<told, signatures>>
  PROVE  Statements' = Statements
BY DEF Statements

\* A step that leaves history and contracts alone.
LEMMA HistoryKept ==
  ASSUME IInv, UNCHANGED <<told, signatures, registered, epoch>>
  PROVE  Consistent' /\ Faithful' /\ TrustedWereTold'
<1>1. Statements' = Statements
  BY StatementsKept
<1>2. Consistent'
  BY <1>1 DEF IInv, Consistent
<1>3. Faithful'
  BY DEF IInv, Faithful, SignsSettlement, SignsItem
<1>4. TrustedWereTold'
  BY DEF IInv, TrustedWereTold
<1> QED BY <1>2, <1>3, <1>4

\* The end of the process, whatever it was doing, on the same host or on another one.
LEMMA StoppedStep ==
  ASSUME IInv, Stopped, host' \in Host, changes' \in 0..MaxChanges,
         UNCHANGED <<told, signatures, registered, epoch>>
  PROVE  IInv'
<1>1. TypeOK'
  BY DEF IInv, TypeOK, Stopped
<1>2. Process'
  BY DEF Process, Stopped
<1>3. Ongoing'
  BY DEF Ongoing, Stopped
<1> QED BY <1>1, <1>2, <1>3, HistoryKept DEF IInv

\* A statement of the running server agrees with all earlier ones.
LEMMA Spoken ==
  ASSUME IInv, pc = "serving", UNCHANGED <<host, pc, oracle_signer, epoch>>,
         Statements' = Statements \cup {Current}
  PROVE  Consistent' /\ Ongoing'
<1>1. /\ Current.address = AddressOf(oracle_signer.key)
      /\ Current.image = host.image /\ Current.epoch = epoch
  BY DEF Current, Statement
<1>2. Current' = Current
  BY DEF Current
<1>3. /\ oracle_signer.key \in Keys /\ host.image \in Images /\ epoch \in Nat \ {0}
      /\ oracle_signer.key.kind = "derived" => oracle_signer.key.of = host.image
  BY DEF IInv, TypeOK, Host, Process, Ongoing
<1>4. /\ Current.address \in Addresses
      /\ KindOf(Current.address) = oracle_signer.key.kind
      /\ Current.address.address = oracle_signer.key
  BY <1>1, <1>3 DEF Addresses, AddressOf, KindOf
<1>5. \A x \in Statements : x.epoch = epoch => x = Current
  BY DEF IInv, Ongoing
<1>6. oracle_signer.key.kind = "random" =>
        \A x \in Statements : x.address = Current.address => x = Current
  BY <1>1 DEF IInv, Ongoing
<1>7. Consistent
  BY DEF IInv
<1>8. Consistent'
  <2>1. \A x \in Statements' :
          /\ x.address \in Addresses /\ x.image \in Images /\ x.epoch \in 1..epoch'
          /\ KindOf(x.address) = "derived" => x.address.address.of = x.image
    BY <1>1, <1>3, <1>4, <1>7 DEF Consistent
  <2>2. \A x, y \in Statements' : x.epoch = y.epoch => x = y
    BY <1>1, <1>5, <1>7 DEF Consistent
  <2>3. \A x, y \in Statements' :
          KindOf(x.address) = "random" /\ x.address = y.address => x = y
    BY <1>4, <1>6, <1>7 DEF Consistent
  <2> QED BY <2>1, <2>2, <2>3 DEF Consistent
<1>9. Ongoing'
  <2>1. \A x \in Statements' : x.epoch = epoch => x = Current
    BY <1>5
  <2>2. oracle_signer.key.kind = "random" =>
          \A x \in Statements' : x.address = AddressOf(oracle_signer.key) => x = Current
    BY <1>1, <1>6
  <2> QED BY <1>2, <1>3, <2>1, <2>2 DEF Ongoing
<1> QED BY <1>8, <1>9

\* An answer of /info or /attestation.
LEMMA ToldStep ==
  ASSUME IInv, pc = "serving", UNCHANGED <<host, pc, oracle_signer, epoch, signatures, registered>>,
         told' = told \cup {[address |-> AddressOf(oracle_signer.key), image |-> host.image,
                             epoch |-> epoch]}
  PROVE  Consistent' /\ Ongoing' /\ Faithful' /\ TrustedWereTold'
<1>1. Statements' = Statements \cup {Current}
  BY DEF Statements, Current, Statement
<1>2. Faithful'
  BY DEF IInv, Faithful, SignsSettlement, SignsItem
<1>3. TrustedWereTold'
  BY DEF IInv, TrustedWereTold
<1> QED BY <1>1, <1>2, <1>3, Spoken

\* Telling keeps the type of what was told.
LEMMA ToldType ==
  ASSUME IInv, pc = "serving"
  PROVE  [address |-> AddressOf(oracle_signer.key), image |-> host.image, epoch |-> epoch]
           \in [address : Addresses, image : Images, epoch : 1..epoch]
<1>1. oracle_signer.key \in Keys /\ host.image \in Images /\ epoch \in Nat \ {0}
  BY DEF IInv, TypeOK, Host, Ongoing
<1> QED BY <1>1 DEF Addresses

-----------------------------------------------------------------------------
(* Steps *)

\* Init establishes the invariant.
LEMMA InitIInv == Init => IInv
<1> SUFFICES ASSUME Init PROVE IInv
  OBVIOUS
<1> USE HostAssumption, BoundAssumption
<1>1. TypeOK
  BY DEF Init, TypeOK
<1>2. Process
  BY DEF Init, Process
<1>3. Statements = {}
  BY DEF Init, Statements
<1>4. Consistent /\ Ongoing
  BY <1>3 DEF Init, Consistent, Ongoing
<1>5. Faithful /\ TrustedWereTold
  BY DEF Init, Faithful, TrustedWereTold
<1> QED BY <1>1, <1>2, <1>4, <1>5 DEF IInv

\* Boot preserves the invariant.
LEMMA BootStep ==
  ASSUME IInv, Boot
  PROVE  IInv'
<1>1. TypeOK'
  BY DEF Boot, IInv, TypeOK, history
<1>2. Process'
  BY DEF Boot, IInv, Process
<1>3. Ongoing'
  BY DEF Boot, Ongoing
<1>4. UNCHANGED <<told, signatures, registered, epoch>>
  BY DEF Boot, history
<1> QED BY <1>1, <1>2, <1>3, <1>4, HistoryKept DEF IInv

\* LoadConfig preserves the invariant.
LEMMA LoadConfigStep ==
  ASSUME IInv, LoadConfig
  PROVE  IInv'
<1>u. UNCHANGED <<host, changes, told, signatures, registered, epoch>>
  BY DEF LoadConfig, history
<1>h. host \in Host /\ changes \in 0..MaxChanges
  BY DEF IInv, TypeOK
<1>1. CASE Stopped
  BY <1>1, <1>u, <1>h, StoppedStep
<1>2. CASE /\ host.file # "unparsable" /\ config' = Loaded(host) /\ pc' = "check"
           /\ UNCHANGED <<oracle_signer, chain_reader, ORACLE_ADDRESS, quoting>>
  <2>0. pc = "load"
    BY DEF LoadConfig
  <2>1. TypeOK'
    BY <2>0, <1>2, <1>u DEF IInv, TypeOK, Loaded
  <2>2. Process'
    BY <2>0, <1>2, <1>u DEF IInv, TypeOK, Process
  <2>3. Ongoing'
    BY <1>2 DEF Ongoing
  <2> QED BY <2>1, <2>2, <2>3, <1>u, HistoryKept DEF IInv
<1> QED BY <1>1, <1>2 DEF LoadConfig

\* CheckAddresses preserves the invariant.
LEMMA CheckAddressesStep ==
  ASSUME IInv, CheckAddresses
  PROVE  IInv'
<1>u. UNCHANGED <<host, changes, told, signatures, registered, epoch>>
  BY DEF CheckAddresses, history
<1>h. host \in Host /\ changes \in 0..MaxChanges
  BY DEF IInv, TypeOK
<1>1. CASE Stopped
  BY <1>1, <1>u, <1>h, StoppedStep
<1>2. CASE /\ ZERO_ADDR \notin {config.contract_address, config.steam_factory_address}
           /\ pc' = "key"
           /\ UNCHANGED <<config, oracle_signer, chain_reader, ORACLE_ADDRESS, quoting>>
  <2>0. pc = "check"
    BY DEF CheckAddresses
  <2>1. TypeOK'
    BY <2>0, <1>2, <1>u DEF IInv, TypeOK, Loaded
  <2>2. Process'
    BY <2>0, <1>2, <1>u DEF IInv, TypeOK, Process
  <2>3. Ongoing'
    BY <1>2 DEF Ongoing
  <2> QED BY <2>1, <2>2, <2>3, <1>u, HistoryKept DEF IInv
<1> QED BY <1>1, <1>2 DEF CheckAddresses

\* from_config with a key that belongs to the image or to nobody who has spoken.
LEMMA SignerFromStep ==
  ASSUME IInv, NEW key \in Keys, pc = "key", SignerFrom(key),
         key.kind = "derived" => key.of = host.image,
         key.kind = "random" => \A x \in Statements : x.address # AddressOf(key)
  PROVE  IInv'
<1>u. UNCHANGED <<host, changes, told, signatures, registered, epoch>>
  BY DEF SignerFrom, history
<1>h. host \in Host /\ changes \in 0..MaxChanges
  BY DEF IInv, TypeOK
<1>1. CASE Stopped
  BY <1>1, <1>u, <1>h, StoppedStep
<1>2. CASE /\ ParseAddress[config.contract_address] # Invalid
           /\ oracle_signer' =
                [key |-> key,
                 domain_separator |->
                   compute_domain_separator(config.chain_id, ParseAddress[config.contract_address])]
           /\ pc' = "wire"
           /\ UNCHANGED <<config, chain_reader, ORACLE_ADDRESS, quoting>>
  <2>0. /\ oracle_signer'.key = key
        /\ oracle_signer'.domain_separator =
             compute_domain_separator(config.chain_id, ParseAddress[config.contract_address])
    BY <1>2
  <2>1. TypeOK'
    BY <2>0, <1>2, <1>u DEF IInv, TypeOK, Loaded
  <2>2. Process'
    BY <2>0, <1>2, <1>u DEF IInv, TypeOK, Process, compute_domain_separator, keccak256
  <2>3. Ongoing'
    BY <2>0, <1>2, <1>u, StatementsKept DEF Ongoing
  <2> QED BY <2>1, <2>2, <2>3, <1>u, HistoryKept DEF IInv
<1> QED BY <1>1, <1>2 DEF SignerFrom

\* OperatorKey preserves the invariant.
LEMMA OperatorKeyStep ==
  ASSUME IInv, OperatorKey
  PROVE  IInv'
<1> DEFINE text == IF host.env # None THEN host.env ELSE host.keyFile
<1>h. host \in Host /\ changes \in 0..MaxChanges /\ text \in KeyTexts
  BY DEF IInv, TypeOK, Host
<1>1. CASE Stopped /\ UNCHANGED <<host, epoch, changes, history, registered>>
  BY <1>1, <1>h, StoppedStep DEF history
<1>2. CASE text \notin {None, Invalid} /\ SignerFrom([kind |-> "operator", of |-> text])
  <2>1. [kind |-> "operator", of |-> text] \in Keys
    BY <1>2, <1>h DEF Keys, KeyTexts
  <2>2. pc = "key"
    BY DEF OperatorKey
  <2> HIDE DEF text
  <2> QED BY <2>1, <2>2, <1>2, SignerFromStep
<1> QED BY <1>1, <1>2 DEF OperatorKey

\* DeriveKey preserves the invariant.
LEMMA DeriveKeyStep ==
  ASSUME IInv, DeriveKey
  PROVE  IInv'
<1>1. host.image \in Images
  BY DEF IInv, TypeOK, Host
<1>2. [kind |-> "derived", of |-> host.image] \in Keys
  BY <1>1 DEF Keys
<1>3. pc = "key" /\ SignerFrom([kind |-> "derived", of |-> host.image])
  BY DEF DeriveKey
<1> QED BY <1>2, <1>3, SignerFromStep

\* RandomKey preserves the invariant.
LEMMA RandomKeyStep ==
  ASSUME IInv, RandomKey
  PROVE  IInv'
<1>1. PICK r \in RandomKeys : /\ AddressOf([kind |-> "random", of |-> r]) \notin Seen
                              /\ SignerFrom([kind |-> "random", of |-> r])
  BY DEF RandomKey
<1>2. [kind |-> "random", of |-> r] \in Keys
  BY DEF Keys
<1>3. \A x \in Statements : x.address \in Seen
  BY DEF Statements, Statement, Seen
<1>4. pc = "key"
  BY DEF RandomKey
<1> QED BY <1>1, <1>2, <1>3, <1>4, SignerFromStep

\* DeriveFails preserves the invariant.
LEMMA DeriveFailsStep ==
  ASSUME IInv, DeriveFails
  PROVE  IInv'
<1>1. host' \in Host /\ changes' \in 0..MaxChanges /\ Stopped
  BY BoundAssumption DEF DeriveFails, IInv, TypeOK
<1>2. UNCHANGED <<told, signatures, registered, epoch>>
  BY DEF DeriveFails, history
<1> QED BY <1>1, <1>2, StoppedStep

\* ListenFails preserves the invariant.
LEMMA ListenFailsStep ==
  ASSUME IInv, ListenFails
  PROVE  IInv'
<1>1. host' \in Host /\ changes' \in 0..MaxChanges /\ Stopped
  BY BoundAssumption DEF ListenFails, IInv, TypeOK
<1>2. UNCHANGED <<told, signatures, registered, epoch>>
  BY DEF ListenFails, history
<1> QED BY <1>1, <1>2, StoppedStep

\* Crash preserves the invariant.
LEMMA CrashStep ==
  ASSUME IInv, Crash
  PROVE  IInv'
<1>1. host' \in Host /\ changes' \in 0..MaxChanges /\ Stopped
  BY BoundAssumption DEF Crash, IInv, TypeOK
<1>2. UNCHANGED <<told, signatures, registered, epoch>>
  BY DEF Crash, history
<1> QED BY <1>1, <1>2, StoppedStep

\* Redeploy preserves the invariant.
LEMMA RedeployStep ==
  ASSUME IInv, Redeploy
  PROVE  IInv'
<1>1. host' \in Host /\ changes' \in 0..MaxChanges /\ Stopped
  BY BoundAssumption, HostAssumption DEF Redeploy, IInv, TypeOK
<1>2. UNCHANGED <<told, signatures, registered, epoch>>
  BY DEF Redeploy, history
<1> QED BY <1>1, <1>2, StoppedStep

\* Wire preserves the invariant.
LEMMA WireStep ==
  ASSUME IInv, Wire
  PROVE  IInv'
<1> DEFINE jjskin == ParseAddress[config.contract_address]
           factory == ParseAddress[config.steam_factory_address]
<1>u. UNCHANGED <<host, changes, told, signatures, registered, epoch>> /\ pc = "wire"
  BY DEF Wire, history
<1>h. host \in Host /\ changes \in 0..MaxChanges
  BY DEF IInv, TypeOK
<1>1. CASE Stopped
  BY <1>1, <1>u, <1>h, StoppedStep
<1>2. CASE /\ Invalid \notin {jjskin, factory}
           /\ chain_reader' = [at |-> [chain |-> config.rpc_url, contract |-> jjskin],
                               factory |-> factory]
           /\ ORACLE_ADDRESS' = IF ORACLE_ADDRESS = None THEN AddressOf(oracle_signer.key)
                                ELSE ORACLE_ADDRESS
           /\ pc' = "start"
           /\ UNCHANGED <<config, oracle_signer, quoting>>
  <2>0. /\ ORACLE_ADDRESS' = AddressOf(oracle_signer.key) /\ oracle_signer.key \in Keys
        /\ quoting = {}
    BY <1>u, <1>2 DEF IInv, TypeOK
  <2>c. /\ chain_reader'.at.chain = config.rpc_url /\ chain_reader'.at.contract = jjskin
        /\ chain_reader'.factory = factory /\ factory # Invalid
    BY <1>2
  <2>1. TypeOK'
    BY <2>0, <2>c, <1>2, <1>u DEF IInv, TypeOK, Loaded, Addresses
  <2>2. Process'
    BY <2>0, <2>c, <1>2, <1>u DEF IInv, Process, compute_domain_separator, keccak256
  <2>3. Ongoing'
    BY <1>2, <1>u, StatementsKept DEF IInv, Ongoing
  <2> QED BY <2>1, <2>2, <2>3, <1>u, HistoryKept DEF IInv
<1> QED BY <1>1, <1>2 DEF Wire, bind_oracle_address

\* Listen preserves the invariant: no statement bears the new number yet.
LEMMA ListenStep ==
  ASSUME IInv, Listen
  PROVE  IInv'
<1>u. /\ UNCHANGED <<host, changes, config, oracle_signer, chain_reader, ORACLE_ADDRESS, quoting,
                     told, signatures, registered>>
      /\ pc = "start" /\ pc' = "serving" /\ epoch' = epoch + 1 /\ epoch \in Nat
  BY DEF Listen, history, IInv, TypeOK
<1>s. Statements' = Statements
  BY <1>u, StatementsKept
<1>1. TypeOK'
  <2>1. 1..epoch \subseteq 1..epoch'
    BY <1>u
  <2>2. told' \subseteq [address : Addresses, image : Images, epoch : 1..epoch']
    BY <2>1, <1>u DEF IInv, TypeOK
  <2> QED BY <2>2, <1>u DEF IInv, TypeOK, Loaded
<1>2. Process'
  BY <1>u DEF IInv, Process, compute_domain_separator, keccak256
<1>3. \A x \in Statements : x.epoch \in 1..epoch
  BY DEF IInv, Consistent
<1>4. Consistent'
  BY <1>s, <1>u, <1>3 DEF IInv, Consistent
<1>5. Ongoing'
  <2>1. \A x \in Statements' : x.epoch # epoch'
    BY <1>3, <1>s, <1>u
  <2>2. oracle_signer.key.kind = "random" =>
          \A x \in Statements : x.address # AddressOf(oracle_signer.key)
    BY <1>u DEF IInv, Ongoing
  <2> QED BY <2>1, <2>2, <1>s, <1>u DEF Ongoing
<1>6. Faithful'
  BY <1>u DEF IInv, Faithful, SignsSettlement, SignsItem
<1>7. TrustedWereTold'
  BY <1>u DEF IInv, TrustedWereTold
<1> QED BY <1>1, <1>2, <1>4, <1>5, <1>6, <1>7 DEF IInv

\* info_handler preserves the invariant.
LEMMA InfoStep ==
  ASSUME IInv, info_handler
  PROVE  IInv'
<1>u. /\ UNCHANGED <<host, pc, config, oracle_signer, chain_reader, ORACLE_ADDRESS, quoting,
                     epoch, changes, signatures, registered>>
      /\ pc = "serving"
      /\ told' = told \cup {[address |-> AddressOf(oracle_signer.key), image |-> host.image,
                             epoch |-> epoch]}
  BY DEF info_handler, process
<1>1. TypeOK'
  BY <1>u, ToldType DEF IInv, TypeOK, Loaded
<1>2. Process'
  BY <1>u DEF IInv, Process, compute_domain_separator, keccak256
<1> QED BY <1>u, <1>1, <1>2, ToldStep DEF IInv

\* attestation_handler preserves the invariant.
LEMMA AttestationStep ==
  ASSUME IInv, attestation_handler
  PROVE  IInv'
<1>u. /\ UNCHANGED <<host, pc, config, oracle_signer, chain_reader, ORACLE_ADDRESS, epoch, changes,
                     told, signatures, registered>>
      /\ pc = "serving" /\ quoting' = quoting \cup {ORACLE_ADDRESS}
  BY DEF attestation_handler, history
<1>1. TypeOK'
  BY <1>u DEF IInv, TypeOK, Loaded
<1>2. Process'
  BY <1>u DEF IInv, Process, compute_domain_separator, keccak256
<1>3. Ongoing'
  BY <1>u, StatementsKept DEF IInv, Ongoing, Current, Statement
<1> QED BY <1>1, <1>2, <1>3, <1>u, HistoryKept DEF IInv

\* QuoteReturns preserves the invariant: the address waited for is the signer's.
LEMMA QuoteReturnsStep ==
  ASSUME IInv, QuoteReturns
  PROVE  IInv'
<1>1. PICK a \in quoting :
        /\ quoting' = quoting \ {a}
        /\ told' = told \cup {[address |-> a, image |-> host.image, epoch |-> epoch]}
        /\ UNCHANGED <<host, pc, config, oracle_signer, chain_reader, ORACLE_ADDRESS,
                       epoch, changes, signatures, registered>>
  BY DEF QuoteReturns
<1>2. pc = "serving"
  BY DEF IInv, TypeOK
<1>3. a = AddressOf(oracle_signer.key)
  BY <1>2 DEF IInv, Process
<1>4. TypeOK'
  BY <1>1, <1>2, <1>3, ToldType DEF IInv, TypeOK, Loaded
<1>5. Process'
  BY <1>1, <1>2 DEF IInv, Process, compute_domain_separator, keccak256
<1> QED BY <1>1, <1>2, <1>3, <1>4, <1>5, ToldStep DEF IInv

\* QuoteFails preserves the invariant.
LEMMA QuoteFailsStep ==
  ASSUME IInv, QuoteFails
  PROVE  IInv'
<1>u. /\ UNCHANGED <<host, pc, config, oracle_signer, chain_reader, ORACLE_ADDRESS, epoch, changes,
                     told, signatures, registered>>
      /\ quoting' \subseteq quoting
  BY DEF QuoteFails, history
<1>1. TypeOK'
  BY <1>u DEF IInv, TypeOK, Loaded
<1>2. Process'
  BY <1>u DEF IInv, Process, compute_domain_separator, keccak256
<1>3. Ongoing'
  BY <1>u, StatementsKept DEF IInv, Ongoing, Current, Statement
<1> QED BY <1>1, <1>2, <1>3, <1>u, HistoryKept DEF IInv

\* The domain the server signs for is that of its target.
LEMMA DomainOfTarget ==
  ASSUME IInv, pc = "serving"
  PROVE  /\ oracle_signer.domain_separator = ContractDomain(Target)
         /\ Target = [chain |-> Target.chain, contract |-> Target.contract]
         /\ chain_reader.at.contract = Target.contract
<1>1. Target.chain = config.chain_id /\ Target.contract = ParseAddress[config.contract_address]
  BY DEF Target
<1>2. oracle_signer.domain_separator = ContractDomain(Target)
  BY <1>1 DEF IInv, Process, compute_domain_separator, ContractDomain
<1>3. chain_reader.at.contract = Target.contract
  BY <1>1 DEF IInv, Process
<1> QED BY <1>2, <1>3 DEF Target

\* A signature of the running server that is over its message preserves the invariant.
LEMMA SignedStep ==
  ASSUME IInv, pc = "serving",
         UNCHANGED <<host, pc, config, oracle_signer, chain_reader, ORACLE_ADDRESS, quoting,
                     epoch, changes, told, registered>>,
         NEW s, signatures' = signatures \cup {s},
         s.by = AddressOf(oracle_signer.key), s.image = host.image, s.epoch = epoch,
         s.target = Target, SignsSettlement(s) \/ SignsItem(s)
  PROVE  IInv'
<1>1. TypeOK'
  BY DEF IInv, TypeOK, Loaded
<1>2. Process'
  BY DEF IInv, Process, compute_domain_separator, keccak256
<1>3. Statements' = Statements \cup {Current}
  BY DEF Statements, Current, Statement
<1>4. Faithful'
  <2>1. \A x \in signatures \cup {s} :
          /\ x.target = [chain |-> x.target.chain, contract |-> x.target.contract]
          /\ SignsSettlement(x) \/ SignsItem(x)
    BY DomainOfTarget DEF IInv, Faithful
  <2> QED BY <2>1 DEF Faithful, SignsSettlement, SignsItem
<1>5. TrustedWereTold'
  BY DEF IInv, TrustedWereTold
<1> QED BY <1>1, <1>2, <1>3, <1>4, <1>5, Spoken DEF IInv

\* sign_settlement preserves the invariant.
LEMMA SettlementStep ==
  ASSUME IInv, sign_settlement
  PROVE  IInv'
<1>1. PICK a \in Assets, offer \in Offers, o \in Outcomes :
        signatures' = signatures \cup
          {Signature(compute_struct_hash([asset_id |-> a, trade_offer_id |-> offer,
                                          decision |-> o.decision,
                                          refund_reason |-> o.refund_reason]),
                     [settlement |-> [asset_id |-> a, trade_offer_id |-> offer,
                                      decision |-> o.decision,
                                      refund_reason |-> o.refund_reason]],
                     chain_reader.at)}
  BY DEF sign_settlement
<1>2. /\ pc = "serving"
      /\ UNCHANGED <<host, pc, config, oracle_signer, chain_reader, ORACLE_ADDRESS, quoting,
                     epoch, changes, told, registered>>
  BY DEF sign_settlement, process
<1> DEFINE m == [asset_id |-> a, trade_offer_id |-> offer,
                 decision |-> o.decision, refund_reason |-> o.refund_reason]
           s == Signature(compute_struct_hash(m), [settlement |-> m], chain_reader.at)
<1>3. /\ s.by = AddressOf(oracle_signer.key) /\ s.image = host.image /\ s.epoch = epoch
      /\ s.target = Target /\ s.message = [settlement |-> m] /\ s.read = chain_reader.at
      /\ s.digest = compute_eip712_digest(oracle_signer.domain_separator, compute_struct_hash(m))
  BY DEF Signature
<1>4. compute_struct_hash(m) = keccak256(SettlementStruct(m))
  BY DEF compute_struct_hash, SettlementStruct, SETTLEMENT_TYPEHASH
<1>5. s.digest = Digest(s.target, SettlementStruct(m))
  BY <1>2, <1>3, <1>4, DomainOfTarget DEF compute_eip712_digest, Digest
<1>6. s.read.contract = s.target.contract
  BY <1>2, <1>3, DomainOfTarget
<1>7. SignsSettlement(s)
  <2> HIDE DEF s
  <2> QED BY <1>3, <1>5, <1>6 DEF SignsSettlement
<1>8. signatures' = signatures \cup {s}
  BY <1>1
<1> HIDE DEF s, m
<1> QED BY <1>2, <1>3, <1>7, <1>8, SignedStep

\* sign_item_attestation preserves the invariant.
LEMMA ItemStep ==
  ASSUME IInv, sign_item_attestation
  PROVE  IInv'
<1>1. PICK a \in Assets, detail \in Details :
        signatures' = signatures \cup
          {Signature(compute_item_attestation_struct_hash(a, detail),
                     [item |-> [asset_id |-> a, item_detail |-> detail]], Target)}
  BY DEF sign_item_attestation
<1>2. /\ pc = "serving"
      /\ UNCHANGED <<host, pc, config, oracle_signer, chain_reader, ORACLE_ADDRESS, quoting,
                     epoch, changes, told, registered>>
  BY DEF sign_item_attestation, process
<1> DEFINE m == [asset_id |-> a, item_detail |-> detail]
           s == Signature(compute_item_attestation_struct_hash(a, detail), [item |-> m], Target)
<1>3. /\ s.by = AddressOf(oracle_signer.key) /\ s.image = host.image /\ s.epoch = epoch
      /\ s.target = Target /\ s.message = [item |-> m]
      /\ s.digest = compute_eip712_digest(oracle_signer.domain_separator,
                                          compute_item_attestation_struct_hash(a, detail))
  BY DEF Signature
<1>4. compute_item_attestation_struct_hash(a, detail) = keccak256(ItemStruct(m))
  BY DEF compute_item_attestation_struct_hash, ItemStruct, ITEM_ATTESTATION_TYPEHASH
<1>5. s.digest = Digest(s.target, ItemStruct(m))
  BY <1>2, <1>3, <1>4, DomainOfTarget DEF compute_eip712_digest, Digest
<1>7. SignsItem(s)
  <2> HIDE DEF s
  <2> QED BY <1>3, <1>5 DEF SignsItem
<1>8. signatures' = signatures \cup {s}
  BY <1>1
<1> HIDE DEF s, m
<1> QED BY <1>2, <1>3, <1>7, <1>8, SignedStep

\* AgentChanges preserves the invariant: the process does not look again.
LEMMA AgentChangesStep ==
  ASSUME IInv, AgentChanges
  PROVE  IInv'
<1>u. /\ UNCHANGED <<pc, config, oracle_signer, chain_reader, ORACLE_ADDRESS, quoting, epoch,
                     told, signatures, registered>>
      /\ host' = [host EXCEPT !.tdx = ~host.tdx]
      /\ changes' \in 0..MaxChanges
  BY BoundAssumption DEF AgentChanges, process, history, IInv, TypeOK
<1>1. /\ host' \in Host /\ host'.image = host.image /\ host'.file = host.file
      /\ host'.yaml = host.yaml
  BY <1>u DEF IInv, TypeOK, Host
<1>2. Loaded(host)' = Loaded(host)
  BY <1>1 DEF Loaded
<1>3. TypeOK'
  BY <1>u, <1>1, <1>2 DEF IInv, TypeOK
<1>4. Process'
  BY <1>u, <1>1 DEF IInv, Process, compute_domain_separator, keccak256
<1>5. Ongoing'
  BY <1>u, <1>1, StatementsKept DEF IInv, Ongoing, Current, Statement
<1> QED BY <1>3, <1>4, <1>5, <1>u, HistoryKept DEF IInv

\* RegisterOracle preserves the invariant.
LEMMA RegisterStep ==
  ASSUME IInv, RegisterOracle
  PROVE  IInv'
<1>1. PICK t \in told, d \in Deployments :
        registered' = [registered EXCEPT ![d] = registered[d] \cup {t.address}]
  BY DEF RegisterOracle
<1>u. UNCHANGED <<host, pc, config, oracle_signer, chain_reader, ORACLE_ADDRESS, quoting,
                  epoch, changes, told, signatures>>
  BY DEF RegisterOracle, process, history
<1>2. t.address \in Addresses /\ registered \in [Deployments -> SUBSET Addresses]
  BY DEF IInv, TypeOK
<1>3. registered' \in [Deployments -> SUBSET Addresses]
  BY <1>1, <1>2
<1>4. TypeOK'
  BY <1>u, <1>3 DEF IInv, TypeOK, Loaded
<1>5. Process'
  BY <1>u DEF IInv, Process, compute_domain_separator, keccak256
<1>6. Consistent' /\ Ongoing'
  BY <1>u, StatementsKept DEF IInv, Consistent, Ongoing, Current, Statement
<1>7. Faithful'
  BY <1>u DEF IInv, Faithful, SignsSettlement, SignsItem
<1>8. TrustedWereTold'
  BY <1>u, <1>1, <1>2 DEF IInv, TrustedWereTold
<1> QED BY <1>4, <1>5, <1>6, <1>7, <1>8 DEF IInv

\* Every step preserves the invariant.
LEMMA NextIInv == IInv /\ [Next]_vars => IInv'
<1> SUFFICES ASSUME IInv, [Next]_vars PROVE IInv'
  OBVIOUS
<1>1. CASE Boot \/ Advance
  BY <1>1, BootStep, LoadConfigStep, CheckAddressesStep, OperatorKeyStep, DeriveKeyStep,
     RandomKeyStep, WireStep, ListenStep DEF Advance
<1>2. CASE DeriveFails \/ ListenFails \/ Crash \/ Redeploy \/ AgentChanges \/ RegisterOracle
  BY <1>2, DeriveFailsStep, ListenFailsStep, CrashStep, RedeployStep, AgentChangesStep, RegisterStep
<1>3. CASE \/ info_handler \/ attestation_handler \/ QuoteReturns \/ QuoteFails
           \/ sign_settlement \/ sign_item_attestation
  BY <1>3, InfoStep, AttestationStep, QuoteReturnsStep, QuoteFailsStep, SettlementStep, ItemStep
<1>4. CASE UNCHANGED vars
  <2>u. UNCHANGED <<host, pc, config, oracle_signer, chain_reader, ORACLE_ADDRESS, quoting,
                    epoch, changes, told, signatures, registered>>
    BY <1>4 DEF vars, process, history
  <2>1. TypeOK'
    BY <2>u DEF IInv, TypeOK, Loaded
  <2>2. Process'
    BY <2>u DEF IInv, Process, compute_domain_separator, keccak256
  <2>3. Ongoing'
    BY <2>u, StatementsKept DEF IInv, Ongoing, Current, Statement
  <2> QED BY <2>1, <2>2, <2>3, <2>u, HistoryKept DEF IInv
<1> QED BY <1>1, <1>2, <1>3, <1>4 DEF Next

\* The invariant holds throughout.
LEMMA Invariance == Spec => []IInv
BY InitIInv, NextIInv, PTL DEF Spec

-----------------------------------------------------------------------------
(* Theorems *)

\* What exists of the process at each point of run_serve, and what is ever told or trusted.
THEOREM IdentityTypes == Spec => []TypeOK
<1>1. IInv => TypeOK
  BY DEF IInv
<1> QED BY <1>1, Invariance, PTL

\* Quotes, /info and signatures of one start of the server name one address.
THEOREM OneAddressPerStart == Spec => []QuoteNamesSigner
<1>1. ASSUME IInv PROVE QuoteNamesSigner
  <2>1. ASSUME NEW t \in told, NEW s \in signatures, t.epoch = s.epoch
        PROVE  t.address = s.by
    <3>1. /\ Statement(t.address, t.image, t.epoch) \in Statements
          /\ Statement(s.by, s.image, s.epoch) \in Statements
      BY DEF Statements
    <3>2. Statement(t.address, t.image, t.epoch) = Statement(s.by, s.image, s.epoch)
      BY <1>1, <3>1, <2>1, StatementParts DEF IInv, Consistent
    <3> QED BY <3>2, StatementParts
  <2>2. ASSUME NEW t \in told, NEW u \in told, t.epoch = u.epoch
        PROVE  t.address = u.address
    <3>1. /\ Statement(t.address, t.image, t.epoch) \in Statements
          /\ Statement(u.address, u.image, u.epoch) \in Statements
      BY DEF Statements
    <3>2. Statement(t.address, t.image, t.epoch) = Statement(u.address, u.image, u.epoch)
      BY <1>1, <3>1, <2>2, StatementParts DEF IInv, Consistent
    <3> QED BY <3>2, StatementParts
  <2> QED BY <2>1, <2>2 DEF QuoteNamesSigner
<1> QED BY <1>1, Invariance, PTL

\* Equal digests are over equal structs, for one contract.
LEMMA DigestInjective ==
  ASSUME NEW d, NEW e, NEW x, NEW y, Digest(d, x) = Digest(e, y)
  PROVE  x = y /\ d.chain = e.chain /\ d.contract = e.contract
<1> DEFINE p == <<ContractDomain(d), keccak256(x)>>
           q == <<ContractDomain(e), keccak256(y)>>
<1>0. ASSUME NEW u, NEW v, keccak256(u) = keccak256(v)
      PROVE  u = v
  <2>1. keccak256(u).keccak = u /\ keccak256(v).keccak = v
    BY DEF keccak256
  <2> QED BY <1>0, <2>1
<1>1. p = q
  <2>1. keccak256(p) = keccak256(q)
    BY DEF Digest
  <2> HIDE DEF p, q
  <2> QED BY <1>0, <2>1
<1>2. ContractDomain(d) = ContractDomain(e) /\ keccak256(x) = keccak256(y)
  <2>1. p[1] = ContractDomain(d) /\ q[1] = ContractDomain(e)
    OBVIOUS
  <2>2. p[2] = keccak256(x) /\ q[2] = keccak256(y)
    OBVIOUS
  <2> HIDE DEF p, q
  <2> QED BY <1>1, <2>1, <2>2
<1>3. x = y
  BY <1>0, <1>2
<1>4. d.chain = e.chain /\ d.contract = e.contract
  <2> DEFINE f == [name |-> "JJSKIN", version |-> "1", chainId |-> d.chain,
                   verifyingContract |-> d.contract]
             g == [name |-> "JJSKIN", version |-> "1", chainId |-> e.chain,
                   verifyingContract |-> e.contract]
  <2>1. keccak256(f) = keccak256(g)
    BY <1>2 DEF ContractDomain
  <2>2. /\ f.chainId = d.chain /\ f.verifyingContract = d.contract
        /\ g.chainId = e.chain /\ g.verifyingContract = e.contract
    OBVIOUS
  <2> HIDE DEF f, g
  <2>3. f = g
    BY <1>0, <2>1
  <2> QED BY <2>2, <2>3
<1> QED BY <1>3, <1>4

\* A settlement and an item attestation never have the same struct.
LEMMA StructsDiffer ==
  ASSUME NEW m, NEW n
  PROVE  SettlementStruct(m) # ItemStruct(n)
<1>1. SettlementStruct(m).typehash = "Settlement" /\ ItemStruct(n).typehash = "ItemAttestation"
  BY DEF SettlementStruct, ItemStruct
<1>2. "Settlement" # "ItemAttestation"
  OBVIOUS
<1> QED BY <1>1, <1>2

\* No two decisions and no two reasons have the same number.
LEMMA CodesDiffer ==
  /\ \A x, y \in DOMAIN DecisionU8 : DecisionU8[x] = DecisionU8[y] => x = y
  /\ \A x, y \in DOMAIN RefundReasonU8 : RefundReasonU8[x] = RefundReasonU8[y] => x = y
<1>1. \A x, y \in DOMAIN DecisionU8 : DecisionU8[x] = DecisionU8[y] => x = y
  BY DEF DecisionU8
<1>2. \A x, y \in DOMAIN RefundReasonU8 : RefundReasonU8[x] = RefundReasonU8[y] => x = y
  BY DEF RefundReasonU8
<1> QED BY <1>1, <1>2

\* A trusted derived address keeps its trust across restarts: what its image signs later
\* is accepted, by the contract it was signed for and for the message that was signed.
THEOREM TrustSurvivesRestarts == Spec => []RestartKeepsRegistration
<1>1. ASSUME IInv PROVE RestartKeepsRegistration
  <2> SUFFICES ASSUME NEW t \in told, NEW s \in signatures,
                      t.image = s.image, KindOf(t.address) = "derived", KindOf(s.by) = "derived",
                      s.target \in Deployments, t.address \in registered[s.target]
               PROVE  IF "item" \in DOMAIN s.message
                      THEN AcceptsItem(s.target, s.message.item.asset_id,
                                       s.message.item.item_detail, s)
                      ELSE AcceptsSettlement(s.target, s.message.settlement.asset_id,
                                             s.message.settlement.trade_offer_id,
                                             DecisionU8[s.message.settlement.decision],
                                             RefundReasonU8[s.message.settlement.refund_reason], s)
    BY DEF RestartKeepsRegistration
  <2>1. s.by = t.address
    <3>1. /\ Statement(t.address, t.image, t.epoch) \in Statements
          /\ Statement(s.by, s.image, s.epoch) \in Statements
      BY DEF Statements
    <3>2. /\ t.address \in Addresses /\ t.address.address.of = t.image
          /\ s.by \in Addresses /\ s.by.address.of = s.image
      BY <1>1, <3>1, StatementParts DEF IInv, Consistent
    <3>3. t.address = [address |-> [kind |-> "derived", of |-> t.image]]
      BY <3>2 DEF Addresses, AddressOf, Keys, KindOf
    <3>4. s.by = [address |-> [kind |-> "derived", of |-> s.image]]
      BY <3>2 DEF Addresses, AddressOf, Keys, KindOf
    <3> QED BY <3>3, <3>4
  <2>2. CASE SignsItem(s)
    <3>1. PICK a \in Assets, detail \in Details :
            /\ s.message = [item |-> [asset_id |-> a, item_detail |-> detail]]
            /\ s.digest = Digest(s.target, ItemStruct([asset_id |-> a, item_detail |-> detail]))
      BY <2>2 DEF SignsItem
    <3>2. AcceptsItem(s.target, a, detail, s)
      BY <3>1, <2>1 DEF AcceptsItem, Recovers, Digest, ItemStruct
    <3>3. /\ "item" \in DOMAIN s.message /\ s.message.item.asset_id = a
          /\ s.message.item.item_detail = detail
      BY <3>1
    <3> QED BY <3>2, <3>3
  <2>3. CASE SignsSettlement(s)
    <3>1. PICK a \in Assets, offer \in Offers, o \in Outcomes :
            /\ s.message = [settlement |-> [asset_id |-> a, trade_offer_id |-> offer,
                                            decision |-> o.decision,
                                            refund_reason |-> o.refund_reason]]
            /\ s.digest = Digest(s.target,
                                 SettlementStruct([asset_id |-> a, trade_offer_id |-> offer,
                                                   decision |-> o.decision,
                                                   refund_reason |-> o.refund_reason]))
      BY <2>3 DEF SignsSettlement
    <3>2. AcceptsSettlement(s.target, a, offer, DecisionU8[o.decision],
                            RefundReasonU8[o.refund_reason], s)
      BY <3>1, <2>1 DEF AcceptsSettlement, Recovers, Digest, SettlementStruct
    <3>3. /\ "item" \notin DOMAIN s.message /\ s.message.settlement.asset_id = a
          /\ s.message.settlement.trade_offer_id = offer
          /\ s.message.settlement.decision = o.decision
          /\ s.message.settlement.refund_reason = o.refund_reason
      BY <3>1
    <3> QED BY <3>2, <3>3
  <2> QED BY <1>1, <2>2, <2>3 DEF IInv, Faithful
<1> QED BY <1>1, Invariance, PTL

\* A trusted signature of a generated key comes from the image whose address was told, and
\* with a random key from the same start.
THEOREM TrustIsOfOneIdentity == Spec => []RegistrationCoversIdentity
<1>1. ASSUME IInv PROVE RegistrationCoversIdentity
  <2> SUFFICES ASSUME NEW s \in signatures, NEW d \in Deployments, s.by \in registered[d],
                      KindOf(s.by) # "operator"
               PROVE  \E t \in told : /\ t.address = s.by /\ t.image = s.image
                                      /\ KindOf(s.by) = "random" => t.epoch = s.epoch
    BY DEF RegistrationCoversIdentity
  <2>1. PICK t \in told : t.address = s.by
    BY <1>1 DEF IInv, TrustedWereTold
  <2>2. /\ Statement(t.address, t.image, t.epoch) \in Statements
        /\ Statement(s.by, s.image, s.epoch) \in Statements
    BY DEF Statements
  <2>3. s.by \in Addresses
    BY <1>1, <2>2, StatementParts DEF IInv, Consistent
  <2>4. KindOf(s.by) \in {"derived", "random"}
    BY <2>3 DEF Addresses, AddressOf, Keys, KindOf
  <2>5. CASE KindOf(s.by) = "derived"
    <3>1. s.by.address.of = s.image /\ t.address.address.of = t.image
      BY <1>1, <2>1, <2>2, <2>5, StatementParts DEF IInv, Consistent
    <3> QED BY <2>1, <2>5, <3>1
  <2>6. CASE KindOf(s.by) = "random"
    <3>1. Statement(t.address, t.image, t.epoch) = Statement(s.by, s.image, s.epoch)
      BY <1>1, <2>1, <2>2, <2>6, StatementParts DEF IInv, Consistent
    <3>2. t.image = s.image /\ t.epoch = s.epoch
      BY <3>1, StatementParts
    <3> QED BY <2>1, <3>2
  <2> QED BY <2>4, <2>5, <2>6
<1> QED BY <1>1, Invariance, PTL

\* A contract accepts a signature only for the message that was signed, by an oracle that
\* was configured for this contract and read its escrow there.
THEOREM AcceptanceMeansDecision == Spec => []AcceptedMeansDecided
<1>1. ASSUME IInv PROVE AcceptedMeansDecided
  <2>0. ASSUME NEW s \in signatures, NEW d \in Deployments,
               d.chain = s.target.chain, d.contract = s.target.contract
        PROVE  s.target = d
    BY <1>1, <2>0, DeploymentAssumption DEF IInv, Faithful
  <2>1. ASSUME NEW s \in signatures, NEW d \in Deployments, NEW a \in Assets,
               NEW offer \in Offers, NEW o \in Outcomes,
               AcceptsSettlement(d, a, offer, DecisionU8[o.decision],
                                 RefundReasonU8[o.refund_reason], s)
        PROVE  /\ s.target = d /\ s.read.contract = d.contract
               /\ s.message = [settlement |-> [asset_id |-> a, trade_offer_id |-> offer,
                                               decision |-> o.decision,
                                               refund_reason |-> o.refund_reason]]
    <3> DEFINE n == [asset_id |-> a, trade_offer_id |-> offer,
                     decision |-> o.decision, refund_reason |-> o.refund_reason]
    <3>0. /\ n.asset_id = a /\ n.trade_offer_id = offer
          /\ n.decision = o.decision /\ n.refund_reason = o.refund_reason
      OBVIOUS
    <3>1. s.digest = Digest(d, SettlementStruct(n))
      BY <2>1 DEF AcceptsSettlement, Recovers, Digest, SettlementStruct
    <3>2. ~SignsItem(s)
      <4> SUFFICES ASSUME SignsItem(s) PROVE FALSE
        OBVIOUS
      <4>1. PICK m : s.digest = Digest(s.target, ItemStruct(m))
        BY DEF SignsItem
      <4> HIDE DEF n
      <4>2. Digest(d, SettlementStruct(n)) = Digest(s.target, ItemStruct(m))
        BY <3>1, <4>1
      <4>3. SettlementStruct(n) = ItemStruct(m)
        BY <4>2, DigestInjective
      <4> QED BY <4>3, StructsDiffer
    <3>3. SignsSettlement(s)
      BY <1>1, <3>2 DEF IInv, Faithful
    <3>4. PICK b \in Assets, offer2 \in Offers, o2 \in Outcomes :
            /\ s.message = [settlement |-> [asset_id |-> b, trade_offer_id |-> offer2,
                                            decision |-> o2.decision,
                                            refund_reason |-> o2.refund_reason]]
            /\ s.digest = Digest(s.target,
                                 SettlementStruct([asset_id |-> b, trade_offer_id |-> offer2,
                                                   decision |-> o2.decision,
                                                   refund_reason |-> o2.refund_reason]))
            /\ s.read.contract = s.target.contract
      BY <3>3 DEF SignsSettlement
    <3> DEFINE m == [asset_id |-> b, trade_offer_id |-> offer2,
                     decision |-> o2.decision, refund_reason |-> o2.refund_reason]
    <3>5. /\ SettlementStruct(n) = SettlementStruct(m)
          /\ d.chain = s.target.chain /\ d.contract = s.target.contract
      <4>1. Digest(d, SettlementStruct(n)) = Digest(s.target, SettlementStruct(m))
        BY <3>1, <3>4
      <4> HIDE DEF n, m
      <4> QED BY <4>1, DigestInjective
    <3>6. /\ SettlementStruct(n).assetId = a /\ SettlementStruct(m).assetId = b
          /\ SettlementStruct(n).tradeOfferId = offer /\ SettlementStruct(m).tradeOfferId = offer2
          /\ SettlementStruct(n).decision = DecisionU8[o.decision]
          /\ SettlementStruct(m).decision = DecisionU8[o2.decision]
          /\ SettlementStruct(n).refundReason = RefundReasonU8[o.refund_reason]
          /\ SettlementStruct(m).refundReason = RefundReasonU8[o2.refund_reason]
      BY DEF SettlementStruct
    <3>7. /\ a = b /\ offer = offer2 /\ DecisionU8[o.decision] = DecisionU8[o2.decision]
          /\ RefundReasonU8[o.refund_reason] = RefundReasonU8[o2.refund_reason]
      <4> HIDE DEF n, m
      <4> QED BY <3>5, <3>6
    <3>8. /\ o.decision \in DOMAIN DecisionU8 /\ o2.decision \in DOMAIN DecisionU8
          /\ o.refund_reason \in DOMAIN RefundReasonU8 /\ o2.refund_reason \in DOMAIN RefundReasonU8
      BY OutcomeAssumption
    <3>9. o.decision = o2.decision /\ o.refund_reason = o2.refund_reason
      BY <3>7, <3>8, CodesDiffer
    <3> QED BY <2>0, <3>4, <3>5, <3>7, <3>9
  <2>2. ASSUME NEW s \in signatures, NEW d \in Deployments, NEW a \in Assets,
               NEW detail \in Details, AcceptsItem(d, a, detail, s)
        PROVE  s.target = d /\ s.message = [item |-> [asset_id |-> a, item_detail |-> detail]]
    <3> DEFINE n == [asset_id |-> a, item_detail |-> detail]
    <3>1. s.digest = Digest(d, ItemStruct(n))
      BY <2>2 DEF AcceptsItem, Recovers, Digest, ItemStruct
    <3>2. ~SignsSettlement(s)
      <4> SUFFICES ASSUME SignsSettlement(s) PROVE FALSE
        OBVIOUS
      <4>1. PICK m : s.digest = Digest(s.target, SettlementStruct(m))
        BY DEF SignsSettlement
      <4> HIDE DEF n
      <4>2. Digest(s.target, SettlementStruct(m)) = Digest(d, ItemStruct(n))
        BY <3>1, <4>1
      <4>3. SettlementStruct(m) = ItemStruct(n)
        BY <4>2, DigestInjective
      <4> QED BY <4>3, StructsDiffer
    <3>3. SignsItem(s)
      BY <1>1, <3>2 DEF IInv, Faithful
    <3>4. PICK b \in Assets, detail2 \in Details :
            /\ s.message = [item |-> [asset_id |-> b, item_detail |-> detail2]]
            /\ s.digest = Digest(s.target, ItemStruct([asset_id |-> b, item_detail |-> detail2]))
      BY <3>3 DEF SignsItem
    <3> DEFINE m == [asset_id |-> b, item_detail |-> detail2]
    <3>5. /\ ItemStruct(n) = ItemStruct(m)
          /\ d.chain = s.target.chain /\ d.contract = s.target.contract
      <4>1. Digest(d, ItemStruct(n)) = Digest(s.target, ItemStruct(m))
        BY <3>1, <3>4
      <4> HIDE DEF n, m
      <4> QED BY <4>1, DigestInjective
    <3>6. /\ ItemStruct(n).assetId = a /\ ItemStruct(m).assetId = b
          /\ ItemStruct(n).itemDetail = detail /\ ItemStruct(m).itemDetail = detail2
      BY DEF ItemStruct
    <3>7. a = b /\ detail = detail2
      <4> HIDE DEF n, m
      <4> QED BY <3>5, <3>6
    <3> QED BY <2>0, <3>4, <3>5, <3>7
  <2> QED BY <2>1, <2>2 DEF AcceptedMeansDecided
<1> QED BY <1>1, Invariance, PTL

\* A server that serves has its two addresses from its file.
THEOREM ConfiguredOrStopped == Spec => []ServesOnlyConfigured
<1>1. ASSUME IInv PROVE ServesOnlyConfigured
  <2> SUFFICES ASSUME pc = "serving" PROVE ServesOnlyConfigured
    BY DEF ServesOnlyConfigured
  <2>1. /\ config = Loaded(host) /\ host \in Host
        /\ host.file \in {"missing", "yaml"}
        /\ config.contract_address # ZERO_ADDR /\ config.steam_factory_address # ZERO_ADDR
        /\ chain_reader.at.contract = ParseAddress[config.contract_address]
        /\ chain_reader.factory = ParseAddress[config.steam_factory_address]
        /\ Invalid \notin {chain_reader.at.contract, chain_reader.factory}
    BY <1>1 DEF IInv, TypeOK, Process, Host
  <2>2. host.file = "yaml"
    <3>1. Defaults.contract_address = ZERO_ADDR
      BY DEF Defaults
    <3> QED BY <3>1, <2>1 DEF Loaded
  <2>3. /\ {"contract_address", "steam_factory_address"} \subseteq DOMAIN Defaults
        /\ Defaults["contract_address"] = ZERO_ADDR
        /\ Defaults["steam_factory_address"] = ZERO_ADDR
    BY DEF Defaults
  <2>4. \A k \in DOMAIN Defaults :
          config[k] = IF k \in DOMAIN host.yaml THEN host.yaml[k] ELSE Defaults[k]
    BY <2>1, <2>2 DEF Loaded
  <2>5. /\ {"contract_address", "steam_factory_address"} \subseteq DOMAIN host.yaml
        /\ config.contract_address = host.yaml.contract_address
        /\ config.steam_factory_address = host.yaml.steam_factory_address
    BY <2>1, <2>3, <2>4
  <2> QED BY <2>1, <2>2, <2>5 DEF ServesOnlyConfigured
<1> QED BY <1>1, Invariance, PTL
=============================================================================
