-------------------------- MODULE ChainReaderProofs -------------------------
(***************************************************************************)
(* Proofs about ChainReader, for any timeout, delay, wallets, windows and  *)
(* number of transactions.  CInv is about the calls: where each can be in  *)
(* its retry loop and by when it must have ended.  FInv is about what the  *)
(* calls returned.                                                         *)
(***************************************************************************)
EXTENDS ReaderRefinement, FiniteSetTheorems, TLAPS

CallState == {"unsent", "sent", "sleeping", "ok", "failed"}
Step == {"idle", "batch1", "batch2", "returned", "dropped"}

\* Types, and what the step says about the calls of the other batch.
Shape ==
  /\ now \in Nat /\ since \in Nat /\ next_rpc_id \in Nat
  /\ step \in Step
  /\ state \in [Call -> CallState]
  /\ attempt \in [Call -> {0, 1, 2}]
  /\ until \in [Call -> Nat]
  /\ step = "idle" => now = 0
  /\ step = "batch1" => since = 0
  /\ step = "idle" => \A c \in Batch1 : state[c] = "unsent" /\ attempt[c] = 0
  /\ step \in {"idle", "batch1"} => \A c \in Batch2 : state[c] = "unsent" /\ attempt[c] = 0
  /\ step = "batch2" => \A c \in Batch1 : state[c] = "ok"
  /\ step = "batch1" => \A c \in Batch1 : state[c] # "unsent"
  /\ step = "batch2" => \A c \in Batch2 : state[c] # "unsent"
  /\ step \in {"returned", "dropped"} => \A c \in Call : state[c] \notin {"sent", "sleeping"}

\* The time from the start of the batch to the end of attempt a.
Budget(a) == IF a = 0 THEN RpcTimeout
             ELSE IF a = 1 THEN 2 * RpcTimeout + BaseDelay ELSE 3 * RpcTimeout + 4 * BaseDelay

\* The time from the start of the batch to the end of the delay after attempt a.
Rest(a) == IF a = 0 THEN RpcTimeout + BaseDelay ELSE 2 * RpcTimeout + 4 * BaseDelay

\* A call that goes on has a timer ahead, within the budget of its attempt.
CallTimer(c) ==
  /\ state[c] = "sent" => now <= until[c] /\ until[c] <= since + Budget(attempt[c])
  /\ state[c] = "sleeping" => /\ attempt[c] \in {0, 1}
                              /\ now <= until[c] /\ until[c] <= since + Rest(attempt[c])

Timers ==
  /\ \A c \in Call : CallTimer(c)
  /\ step \in {"batch1", "batch2"} => now <= since + CallTime
  /\ step = "batch2" => since <= CallTime

\* Every request is the first of its call or was counted by its loop.
Requests ==
  LET first == attempt["purchases"] + attempt["listings"] + attempt["abandonedWindow"]
      second == attempt["sellerSteamId"] + attempt["buyerSteamId"]
  IN  /\ step = "idle" => next_rpc_id = 0
      /\ step = "batch1" => next_rpc_id = 3 + first
      /\ step = "batch2" => next_rpc_id = 5 + first + second
      /\ step \in {"returned", "dropped"} => next_rpc_id <= 15

CInv == Shape /\ Timers /\ Requests

-----------------------------------------------------------------------------
LEMMA Calls ==
  /\ Cardinality(Batch1) = 3
  /\ Cardinality(Batch2) = 2
  /\ Cardinality(Call) = 5
<1>1. IsFiniteSet({}) /\ Cardinality({}) = 0
  BY FS_EmptySet
<1>2. IsFiniteSet({"purchases"}) /\ Cardinality({"purchases"}) = 1
  BY FS_Singleton
<1>3. /\ IsFiniteSet({"purchases", "listings"})
      /\ Cardinality({"purchases", "listings"}) = 2
  <2>1. {"purchases", "listings"} = {"purchases"} \cup {"listings"}
    OBVIOUS
  <2>2. "listings" \notin {"purchases"}
    OBVIOUS
  <2> QED
    BY <1>2, <2>1, <2>2, FS_AddElement
<1>4. IsFiniteSet(Batch1) /\ Cardinality(Batch1) = 3
  <2>1. Batch1 = {"purchases", "listings"} \cup {"abandonedWindow"}
    BY DEF Batch1
  <2>2. "abandonedWindow" \notin {"purchases", "listings"}
    OBVIOUS
  <2> QED
    BY <1>3, <2>1, <2>2, FS_AddElement
<1>5. IsFiniteSet({"sellerSteamId"}) /\ Cardinality({"sellerSteamId"}) = 1
  BY FS_Singleton
<1>6. Cardinality(Batch2) = 2
  <2>1. Batch2 = {"sellerSteamId"} \cup {"buyerSteamId"}
    BY DEF Batch2
  <2>2. "buyerSteamId" \notin {"sellerSteamId"}
    OBVIOUS
  <2> QED
    BY <1>5, <2>1, <2>2, FS_AddElement
<1>7. /\ IsFiniteSet(Batch1 \cup {"sellerSteamId"})
      /\ Cardinality(Batch1 \cup {"sellerSteamId"}) = 4
  <2>1. "sellerSteamId" \notin Batch1
    BY DEF Batch1
  <2> QED
    BY <1>4, <2>1, FS_AddElement
<1>8. Cardinality(Call) = 5
  <2>1. Call = (Batch1 \cup {"sellerSteamId"}) \cup {"buyerSteamId"}
    BY DEF Call, Batch2
  <2>2. "buyerSteamId" \notin Batch1 \cup {"sellerSteamId"}
    BY DEF Batch1
  <2> QED
    BY <1>7, <2>1, <2>2, FS_AddElement
<1> QED
  BY <1>4, <1>6, <1>8

LEMMA Delays ==
  /\ RpcTimeout \in Nat /\ BaseDelay \in Nat
  /\ Backoff(0) = BaseDelay
  /\ Backoff(1) = 3 * BaseDelay
  /\ CallTime = 3 * RpcTimeout + 4 * BaseDelay
<1>1. RpcTimeout \in Nat /\ BaseDelay \in Nat
  BY ReaderAssumption
<1>2. Backoff(0) = BaseDelay
  BY <1>1 DEF Backoff
<1>3. Backoff(1) = 3 * BaseDelay
  BY <1>1 DEF Backoff
<1> QED
  BY <1>1, <1>2, <1>3 DEF CallTime, MAX_RETRIES

LEMMA Names ==
  /\ Call = {"purchases", "listings", "abandonedWindow", "sellerSteamId", "buyerSteamId"}
  /\ Batch1 \subseteq Call /\ Batch2 \subseteq Call
  /\ \A c \in Batch1 : c \notin Batch2
  BY DEF Call, Batch1, Batch2

-----------------------------------------------------------------------------
(* CInv is inductive *)

LEMMA CInit == Init => CInv
  BY Names, Delays DEF Init, CInv, Shape, Timers, CallTimer, Requests, CallState, Step,
     Batch1, Batch2

\* A call that ends leaves the invariant alone: nothing is asked of ended calls.
LEMMA CEnded ==
  ASSUME CInv, NEW c \in Call, NEW r \in {"ok", "failed"},
         state[c] \in {"sent", "sleeping"}, Ended(c, r),
         UNCHANGED <<now, step, since, attempt, next_rpc_id>>
  PROVE  CInv'
<1>1. /\ state' \in [Call -> CallState]
      /\ until' \in [Call -> Nat]
      /\ state'[c] = r
      /\ \A d \in Call \ {c} : state'[d] = state[d] /\ until'[d] = until[d]
  BY DEF Ended, CInv, Shape, CallState
<1>2. Shape'
  BY <1>1, Names DEF CInv, Shape
<1>3. Timers'
  <2>1. \A d \in Call : CallTimer(d)'
    BY <1>1 DEF CInv, Timers, CallTimer
  <2> QED
    BY <2>1 DEF CInv, Timers
<1>4. Requests'
  BY DEF CInv, Requests
<1> QED
  BY <1>2, <1>3, <1>4 DEF CInv

LEMMA CFails ==
  ASSUME CInv, NEW c \in Call, Fails(c)
  PROVE  CInv'
  BY CEnded DEF Fails

LEMMA CAnswered ==
  ASSUME CInv, NEW c \in Call, Answered(c)
  PROVE  CInv'
  BY CEnded DEF Answered

LEMMA CTransient ==
  ASSUME CInv, NEW c \in Call, FailsTransiently(c)
  PROVE  CInv'
<1>1. CASE ~RetriesLeft(attempt[c])
  BY <1>1, CEnded DEF FailsTransiently
<1>2. CASE RetriesLeft(attempt[c])
  <2>1. /\ state[c] = "sent"
        /\ attempt[c] \in {0, 1}
        /\ now \in Nat /\ since \in Nat
        /\ now <= until[c] /\ until[c] \in Nat /\ until[c] <= since + Budget(attempt[c])
    BY <1>2 DEF FailsTransiently, RetriesLeft, MAX_RETRIES, CInv, Shape, Timers, CallTimer
  <2>2. /\ state' = [state EXCEPT ![c] = "sleeping"]
        /\ until' = [until EXCEPT ![c] = now + Backoff(attempt[c])]
        /\ UNCHANGED <<now, step, since, attempt, next_rpc_id>>
    BY <1>2 DEF FailsTransiently
  <2>3. /\ now + Backoff(attempt[c]) \in Nat
        /\ now <= now + Backoff(attempt[c])
        /\ now + Backoff(attempt[c]) <= since + Rest(attempt[c])
    BY <2>1, Delays DEF Budget, Rest
  <2>4. /\ state' \in [Call -> CallState]
        /\ until' \in [Call -> Nat]
        /\ state'[c] = "sleeping"
        /\ until'[c] = now + Backoff(attempt[c])
        /\ \A d \in Call \ {c} : state'[d] = state[d] /\ until'[d] = until[d]
    BY <2>2, <2>3 DEF CInv, Shape, CallState
  <2>5. Shape'
    BY <2>1, <2>2, <2>4, Names DEF CInv, Shape
  <2>6. Timers'
    <3>1. \A d \in Call : CallTimer(d)'
      BY <2>1, <2>2, <2>3, <2>4 DEF CInv, Timers, CallTimer
    <3> QED
      BY <3>1, <2>2 DEF CInv, Timers
  <2>7. Requests'
    BY <2>2 DEF CInv, Requests
  <2> QED
    BY <2>5, <2>6, <2>7 DEF CInv
<1> QED
  BY <1>1, <1>2

LEMMA CRetries ==
  ASSUME CInv, NEW c \in Call, Retries(c)
  PROVE  CInv'
<1>1. /\ state[c] = "sleeping"
      /\ attempt[c] \in {0, 1}
      /\ now \in Nat /\ since \in Nat
      /\ now = until[c]
      /\ until[c] <= since + Rest(attempt[c])
      /\ step \in {"batch1", "batch2"}
  <2>1. state[c] = "sleeping" /\ now >= until[c]
    BY DEF Retries, Due
  <2>2. CallTimer(c) /\ now \in Nat /\ since \in Nat /\ until[c] \in Nat
    BY DEF CInv, Shape, Timers
  <2>3. c \in Batch1 \/ c \in Batch2
    BY DEF Call
  <2>4. step \in {"batch1", "batch2"}
    BY <2>1, <2>3 DEF CInv, Shape, Step
  <2> QED
    BY <2>1, <2>2, <2>4 DEF CallTimer
<1>2. /\ state' = [state EXCEPT ![c] = "sent"]
      /\ attempt' = [attempt EXCEPT ![c] = attempt[c] + 1]
      /\ until' = [until EXCEPT ![c] = now + RpcTimeout]
      /\ next_rpc_id' = next_rpc_id + 1
      /\ UNCHANGED <<now, step, since>>
  BY DEF Retries
<1>3. /\ now + RpcTimeout \in Nat
      /\ now <= now + RpcTimeout
      /\ now + RpcTimeout <= since + Budget(attempt[c] + 1)
      /\ attempt[c] + 1 \in {1, 2}
  BY <1>1, Delays DEF Budget, Rest
<1>4. /\ state' \in [Call -> CallState]
      /\ attempt' \in [Call -> {0, 1, 2}]
      /\ until' \in [Call -> Nat]
      /\ state'[c] = "sent"
      /\ attempt'[c] = attempt[c] + 1
      /\ until'[c] = now + RpcTimeout
      /\ \A d \in Call \ {c} :
           state'[d] = state[d] /\ until'[d] = until[d] /\ attempt'[d] = attempt[d]
  BY <1>2, <1>3 DEF CInv, Shape, CallState
<1>5. Shape'
  BY <1>1, <1>2, <1>4, Names DEF CInv, Shape
<1>6. Timers'
  <2>1. \A d \in Call : CallTimer(d)'
    BY <1>1, <1>2, <1>3, <1>4 DEF CInv, Timers, CallTimer
  <2> QED
    BY <2>1, <1>2 DEF CInv, Timers
<1>7. Requests'
  <2>1. step = "batch1" => c \in Batch1
    BY <1>1, Names DEF CInv, Shape, Call
  <2>2. step = "batch2" => c \in Batch2
    BY <1>1, Names DEF CInv, Shape, Call
  <2> QED
    BY <2>1, <2>2, <1>1, <1>2, <1>4, Names DEF CInv, Shape, Requests, Batch1, Batch2
<1> QED
  BY <1>5, <1>6, <1>7 DEF CInv

LEMMA CSend ==
  ASSUME CInv, NEW batch \in {Batch1, Batch2}, SendBatch(batch)
  PROVE  /\ state' \in [Call -> CallState]
         /\ until' \in [Call -> Nat]
         /\ attempt' \in [Call -> {0, 1, 2}]
         /\ since' \in Nat /\ since' = now
         /\ \A c \in batch : state'[c] = "sent" /\ until'[c] = now + RpcTimeout
         /\ \A c \in Call : c \notin batch => state'[c] = state[c] /\ until'[c] = until[c]
  BY Names, Delays DEF SendBatch, CInv, Shape, CallState

LEMMA CBegin ==
  ASSUME CInv, Begin
  PROVE  CInv'
<1>0. /\ step = "idle" /\ step' = "batch1" /\ now = 0
      /\ now' = now /\ attempt' = attempt
      /\ next_rpc_id' = next_rpc_id + 3
      /\ SendBatch(Batch1)
  BY Calls DEF Begin, SendBatch, CInv, Shape
<1>1. Shape'
  BY <1>0, CSend, Names DEF CInv, Shape, Step
<1>2. Timers'
  BY Names, Delays DEF Begin, SendBatch, CInv, Shape, Timers, CallTimer, Budget, Batch1, Batch2
<1>3. Requests'
  BY Calls, Names DEF Begin, SendBatch, CInv, Shape, Requests, Batch1, Batch2
<1> QED
  BY <1>1, <1>2, <1>3 DEF CInv

LEMMA CEndBatch1 ==
  ASSUME CInv, EndBatch1
  PROVE  CInv'
<1>1. CASE Succeeded(Batch1) /\ Valid
  <2>1. /\ step = "batch1" /\ step' = "batch2"
        /\ SendBatch(Batch2)
        /\ now' = now
    BY <1>1 DEF EndBatch1
  <2>0. attempt' = attempt /\ next_rpc_id' = next_rpc_id + 2
    BY <2>1, Calls DEF SendBatch
  <2>2. Shape'
    BY <1>1, <2>0, <2>1, CSend, Names DEF CInv, Shape, Step, Succeeded
  <2>3. Timers'
    BY <1>1, <2>1, Names, Delays
    DEF SendBatch, CInv, Shape, Timers, CallTimer, Budget, Succeeded, Batch1, Batch2
  <2>4. Requests'
    BY <2>1, Calls, Names DEF SendBatch, CInv, Shape, Requests, Batch1, Batch2
  <2> QED
    BY <2>2, <2>3, <2>4 DEF CInv
<1>2. CASE ~(Succeeded(Batch1) /\ Valid)
  <2>1. /\ step = "batch1" /\ step' = "returned"
        /\ Joined(Batch1)
        /\ UNCHANGED <<now, since, state, attempt, until, next_rpc_id>>
    BY <1>2 DEF EndBatch1, callVars
  <2>2. Shape'
    BY <2>1 DEF CInv, Shape, Step, Joined, Call
  <2>3. Timers'
    BY <2>1 DEF CInv, Timers, CallTimer
  <2>4. Requests'
    BY <2>1, Names DEF CInv, Shape, Requests
  <2> QED
    BY <2>2, <2>3, <2>4 DEF CInv
<1> QED
  BY <1>1, <1>2

LEMMA CEndBatch2 ==
  ASSUME CInv, EndBatch2
  PROVE  CInv'
<1>1. /\ step = "batch2" /\ step' = "returned"
      /\ Joined(Batch2)
      /\ UNCHANGED <<now, since, state, attempt, until, next_rpc_id>>
  BY DEF EndBatch2, callVars
<1>2. Shape'
  BY <1>1 DEF CInv, Shape, Step, Joined, Call
<1>3. Timers'
  BY <1>1 DEF CInv, Timers, CallTimer
<1>4. Requests'
  BY <1>1, Names DEF CInv, Shape, Requests
<1> QED
  BY <1>2, <1>3, <1>4 DEF CInv

LEMMA CDropped ==
  ASSUME CInv, Dropped
  PROVE  CInv'
<1>1. Shape'
  BY Names DEF Dropped, CInv, Shape, Step, CallState
<1>2. Timers'
  BY DEF Dropped, CInv, Timers, CallTimer
<1>3. Requests'
  BY Names DEF Dropped, CInv, Shape, Requests
<1> QED
  BY <1>1, <1>2, <1>3 DEF CInv

\* The clock moves only while some call of the batch goes on, with its timer ahead.
LEMMA CTick ==
  ASSUME CInv, Tick
  PROVE  CInv'
<1>1. /\ now' = now + 1
      /\ UNCHANGED <<step, since, state, attempt, until, next_rpc_id>>
      /\ step \in {"batch1", "batch2"}
  BY DEF Tick, callVars
<1>2. \A c \in Call : state[c] \in {"sent", "sleeping"} => now + 1 <= until[c]
  BY DEF Tick, Due, CInv, Shape
<1>3. PICK c \in Call : state[c] \in {"sent", "sleeping"}
  BY <1>1, Names DEF Tick, Joined, CInv, Shape, CallState
<1>4. now + 1 <= since + CallTime
  BY <1>2, <1>3, Delays DEF CInv, Shape, Timers, CallTimer, Budget, Rest
<1>5. Shape'
  BY <1>1 DEF CInv, Shape
<1>6. Timers'
  BY <1>1, <1>2, <1>4 DEF CInv, Shape, Timers, CallTimer
<1>7. Requests'
  BY <1>1 DEF CInv, Requests
<1> QED
  BY <1>5, <1>6, <1>7 DEF CInv

LEMMA CStutter ==
  ASSUME CInv, UNCHANGED <<now, step, since, state, attempt, until, next_rpc_id>>
  PROVE  CInv'
  BY DEF CInv, Shape, Timers, CallTimer, Requests

LEMMA CChain ==
  ASSUME CInv, ChainStep
  PROVE  CInv'
<1>1. UNCHANGED <<now, step, since, state, attempt, until, next_rpc_id>>
  BY DEF ChainStep, Listed, Delisted, Purchased, Settled, WindowSet, Registered, Changes, callVars
<1> QED
  BY <1>1, CStutter

LEMMA CNext == CInv /\ [Next]_vars => CInv'
<1> SUFFICES ASSUME CInv, [Next]_vars
             PROVE  CInv'
  OBVIOUS
<1>1. CASE ChainStep
  BY <1>1, CChain
<1>2. ASSUME NEW c \in Call, CallStep(c)
      PROVE  CInv'
  BY <1>2, CFails, CTransient, CRetries, CAnswered DEF CallStep
<1>3. CASE Begin
  BY <1>3, CBegin
<1>4. CASE EndBatch1
  BY <1>4, CEndBatch1
<1>5. CASE EndBatch2
  BY <1>5, CEndBatch2
<1>6. CASE Dropped
  BY <1>6, CDropped
<1>7. CASE Tick
  BY <1>7, CTick
<1>8. CASE UNCHANGED vars
  BY <1>8, CStutter DEF vars, callVars
<1> QED
  BY <1>1, <1>2, <1>3, <1>4, <1>5, <1>6, <1>7, <1>8 DEF Next, Done

\* CInv is an invariant of the reader.
THEOREM CallInvariance == Spec => []CInv
<1>1. CInv /\ [Next]_vars => CInv'
  BY CNext
<1> QED
  BY CInit, <1>1, PTL DEF Spec

\* read_escrow ends within two batches of three timeouts and two delays.
THEOREM ReadTime == Spec => []ReadBounded
<1>1. CInv => ReadBounded
  BY Delays DEF CInv, Shape, Timers, ReadBounded
<1> QED
  BY <1>1, CallInvariance, PTL

\* The node gets at most fifteen requests for one read.
THEOREM RequestCount == Spec => []RequestsBounded
<1>1. CInv => RequestsBounded
  BY Calls, Names DEF CInv, Shape, Step, Requests, RequestsBounded, MAX_RETRIES
<1> QED
  BY <1>1, CallInvariance, PTL

\* A read that has returned or was dropped leaves no request and no sleep behind.
THEOREM NoLeftovers == Spec => []NothingLeftBehind
<1>1. CInv => NothingLeftBehind
  BY DEF CInv, Shape, NothingLeftBehind
<1> QED
  BY <1>1, CallInvariance, PTL

-----------------------------------------------------------------------------
(* What the calls returned *)

Purchases == [buyer : Wallet \cup {None}, active : BOOLEAN, no : Nat]
Listings == [seller : Wallet, exists : BOOLEAN]
Ids == SteamId \cup {0}

ChainShape ==
  /\ purchase \in Purchases
  /\ listing \in Listings
  /\ registry \in [Wallet -> Ids]

\* What a call has returned was so in some state of the contracts since the start.
Returned ==
  /\ state["purchases"] = "ok" =>
       value["purchases"] \in Purchases /\ \E h \in history : h.purchase = value["purchases"]
  /\ state["listings"] = "ok" =>
       value["listings"] \in Listings /\ \E h \in history : h.listing = value["listings"]
  /\ state["abandonedWindow"] = "ok" => \E h \in history : h.window = value["abandonedWindow"]
  /\ state["sellerSteamId"] = "ok" =>
       /\ value["sellerSteamId"] \in Ids
       /\ \E h \in history : h.registry[value["listings"].seller] = value["sellerSteamId"]
  /\ state["buyerSteamId"] = "ok" =>
       /\ value["buyerSteamId"] \in Ids
       /\ \E h \in history : h.registry[value["purchases"].buyer] = value["buyerSteamId"]

SnapshotIds ==
  snapshot # None => {snapshot.seller_steam_id, snapshot.buyer_steam_id} \subseteq SteamId

FInv ==
  /\ ChainShape
  /\ value = [c \in Call |-> value[c]]
  /\ step \in {"batch1", "batch2"} => chain \in history
  /\ step \in {"batch1", "batch2"} => Returned
  /\ step = "batch2" => Valid
  /\ snapshot # None => step = "returned"
  /\ SnapshotFresh
  /\ SnapshotIds

LEMMA FInit == Init => FInv
<1> SUFFICES ASSUME Init
             PROVE  FInv
  OBVIOUS
<1>1. purchase \in Purchases
  <2>1. CASE purchase = NoPurchase
    BY <2>1 DEF NoPurchase, Purchases
  <2>2. CASE purchase \in [buyer : Wallet, active : BOOLEAN, no : {1}]
    BY <2>2 DEF Purchases
  <2> QED
    BY <2>1, <2>2 DEF Init, ChainInit
<1>2. listing \in Listings /\ registry \in [Wallet -> Ids]
  BY ReaderAssumption DEF Init, ChainInit, Listings, Ids
<1>3. value = [c \in Call |-> value[c]]
  BY DEF Init
<1> QED
  BY <1>1, <1>2, <1>3 DEF Init, FInv, ChainShape, SnapshotFresh, SnapshotIds

\* A transaction adds a state to history and takes none away.
LEMMA FChain ==
  ASSUME FInv, ChainStep
  PROVE  FInv'
<1>1. ChainShape'
  <2>0. purchase \in Purchases /\ listing \in Listings /\ registry \in [Wallet -> Ids]
    BY DEF FInv, ChainShape
  <2>1. CASE Listed
    BY <2>0, <2>1 DEF Listed, ChainShape, Listings
  <2>2. CASE Delisted
    <3>1. listing' \in Listings
      BY <2>0, <2>2 DEF Delisted, Listings
    <3> QED
      BY <2>0, <2>2, <3>1 DEF Delisted, ChainShape
  <2>3. CASE Purchased
    <3>1. PICK w \in Wallet : purchase' = [buyer |-> w, active |-> TRUE, no |-> purchase.no + 1]
      BY <2>3 DEF Purchased
    <3>2. purchase.no + 1 \in Nat
      BY <2>0 DEF Purchases
    <3>3. purchase' \in Purchases
      BY <3>1, <3>2 DEF Purchases
    <3> QED
      BY <2>0, <2>3, <3>3 DEF Purchased, ChainShape
  <2>4. CASE Settled
    <3>1. purchase' \in Purchases
      BY <2>0, <2>4 DEF Settled, Purchases
    <3> QED
      BY <2>0, <2>4, <3>1 DEF Settled, ChainShape
  <2>5. CASE WindowSet
    BY <2>0, <2>5 DEF WindowSet, ChainShape
  <2>6. CASE Registered
    BY <2>0, <2>6 DEF Registered, ChainShape, Ids
  <2> QED
    BY <2>1, <2>2, <2>3, <2>4, <2>5, <2>6 DEF ChainStep
<1>2. /\ history' = history \cup {chain'}
      /\ UNCHANGED <<step, state, value, snapshot>>
      /\ step \in {"batch1", "batch2"}
  BY DEF ChainStep, Listed, Delisted, Purchased, Settled, WindowSet, Registered, Changes, callVars
<1>3. Returned'
  BY <1>2 DEF FInv, Returned
<1>4. SnapshotFresh' /\ SnapshotIds'
  BY <1>2 DEF FInv, SnapshotFresh, SnapshotIds
<1> QED
  BY <1>1, <1>2, <1>3, <1>4 DEF FInv, Valid

LEMMA FUnchanged ==
  ASSUME FInv, UNCHANGED <<purchase, listing, window, registry, step, value, snapshot, history>>,
         Returned => Returned'
  PROVE  FInv'
  BY DEF FInv, ChainShape, chain, Valid, SnapshotFresh, SnapshotIds

LEMMA Queries ==
  /\ Query("purchases") = purchase
  /\ Query("listings") = listing
  /\ Query("abandonedWindow") = window
  /\ Query("sellerSteamId") = registry[value["listings"].seller]
  /\ Query("buyerSteamId") = registry[value["purchases"].buyer]
  BY DEF Query

LEMMA FAnswered ==
  ASSUME CInv, FInv, NEW c \in Call, Answered(c)
  PROVE  FInv'
<1>1. /\ state[c] = "sent" /\ state' = [state EXCEPT ![c] = "ok"]
      /\ value' = [value EXCEPT ![c] = Query(c)]
      /\ UNCHANGED <<purchase, listing, window, registry, step, snapshot, history>>
  BY DEF Answered, Ended, chainVars
<1>2. /\ state \in [Call -> CallState]
      /\ value = [d \in Call |-> value[d]]
      /\ value'[c] = Query(c) /\ state'[c] = "ok"
      /\ \A d \in Call \ {c} : value'[d] = value[d] /\ state'[d] = state[d]
      /\ value' = [d \in Call |-> value'[d]]
  BY <1>1 DEF CInv, Shape, FInv
<1>3. c \in Batch1 \/ c \in Batch2
  BY DEF Call
<1>4. step \in {"batch1", "batch2"}
  BY <1>1, <1>3 DEF CInv, Shape, Step
<1>5. /\ step = "batch1" => c \in Batch1
      /\ step = "batch2" => c \in Batch2
  BY <1>1, <1>3, <1>4 DEF CInv, Shape
<1>6. /\ chain \in history
      /\ chain.purchase = purchase /\ chain.listing = listing
      /\ chain.window = window /\ chain.registry = registry
  BY <1>4 DEF FInv, chain
<1>7. /\ "purchases" \in Call /\ "listings" \in Call /\ "abandonedWindow" \in Call
      /\ "sellerSteamId" \in Call /\ "buyerSteamId" \in Call
  BY Names
<1>8. Returned'
  <2>1. CASE c \in Batch1
    <3>1. step = "batch1"
      BY <2>1, <1>4, <1>5, Names
    <3>2. state'["sellerSteamId"] = "unsent" /\ state'["buyerSteamId"] = "unsent"
      BY <2>1, <3>1, <1>2, Names DEF CInv, Shape, Batch1, Batch2
    <3> QED
      BY <2>1, <3>2, <1>1, <1>2, <1>4, <1>6, <1>7, Queries DEF FInv, Returned, ChainShape, Batch1
  <2>2. CASE c \in Batch2
    <3>1. step = "batch2"
      BY <2>2, <1>4, <1>5, Names
    <3>2. \A d \in Batch1 : state[d] = "ok"
      BY <3>1 DEF CInv, Shape
    <3>3. /\ value["purchases"] \in Purchases /\ value["listings"] \in Listings
          /\ value["purchases"].buyer # None
      BY <3>1, <3>2 DEF FInv, Returned, Valid, Batch1
    <3>4. /\ registry[value["listings"].seller] \in Ids
          /\ registry[value["purchases"].buyer] \in Ids
      BY <3>3 DEF FInv, ChainShape, Purchases, Listings
    <3>5. /\ value'["purchases"] = value["purchases"] /\ value'["listings"] = value["listings"]
          /\ value'["abandonedWindow"] = value["abandonedWindow"]
          /\ \A d \in Batch1 : state'[d] = "ok"
      BY <2>2, <3>2, <1>2, <1>7, Names DEF Batch1, Batch2
    <3>6. Returned
      BY <1>4 DEF FInv
    <3>7. CASE c = "sellerSteamId"
      <4>1. /\ value'["sellerSteamId"] = registry[value["listings"].seller]
            /\ value'["buyerSteamId"] = value["buyerSteamId"]
            /\ state'["buyerSteamId"] = state["buyerSteamId"]
        BY <3>7, <1>2, <1>7, Queries
      <4> QED
        BY <3>2, <3>4, <3>5, <3>6, <4>1, <1>1, <1>6 DEF Returned, Batch1
    <3>8. CASE c = "buyerSteamId"
      <4>1. /\ value'["buyerSteamId"] = registry[value["purchases"].buyer]
            /\ value'["sellerSteamId"] = value["sellerSteamId"]
            /\ state'["sellerSteamId"] = state["sellerSteamId"]
        BY <3>8, <1>2, <1>7, Queries
      <4> QED
        BY <3>2, <3>4, <3>5, <3>6, <4>1, <1>1, <1>6 DEF Returned, Batch1
    <3> QED
      BY <2>2, <3>7, <3>8 DEF Batch2
  <2> QED
    BY <1>3, <2>1, <2>2
<1>9. step = "batch2" => Valid'
  BY <1>2, <1>5, <1>7 DEF FInv, Valid, Batch2
<1> QED
  BY <1>1, <1>2, <1>4, <1>6, <1>8, <1>9 DEF FInv, ChainShape, chain, SnapshotFresh, SnapshotIds

\* A call that is sent, sleeps or fails returns nothing.
LEMMA FOtherCall ==
  ASSUME CInv, FInv, NEW c \in Call, Fails(c) \/ FailsTransiently(c) \/ Retries(c)
  PROVE  FInv'
<1>1. /\ UNCHANGED <<purchase, listing, window, registry, step, value, snapshot, history>>
      /\ \E r \in {"failed", "sleeping", "sent"} : state' = [state EXCEPT ![c] = r]
  BY DEF Fails, FailsTransiently, Retries, Ended, chainVars
<1>2. \A d \in Call : state'[d] = "ok" => state[d] = "ok"
  BY <1>1 DEF CInv, Shape
<1>3. Returned => Returned'
  BY <1>1, <1>2, Names DEF Returned
<1> QED
  BY <1>1, <1>3, FUnchanged

LEMMA FBegin ==
  ASSUME CInv, FInv, Begin
  PROVE  FInv'
<1>1. /\ step = "idle" /\ step' = "batch1"
      /\ history' = {chain}
      /\ SendBatch(Batch1)
      /\ value' = value
      /\ UNCHANGED <<purchase, listing, window, registry, snapshot>>
  BY DEF Begin, SendBatch, chainVars
<1>2. \A c \in Call : state'[c] # "ok"
  BY <1>1, CSend, Names DEF CInv, Shape, Call
<1>3. Returned'
  BY <1>2, Names DEF Returned
<1> QED
  BY <1>1, <1>3 DEF FInv, ChainShape, chain, SnapshotFresh, SnapshotIds

LEMMA FEndBatch1 ==
  ASSUME CInv, FInv, EndBatch1
  PROVE  FInv'
<1>1. /\ step = "batch1" /\ step' \in {"batch2", "returned"}
      /\ step' = "batch2" => Valid /\ SendBatch(Batch2)
      /\ UNCHANGED <<purchase, listing, window, registry, value, snapshot, history>>
  BY DEF EndBatch1, SendBatch, chainVars, callVars
<1>2. ASSUME step' = "batch2"
      PROVE  Returned'
  <2>1. \A c \in Call : state'[c] = "ok" => state[c] = "ok"
    BY <1>1, <1>2, CSend, Names
  <2> QED
    BY <2>1, <1>1, Names DEF FInv, Returned
<1> QED
  BY <1>1, <1>2 DEF FInv, ChainShape, chain, Valid, SnapshotFresh, SnapshotIds

LEMMA FEndBatch2 ==
  ASSUME CInv, FInv, EndBatch2
  PROVE  FInv'
<1>1. /\ step = "batch2" /\ step' = "returned"
      /\ UNCHANGED <<purchase, listing, window, registry, value, history>>
  BY DEF EndBatch2, chainVars, callVars
<1>2. CASE Succeeded(Batch2) /\ PartiesRegistered
  <2>1. snapshot' = [purchase |-> value["purchases"], seller |-> value["listings"].seller,
                     abandoned_window |-> value["abandonedWindow"],
                     seller_steam_id |-> value["sellerSteamId"],
                     buyer_steam_id |-> value["buyerSteamId"]]
    BY <1>2 DEF EndBatch2
  <2>2. \A c \in Call : state[c] = "ok"
    BY <1>1, <1>2 DEF CInv, Shape, Succeeded, Call
  <2>3. Returned /\ Valid
    BY <1>1 DEF FInv
  <2>4. value["listings"] = [seller |-> value["listings"].seller, exists |-> TRUE]
    BY <2>2, <2>3, Names DEF Returned, Valid, Listings
  <2>5. SnapshotIds'
    BY <1>2, <2>1, <2>2, <2>3, Names DEF Returned, PartiesRegistered, SnapshotIds, Ids
  <2>6. SnapshotFresh'
    BY <1>1, <2>1, <2>2, <2>3, <2>4, <2>5, Names DEF Returned, Valid, SnapshotFresh, SnapshotIds
  <2> QED
    BY <1>1, <2>5, <2>6 DEF FInv, ChainShape
<1>3. CASE ~(Succeeded(Batch2) /\ PartiesRegistered)
  <2>1. snapshot' = None
    BY <1>3 DEF EndBatch2
  <2> QED
    BY <1>1, <2>1 DEF FInv, ChainShape, SnapshotFresh, SnapshotIds
<1> QED
  BY <1>2, <1>3

LEMMA FDropped ==
  ASSUME FInv, Dropped
  PROVE  FInv'
  BY DEF FInv, Dropped, chainVars, ChainShape, SnapshotFresh, SnapshotIds

LEMMA FNext == CInv /\ FInv /\ [Next]_vars => FInv'
<1> SUFFICES ASSUME CInv, FInv, [Next]_vars
             PROVE  FInv'
  OBVIOUS
<1>1. CASE ChainStep
  BY <1>1, FChain
<1>2. ASSUME NEW c \in Call, CallStep(c)
      PROVE  FInv'
  BY <1>2, FOtherCall, FAnswered DEF CallStep
<1>3. CASE Begin
  BY <1>3, FBegin
<1>4. CASE EndBatch1
  BY <1>4, FEndBatch1
<1>5. CASE EndBatch2
  BY <1>5, FEndBatch2
<1>6. CASE Dropped
  BY <1>6, FDropped
<1>7. CASE Tick \/ UNCHANGED vars
  <2>1. UNCHANGED <<purchase, listing, window, registry, step, value, snapshot, history, state>>
    BY <1>7 DEF Tick, vars, chainVars, callVars
  <2>2. Returned => Returned'
    BY <2>1 DEF Returned
  <2> QED
    BY <2>1, <2>2, FUnchanged
<1> QED
  BY <1>1, <1>2, <1>3, <1>4, <1>5, <1>6, <1>7 DEF Next, Done

\* FInv is an invariant of the reader.
THEOREM ValueInvariance == Spec => []FInv
<1>1. CInv /\ FInv /\ [Next]_vars => FInv'
  BY FNext
<1> QED
  BY FInit, <1>1, CallInvariance, PTL DEF Spec

\* Whatever the contracts do meanwhile, everything a snapshot says was so at some
\* moment of the read.
THEOREM FreshSnapshot == Spec => []SnapshotFresh
<1>1. FInv => SnapshotFresh
  BY DEF FInv
<1> QED
  BY <1>1, ValueInvariance, PTL

\* The state of the reader keeps its types, and the Steam ids of a snapshot are
\* registered ones.
THEOREM ReaderTypes == Spec => []TypeOK
<1>1. CInv /\ FInv => TypeOK
  BY DEF CInv, Shape, CallState, Step, FInv, SnapshotIds, TypeOK
<1> QED
  BY <1>1, CallInvariance, ValueInvariance, PTL

-----------------------------------------------------------------------------
(* Refinement *)

\* A step that changes neither the purchase nor what the read knows is a stutter.
LEMMA RStutter ==
  ASSUME UNCHANGED <<purchase, ReadStage, ReadLooked>>
  PROVE  [Read!Next]_(Read!readVars)
  BY DEF Read!readVars

\* A transaction settles the purchase, follows a purchase that is over, or leaves
\* the purchase alone.
LEMMA RChain ==
  ASSUME ChainStep
  PROVE  [Read!Next]_(Read!readVars)
<1>1. UNCHANGED <<step, state, value, snapshot>>
  BY DEF ChainStep, Listed, Delisted, Purchased, Settled, WindowSet, Registered, Changes, callVars
<1>2. ReadStage' = ReadStage /\ ReadLooked' = ReadLooked
  BY <1>1 DEF ReadStage, ReadLooked, SeenActive
<1>3. purchase' = purchase \/ ~purchase.active \/ purchase' = [purchase EXCEPT !.active = FALSE]
  BY DEF ChainStep, Listed, Delisted, Purchased, Settled, WindowSet, Registered
<1>4. CASE purchase' = purchase
  BY <1>2, <1>4, RStutter
<1>5. CASE ~purchase.active \/ purchase' = [purchase EXCEPT !.active = FALSE]
  BY <1>2, <1>5 DEF Read!Next, Read!Transaction
<1> QED
  BY <1>3, <1>4, <1>5

\* The answer of the purchases call is the look; the other answers are not.
LEMMA RAnswered ==
  ASSUME CInv, FInv, NEW c \in Call, Answered(c)
  PROVE  [Read!Next]_(Read!readVars)
<1>1. /\ state[c] = "sent" /\ state' = [state EXCEPT ![c] = "ok"]
      /\ value' = [value EXCEPT ![c] = Query(c)]
      /\ UNCHANGED <<purchase, step, snapshot>>
  BY DEF Answered, Ended, chainVars
<1>2. /\ value'[c] = Query(c) /\ state'[c] = "ok"
      /\ \A d \in Call \ {c} : value'[d] = value[d] /\ state'[d] = state[d]
  BY <1>1 DEF CInv, Shape, FInv
<1>3. CASE c # "purchases"
  <2>1. value'["purchases"] = value["purchases"] /\ state'["purchases"] = state["purchases"]
    BY <1>2, <1>3, Names
  <2> QED
    BY <1>1, <2>1, RStutter DEF ReadStage, ReadLooked, SeenActive
<1>4. CASE c = "purchases"
  <2>1. step = "batch1"
    BY <1>1, <1>4, Names DEF CInv, Shape, Step, Batch1
  <2>2. value'["purchases"] = purchase /\ state'["purchases"] = "ok" /\ state["purchases"] = "sent"
    BY <1>1, <1>2, <1>4, Queries
  <2>3. ReadStage = "chain" /\ ReadLooked = None
    BY <2>1, <2>2 DEF ReadStage, ReadLooked, SeenActive
  <2>4. CASE purchase.active
    <3>1. ReadStage' = "parties" /\ ReadLooked' = purchase
      BY <1>1, <2>1, <2>2, <2>4 DEF ReadStage, ReadLooked, SeenActive
    <3> QED
      BY <1>1, <2>3, <2>4, <3>1 DEF Read!Next, Read!Look
  <2>5. CASE ~purchase.active
    <3>1. ReadStage' = "chain" /\ ReadLooked' = None
      BY <1>1, <2>1, <2>2, <2>5 DEF ReadStage, ReadLooked, SeenActive
    <3> QED
      BY <1>1, <2>3, <3>1, RStutter
  <2> QED
    BY <2>4, <2>5
<1> QED
  BY <1>3, <1>4

\* A call that is sent, sleeps or fails has seen nothing.
LEMMA ROtherCall ==
  ASSUME CInv, NEW c \in Call, Fails(c) \/ FailsTransiently(c) \/ Retries(c)
  PROVE  [Read!Next]_(Read!readVars)
<1>1. /\ UNCHANGED <<purchase, step, value, snapshot>>
      /\ state[c] \in {"sent", "sleeping"}
      /\ \E r \in {"failed", "sleeping", "sent"} : state' = [state EXCEPT ![c] = r]
  BY DEF Fails, FailsTransiently, Retries, Ended, chainVars
<1>2. state'["purchases"] = "ok" <=> state["purchases"] = "ok"
  BY <1>1, Names DEF CInv, Shape
<1>3. SeenActive' <=> SeenActive
  BY <1>1, <1>2 DEF SeenActive
<1>4. ReadStage' = ReadStage
  BY <1>1, <1>3 DEF ReadStage
<1>5. ReadLooked' = ReadLooked
  BY <1>1, <1>4 DEF ReadLooked
<1> QED
  BY <1>1, <1>4, <1>5, RStutter

LEMMA RBegin ==
  ASSUME CInv, Begin
  PROVE  [Read!Next]_(Read!readVars)
<1>1. step = "idle" /\ step' = "batch1" /\ SendBatch(Batch1) /\ UNCHANGED <<purchase, snapshot>>
  BY DEF Begin, chainVars
<1>2. state'["purchases"] = "sent"
  BY <1>1, Names DEF SendBatch, Batch1
<1>3. ReadStage = "idle" /\ ReadLooked = None /\ ReadStage' = "chain" /\ ReadLooked' = None
  BY <1>1, <1>2 DEF ReadStage, ReadLooked, SeenActive
<1> QED
  BY <1>1, <1>3 DEF Read!Next, Read!Begin

\* The second batch begins with the purchase seen active; otherwise the read fails.
LEMMA REndBatch1 ==
  ASSUME CInv, FInv, EndBatch1
  PROVE  [Read!Next]_(Read!readVars)
<1>1. step = "batch1" /\ UNCHANGED <<purchase, value, snapshot>> /\ snapshot = None
  BY DEF EndBatch1, SendBatch, chainVars, callVars, FInv
<1>2. CASE step' = "batch2"
  <2>1. Valid /\ Succeeded(Batch1)
    BY <1>2 DEF EndBatch1
  <2>2. SeenActive
    BY <2>1 DEF Valid, Succeeded, SeenActive, Batch1
  <2>3. ReadStage = "parties" /\ ReadStage' = "parties"
    BY <1>1, <1>2, <2>2 DEF ReadStage
  <2>4. ReadLooked' = ReadLooked
    BY <1>1, <2>3 DEF ReadLooked
  <2> QED
    BY <1>1, <2>3, <2>4, RStutter
<1>3. CASE step' = "returned"
  <2>1. ReadStage \in {"chain", "parties"} /\ ReadStage' = "failed" /\ ReadLooked' = None
    BY <1>1, <1>3 DEF ReadStage, ReadLooked
  <2> QED
    BY <1>1, <2>1 DEF Read!Next, Read!GiveUp
<1> QED
  BY <1>2, <1>3 DEF EndBatch1

\* The snapshot has the purchase that was seen.
LEMMA REndBatch2 ==
  ASSUME EndBatch2
  PROVE  [Read!Next]_(Read!readVars)
<1>1. step = "batch2" /\ step' = "returned" /\ UNCHANGED <<purchase, value>>
  BY DEF EndBatch2, chainVars, callVars
<1>2. ReadStage = "parties" /\ ReadLooked = value["purchases"]
  BY <1>1 DEF ReadStage, ReadLooked
<1>3. CASE snapshot' = None
  <2>1. ReadStage' = "failed" /\ ReadLooked' = None
    BY <1>1, <1>3 DEF ReadStage, ReadLooked
  <2> QED
    BY <1>1, <1>2, <2>1 DEF Read!Next, Read!GiveUp
<1>4. CASE snapshot' # None
  <2>1. snapshot'.purchase = value["purchases"]
    BY <1>4 DEF EndBatch2
  <2>2. ReadStage' = "returned" /\ ReadLooked' = value["purchases"]
    BY <1>1, <1>4, <2>1 DEF ReadStage, ReadLooked
  <2> QED
    BY <1>1, <1>2, <2>2 DEF Read!Next, Read!Return
<1> QED
  BY <1>3, <1>4

\* A read that is dropped by the timeout around it has failed.
LEMMA RDropped ==
  ASSUME FInv, Dropped
  PROVE  [Read!Next]_(Read!readVars)
<1>1. /\ step \in {"batch1", "batch2"} /\ step' = "dropped"
      /\ UNCHANGED <<purchase, snapshot>> /\ snapshot = None
  BY DEF Dropped, chainVars, FInv
<1>2. ReadStage \in {"chain", "parties"} /\ ReadStage' = "failed" /\ ReadLooked' = None
  BY <1>1 DEF ReadStage, ReadLooked
<1> QED
  BY <1>1, <1>2 DEF Read!Next, Read!GiveUp

\* ReadsAtOneMoment holds of every behaviour: read_escrow implements the read that a
\* settlement relies on, whatever retries, failures and transactions interleave.
THEOREM ReaderImplementsRead == Spec => ReadsAtOneMoment
<1>1. Init => Read!Init
  BY DEF Init, Read!Init, ReadStage, ReadLooked
<1>2. CInv /\ FInv /\ [Next]_vars => [Read!Next]_(Read!readVars)
  <2> SUFFICES ASSUME CInv, FInv, [Next]_vars
               PROVE  [Read!Next]_(Read!readVars)
    OBVIOUS
  <2>1. ASSUME NEW c \in Call, CallStep(c)
        PROVE  [Read!Next]_(Read!readVars)
    BY <2>1, RAnswered, ROtherCall DEF CallStep
  <2>2. CASE Tick \/ UNCHANGED vars
    <3>1. UNCHANGED <<purchase, step, state, value, snapshot>>
      BY <2>2 DEF Tick, vars, chainVars, callVars
    <3>2. ReadStage' = ReadStage /\ ReadLooked' = ReadLooked
      BY <3>1 DEF ReadStage, ReadLooked, SeenActive
    <3> QED
      BY <3>1, <3>2, RStutter
  <2> QED
    BY <2>1, <2>2, RChain, RBegin, REndBatch1, REndBatch2, RDropped DEF Next, Done
<1> QED
  BY <1>1, <1>2, CallInvariance, ValueInvariance, PTL DEF Spec, ReadsAtOneMoment, Read!Spec
=============================================================================
