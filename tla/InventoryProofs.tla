-------------------------- MODULE InventoryProofs ---------------------------
(***************************************************************************)
(* Safety of InventoryAttestation for any number of requests, accounts,    *)
(* assets, proxies, pages, and for any timeouts and capacity.              *)
(***************************************************************************)
EXTENDS InventoryAttestation, TLAPS

Active(q) == pc[q] \notin {"idle", "done"}

\* What a phase says about the request and its timer.
PhaseInv ==
  \A q \in Request :
    /\ answer[q] = None <=> pc[q] # "done"
    /\ Active(q) => key[q] \in Key
    /\ pc[q] \in {"sent", "served", "signing"} => now <= until[q] /\ until[q] <= now + RequestTimeout
    /\ pc[q] \in {"served", "signing"} => reply[q] \in Reply
    /\ pc[q] = "signing" => reply[q].found

\* An asset was seen in an inventory at most RequestTimeout before time t.
SeenBy(k, t) ==
  /\ owner[k[2]] = k[1]
  /\ leftAt[k[2]] # None => t <= leftAt[k[2]] + RequestTimeout

\* A page that has the asset arrives, and an attestation is cached, no later than
\* RequestTimeout after the asset has left.
SeenInv ==
  /\ \A q \in Request : pc[q] \in {"served", "signing"} /\ reply[q].found => SeenBy(key[q], until[q])
  /\ \A k \in Key : cache[k] # None => cache[k] <= now /\ SeenBy(k, cache[k])

\* An asset that stays is never behind the cursor: the pages so far did not have it
\* because it is still to come.
ScanInv ==
  \A q \in Request :
    there[q] =>
      /\ Active(q) /\ InInventory(key[q])
      /\ key[q][2] > cursor[q]
      /\ pc[q] = "served" /\ ~reply[q].found => reply[q].more /\ key[q][2] > reply[q].last

\* The proxies before the index are one use ahead of the others.
RotationInv ==
  \A p, r \in 0..(pool - 1) :
    uses[p] = IF p < current_index /\ r >= current_index THEN uses[r] + 1
              ELSE IF p >= current_index /\ r < current_index THEN uses[r] - 1
              ELSE uses[r]

IInv == StateTypes /\ PhaseInv /\ SeenInv /\ ScanInv

-----------------------------------------------------------------------------
LEMMA NoneNotNat == None \notin Nat /\ RequestTimeout \in Nat /\ Ttl \in Nat /\ Asset \subseteq Nat
  BY InventoryAssumption DEF InventoryAssumption

LEMMA InitTypes == Init => StateTypes
  BY InventoryAssumption DEF InventoryAssumption, Init, StateTypes, Key

\* A failed or rate-limited attempt waits some time, or ends the request.
Waits(q) ==
  /\ \E w \in Nat : Sleeps(q, w)
  /\ UNCHANGED <<page, cursor, attempt, begun, answer, there>>

LEMMA FailShape ==
  ASSUME StateTypes, NEW q \in Request, SendFails(q) \/ RateLimited(q)
  PROVE  pc[q] = "sent" /\ (Waits(q) \/ Answers(q, "ERROR"))
  <1>1. Backoff(attempt[q]) \in Nat /\ BaseWait \in Nat /\ RateWait \in Nat
    <2>1. BaseWait \in Nat /\ RateWait \in Nat /\ attempt[q] \in Nat
      BY InventoryAssumption DEF InventoryAssumption, StateTypes
    <2>2. CASE attempt[q] = 0
      BY <2>1, <2>2 DEF Backoff
    <2>3. CASE attempt[q] = 1
      BY <2>1, <2>3 DEF Backoff
    <2>4. CASE attempt[q] = 2
      BY <2>1, <2>4 DEF Backoff
    <2>5. CASE attempt[q] \notin {0, 1, 2}
      BY <2>1, <2>5 DEF Backoff
    <2>6. QED
      BY <2>2, <2>3, <2>4, <2>5
  <1>2. CASE SendFails(q)
    <2>1. (IF pool > 0 THEN BaseWait ELSE Backoff(attempt[q])) \in Nat
      BY <1>1
    <2>2. QED
      BY <1>2, <2>1 DEF SendFails, Waits
  <1>3. CASE RateLimited(q)
    <2>1. (IF pool > 0 THEN RateWait ELSE Backoff(attempt[q])) \in Nat
      BY <1>1
    <2>2. QED
      BY <1>3, <2>1 DEF RateLimited, Waits
  <1>4. QED
    BY <1>2, <1>3

\* A page is on its way: what it says about the asset that is looked for.
PageShape(q, rep) ==
  /\ reply' = [reply EXCEPT ![q] = rep]
  /\ rep.found => InInventory(key[q])
  /\ InInventory(key[q]) /\ key[q][2] > cursor[q] /\ ~rep.found =>
       rep.more /\ key[q][2] > rep.last

LEMMA ServedShape ==
  ASSUME StateTypes, PhaseInv, NEW q \in Request, ServesPage(q)
  PROVE  \E rep \in Reply : PageShape(q, rep)
  <1> DEFINE rest == {a \in Asset : a > cursor[q] /\ InInventory(<<key[q][1], a>>)}
             assets(last) == {a \in rest : a <= last}
             Rep(last) == [found |-> key[q][2] \in assets(last), more |-> assets(last) # rest,
                           last |-> last]
  <1>1. PICK last \in rest \cup {cursor[q]} : reply' = [reply EXCEPT ![q] = Rep(last)]
    BY DEF ServesPage
  <1>2. last \in Nat /\ cursor[q] \in Nat
    <2>1. cursor[q] \in Nat
      BY DEF StateTypes
    <2>2. rest \subseteq Nat
      BY NoneNotNat
    <2>3. QED
      BY <1>1, <2>1, <2>2
  <1>3. key[q] = <<key[q][1], key[q][2]>> /\ key[q][2] \in Asset /\ key[q][2] \in Nat
    <2>1. key[q] \in Account \X Asset
      BY DEF ServesPage, PhaseInv, Active, Key
    <2>2. PICK w \in Account, a \in Asset : key[q] = <<w, a>>
      BY <2>1
    <2>3. QED
      BY <2>2, NoneNotNat
  <1>4. Rep(last) \in Reply
    BY <1>2 DEF Reply
  <1>5. Rep(last).found => InInventory(key[q])
    BY <1>3
  <1>6. InInventory(key[q]) /\ key[q][2] > cursor[q] /\ ~Rep(last).found =>
          Rep(last).more /\ key[q][2] > Rep(last).last
    <2>1. SUFFICES ASSUME InInventory(key[q]), key[q][2] > cursor[q], key[q][2] \notin assets(last)
                   PROVE  assets(last) # rest /\ key[q][2] > last
      OBVIOUS
    <2>2. key[q][2] \in rest
      BY <1>3, <2>1
    <2>3. QED
      BY <1>2, <1>3, <2>1, <2>2
  <1> HIDE DEF Rep
  <1>7. QED
    BY <1>1, <1>4, <1>5, <1>6 DEF PageShape

\* Every action keeps the types.
LEMMA TypesStep ==
  ASSUME StateTypes, PhaseInv, [Next]_vars
  PROVE  StateTypes'
  <1> USE InventoryAssumption DEF InventoryAssumption, Code
  <1>1. ASSUME NEW a \in Asset, AssetLeaves(a) PROVE StateTypes'
    BY <1>1 DEF AssetLeaves, steamVars, proxyVars, cacheVars, fetchVars, reqVars, StateTypes, PhaseInv, Active, Key, Reply
  <1>2. ASSUME NEW a \in Asset, NEW w \in Account, AssetArrives(a, w) PROVE StateTypes'
    BY <1>2 DEF AssetArrives, steamVars, proxyVars, cacheVars, fetchVars, reqVars, StateTypes, PhaseInv, Active, Key, Reply
  <1>3. ASSUME NEW q \in Request, ServesPage(q) PROVE StateTypes'
    <2>1. PICK rep \in Reply : PageShape(q, rep)
      BY <1>3, ServedShape
    <2>2. QED
      BY <1>3, <2>1 DEF ServesPage, PageShape, steamVars, proxyVars, cacheVars, StateTypes, PhaseInv, Active, Key, Reply, Code
  <1>4. ASSUME NEW q \in Request, NEW k \in Asked, CacheHit(q, k) PROVE StateTypes'
    BY <1>4 DEF CacheHit, Arrives, CacheGet, Answers, steamVars, proxyVars, cacheVars, fetchVars, reqVars, StateTypes, PhaseInv, Active, Key, Reply
  <1>5. ASSUME NEW q \in Request, NEW k \in Asked, CacheMiss(q, k) PROVE StateTypes'
    <2>1. k \in Key /\ InInventory(k) \in BOOLEAN
      BY <1>5 DEF InInventory
    <2>2. there' \in [Request -> BOOLEAN]
      BY <1>5, <2>1 DEF CacheMiss, StateTypes
    <2>3. /\ pc' \in [Request -> {"idle", "sent", "served", "sleeping", "signing", "done"}]
          /\ page' \in [Request -> Nat] /\ cursor' \in [Request -> Nat]
          /\ attempt' \in [Request -> Nat] /\ until' \in [Request -> Nat]
          /\ reply' \in [Request -> Reply \cup {None}]
      BY <1>5 DEF CacheMiss, Asks, StateTypes
    <2>4. /\ cache' \in [Key -> Nat \cup {None}] /\ key' \in [Request -> Key \cup {None}]
          /\ begun' \in [Request -> Nat]
      BY <1>5, <2>1 DEF CacheMiss, Arrives, CacheMissed, StateTypes
    <2>5. UNCHANGED <<now, moves, owner, leftAt, pool, current_index, uses, answer>>
      BY <1>5 DEF CacheMiss, steamVars, proxyVars
    <2>6. QED
      BY <2>2, <2>3, <2>4, <2>5 DEF StateTypes
  <1>6. ASSUME NEW q \in Request, ItemFound(q) PROVE StateTypes'
    BY <1>6 DEF ItemFound, steamVars, proxyVars, cacheVars, fetchVars, reqVars, StateTypes, PhaseInv, Active, Key, Reply
  <1>7. ASSUME NEW q \in Request, ItemUndescribed(q) PROVE StateTypes'
    BY <1>7 DEF ItemUndescribed, Answers, steamVars, proxyVars, cacheVars, fetchVars, reqVars, StateTypes, PhaseInv, Active, Key, Reply
  <1>8. ASSUME NEW q \in Request, NextPage(q) PROVE StateTypes'
    <2>1. reply[q].last \in Nat
      BY <1>8 DEF NextPage, PageMisses, PhaseInv, Reply
    <2>2. /\ pc' \in [Request -> {"idle", "sent", "served", "sleeping", "signing", "done"}]
          /\ page' \in [Request -> Nat] /\ cursor' \in [Request -> Nat]
          /\ attempt' \in [Request -> Nat] /\ until' \in [Request -> Nat]
          /\ reply' \in [Request -> Reply \cup {None}]
      <3>1. page[q] + 1 \in Nat /\ now + RequestTimeout \in Nat
        BY DEF StateTypes
      <3>2. Asks(q, page[q] + 1, reply[q].last)
        BY <1>8 DEF NextPage
      <3>3. page' \in [Request -> Nat] /\ cursor' \in [Request -> Nat]
        BY <2>1, <3>1, <3>2 DEF Asks, StateTypes
      <3>4. attempt' \in [Request -> Nat] /\ until' \in [Request -> Nat]
        BY <3>1, <3>2 DEF Asks, StateTypes
      <3>5. /\ pc' \in [Request -> {"idle", "sent", "served", "sleeping", "signing", "done"}]
            /\ reply' \in [Request -> Reply \cup {None}]
        BY <3>2 DEF Asks, StateTypes
      <3>6. QED
        BY <3>3, <3>4, <3>5
    <2>3. UNCHANGED <<now, moves, owner, leftAt, pool, current_index, uses, cache, key, begun, answer, there>>
      BY <1>8 DEF NextPage, steamVars, proxyVars, cacheVars
    <2>4. QED
      BY <2>2, <2>3 DEF StateTypes
  <1>9. ASSUME NEW q \in Request, PageLimit(q) PROVE StateTypes'
    BY <1>9 DEF PageLimit, PageMisses, Answers, steamVars, proxyVars, cacheVars, fetchVars, reqVars, StateTypes, PhaseInv, Active, Key, Reply
  <1>10. ASSUME NEW q \in Request, NotFound(q) PROVE StateTypes'
    BY <1>10 DEF NotFound, PageMisses, Answers, steamVars, proxyVars, cacheVars, fetchVars, reqVars, StateTypes, PhaseInv, Active, Key, Reply
  <1>11. ASSUME NEW q \in Request, Signed(q) PROVE StateTypes'
    BY <1>11 DEF Signed, CacheInsert, Answers, steamVars, proxyVars, cacheVars, fetchVars, reqVars, StateTypes, PhaseInv, Active, Key, Reply
  <1>12. ASSUME NEW q \in Request, AttestFails(q) PROVE StateTypes'
    BY <1>12 DEF AttestFails, Answers, steamVars, proxyVars, cacheVars, fetchVars, reqVars, StateTypes, PhaseInv, Active, Key, Reply
  <1>13. ASSUME NEW q \in Request, SendFails(q) PROVE StateTypes'
    <2> USE <1>13 DEF steamVars, proxyVars, cacheVars, StateTypes, PhaseInv, Active, Key, Reply, Code
    <2>1. pc[q] = "sent" /\ (Waits(q) \/ Answers(q, "ERROR"))
      BY FailShape
    <2>2. UNCHANGED <<now, steamVars, proxyVars, cacheVars, key>>
      BY DEF SendFails
    <2>3. CASE Answers(q, "ERROR")
      BY <2>1, <2>2, <2>3 DEF Answers
    <2>4. CASE Waits(q)
      <3>1. PICK w \in Nat : Sleeps(q, w)
        BY <2>4 DEF Waits
      <3>2. now + w \in Nat
        BY <3>1
      <3>3. /\ pc' \in [Request -> {"idle", "sent", "served", "sleeping", "signing", "done"}]
            /\ until' \in [Request -> Nat] /\ reply' \in [Request -> Reply \cup {None}]
        BY <3>1, <3>2 DEF Sleeps
      <3>4. UNCHANGED <<page, cursor, attempt, begun, answer, there>>
        BY <2>4 DEF Waits
      <3>5. QED
        BY <2>2, <3>3, <3>4
    <2>5. QED
      BY <2>1, <2>3, <2>4
  <1>14. ASSUME NEW q \in Request, RateLimited(q) PROVE StateTypes'
    <2> USE <1>14 DEF steamVars, proxyVars, cacheVars, StateTypes, PhaseInv, Active, Key, Reply, Code
    <2>1. pc[q] = "sent" /\ (Waits(q) \/ Answers(q, "ERROR"))
      BY FailShape
    <2>2. UNCHANGED <<now, steamVars, proxyVars, cacheVars, key>>
      BY DEF RateLimited
    <2>3. CASE Answers(q, "ERROR")
      BY <2>1, <2>2, <2>3 DEF Answers
    <2>4. CASE Waits(q)
      <3>1. PICK w \in Nat : Sleeps(q, w)
        BY <2>4 DEF Waits
      <3>2. now + w \in Nat
        BY <3>1
      <3>3. /\ pc' \in [Request -> {"idle", "sent", "served", "sleeping", "signing", "done"}]
            /\ until' \in [Request -> Nat] /\ reply' \in [Request -> Reply \cup {None}]
        BY <3>1, <3>2 DEF Sleeps
      <3>4. UNCHANGED <<page, cursor, attempt, begun, answer, there>>
        BY <2>4 DEF Waits
      <3>5. QED
        BY <2>2, <3>3, <3>4
    <2>5. QED
      BY <2>1, <2>3, <2>4
  <1>15. ASSUME NEW q \in Request, Refused(q) PROVE StateTypes'
    BY <1>15 DEF Refused, Answers, steamVars, proxyVars, cacheVars, fetchVars, reqVars, StateTypes, PhaseInv, Active, Key, Reply
  <1>16. ASSUME NEW q \in Request, BodyFails(q) PROVE StateTypes'
    BY <1>16 DEF BodyFails, Answers, steamVars, proxyVars, cacheVars, fetchVars, reqVars, StateTypes, PhaseInv, Active, Key, Reply
  <1>17. ASSUME NEW q \in Request, Retries(q) PROVE StateTypes'
    <2>1. /\ pool' = pool /\ uses' \in [0..(pool - 1) -> Nat]
          /\ current_index' \in Nat /\ (current_index' < pool \/ current_index' = 0)
      <3>1. CASE pool > 0
        <4>1. current_index \in 0..(pool - 1)
          BY <3>1 DEF StateTypes
        <4>2. (current_index + 1) % pool \in 0..(pool - 1)
          BY <3>1, <4>1 DEF StateTypes
        <4>3. NextProxy(q) /\ pool \in Nat /\ uses \in [0..(pool - 1) -> Nat]
          BY <1>17, <3>1 DEF Retries, StateTypes
        <4>4. uses' \in [0..(pool - 1) -> Nat]
          BY <4>1, <4>3 DEF NextProxy
        <4>5. QED
          BY <4>2, <4>3, <4>4 DEF NextProxy
      <3>2. CASE ~(pool > 0)
        BY <1>17, <3>2 DEF Retries, proxyVars, StateTypes
      <3>3. QED
        BY <3>1, <3>2
    <2>2. /\ pc' \in [Request -> {"idle", "sent", "served", "sleeping", "signing", "done"}]
          /\ attempt' \in [Request -> Nat] /\ until' \in [Request -> Nat]
      BY <1>17 DEF Retries, CountAttempt, StateTypes
    <2>3. UNCHANGED <<now, moves, owner, leftAt, cache, page, cursor, reply, key, begun, answer, there>>
      BY <1>17 DEF Retries, steamVars, cacheVars
    <2>4. QED
      BY <2>1, <2>2, <2>3 DEF StateTypes
  <1>18. ASSUME NEW q \in Request, Dropped(q) PROVE StateTypes'
    BY <1>18 DEF Dropped, Answers, steamVars, proxyVars, cacheVars, fetchVars, reqVars, StateTypes, PhaseInv, Active, Key, Reply
  <1>19. CASE Tick
    BY <1>19 DEF Tick, Waiting, steamVars, proxyVars, cacheVars, fetchVars, reqVars, StateTypes, PhaseInv, Active, Key, Reply
  <1>20. CASE UNCHANGED vars
    BY <1>20 DEF vars, steamVars, proxyVars, cacheVars, fetchVars, reqVars, StateTypes, PhaseInv, Active, Key, Reply
  <1>21. QED
    BY <1>1, <1>2, <1>3, <1>4, <1>5, <1>6, <1>7, <1>8, <1>9, <1>10, <1>11, <1>12, <1>13, <1>14, <1>15, <1>16, <1>17, <1>18, <1>19, <1>20 DEF Next, SteamStep, RequestStep, Quiescent

\* Every action keeps timers and phases together; the clock stops for a timer that is due.
LEMMA PhaseStep ==
  ASSUME StateTypes, PhaseInv, [Next]_vars
  PROVE  PhaseInv'
  <1> USE InventoryAssumption DEF InventoryAssumption, Code
  <1>1. ASSUME NEW a \in Asset, AssetLeaves(a) PROVE PhaseInv'
    BY <1>1 DEF AssetLeaves, steamVars, proxyVars, cacheVars, fetchVars, reqVars, StateTypes, PhaseInv, Active, Key, Reply
  <1>2. ASSUME NEW a \in Asset, NEW w \in Account, AssetArrives(a, w) PROVE PhaseInv'
    BY <1>2 DEF AssetArrives, steamVars, proxyVars, cacheVars, fetchVars, reqVars, StateTypes, PhaseInv, Active, Key, Reply
  <1>3. ASSUME NEW q \in Request, ServesPage(q) PROVE PhaseInv'
    BY <1>3 DEF ServesPage, steamVars, proxyVars, cacheVars, fetchVars, reqVars, StateTypes, PhaseInv, Active, Key, Reply
  <1>4. ASSUME NEW q \in Request, NEW k \in Asked, CacheHit(q, k) PROVE PhaseInv'
    BY <1>4 DEF CacheHit, Arrives, CacheGet, Answers, steamVars, proxyVars, cacheVars, fetchVars, reqVars, StateTypes, PhaseInv, Active, Key, Reply
  <1>5. ASSUME NEW q \in Request, NEW k \in Asked, CacheMiss(q, k) PROVE PhaseInv'
    BY <1>5 DEF CacheMiss, Arrives, CacheMissed, Asks, steamVars, proxyVars, cacheVars, fetchVars, reqVars, StateTypes, PhaseInv, Active, Key, Reply
  <1>6. ASSUME NEW q \in Request, ItemFound(q) PROVE PhaseInv'
    BY <1>6 DEF ItemFound, steamVars, proxyVars, cacheVars, fetchVars, reqVars, StateTypes, PhaseInv, Active, Key, Reply
  <1>7. ASSUME NEW q \in Request, ItemUndescribed(q) PROVE PhaseInv'
    BY <1>7 DEF ItemUndescribed, Answers, steamVars, proxyVars, cacheVars, fetchVars, reqVars, StateTypes, PhaseInv, Active, Key, Reply
  <1>8. ASSUME NEW q \in Request, NextPage(q) PROVE PhaseInv'
    BY <1>8 DEF NextPage, PageMisses, Asks, steamVars, proxyVars, cacheVars, fetchVars, reqVars, StateTypes, PhaseInv, Active, Key, Reply
  <1>9. ASSUME NEW q \in Request, PageLimit(q) PROVE PhaseInv'
    BY <1>9 DEF PageLimit, PageMisses, Answers, steamVars, proxyVars, cacheVars, fetchVars, reqVars, StateTypes, PhaseInv, Active, Key, Reply
  <1>10. ASSUME NEW q \in Request, NotFound(q) PROVE PhaseInv'
    BY <1>10 DEF NotFound, PageMisses, Answers, steamVars, proxyVars, cacheVars, fetchVars, reqVars, StateTypes, PhaseInv, Active, Key, Reply
  <1>11. ASSUME NEW q \in Request, Signed(q) PROVE PhaseInv'
    BY <1>11 DEF Signed, CacheInsert, Answers, steamVars, proxyVars, cacheVars, fetchVars, reqVars, StateTypes, PhaseInv, Active, Key, Reply
  <1>12. ASSUME NEW q \in Request, AttestFails(q) PROVE PhaseInv'
    BY <1>12 DEF AttestFails, Answers, steamVars, proxyVars, cacheVars, fetchVars, reqVars, StateTypes, PhaseInv, Active, Key, Reply
  <1>13. ASSUME NEW q \in Request, SendFails(q) PROVE PhaseInv'
    <2> USE <1>13 DEF steamVars, proxyVars, cacheVars, StateTypes, PhaseInv, Active, Key, Reply, Code
    <2>1. pc[q] = "sent" /\ (Waits(q) \/ Answers(q, "ERROR"))
      BY FailShape
    <2>2. UNCHANGED <<now, steamVars, proxyVars, cacheVars, key>>
      BY DEF SendFails
    <2>3. CASE Answers(q, "ERROR")
      BY <2>1, <2>2, <2>3 DEF Answers
    <2>4. CASE Waits(q)
      <3>1. PICK w \in Nat : Sleeps(q, w)
        BY <2>4 DEF Waits
      <3>2. QED
        BY <2>1, <2>2, <2>4, <3>1 DEF Waits, Sleeps
    <2>5. QED
      BY <2>1, <2>3, <2>4
  <1>14. ASSUME NEW q \in Request, RateLimited(q) PROVE PhaseInv'
    <2> USE <1>14 DEF steamVars, proxyVars, cacheVars, StateTypes, PhaseInv, Active, Key, Reply, Code
    <2>1. pc[q] = "sent" /\ (Waits(q) \/ Answers(q, "ERROR"))
      BY FailShape
    <2>2. UNCHANGED <<now, steamVars, proxyVars, cacheVars, key>>
      BY DEF RateLimited
    <2>3. CASE Answers(q, "ERROR")
      BY <2>1, <2>2, <2>3 DEF Answers
    <2>4. CASE Waits(q)
      <3>1. PICK w \in Nat : Sleeps(q, w)
        BY <2>4 DEF Waits
      <3>2. QED
        BY <2>1, <2>2, <2>4, <3>1 DEF Waits, Sleeps
    <2>5. QED
      BY <2>1, <2>3, <2>4
  <1>15. ASSUME NEW q \in Request, Refused(q) PROVE PhaseInv'
    BY <1>15 DEF Refused, Answers, steamVars, proxyVars, cacheVars, fetchVars, reqVars, StateTypes, PhaseInv, Active, Key, Reply
  <1>16. ASSUME NEW q \in Request, BodyFails(q) PROVE PhaseInv'
    BY <1>16 DEF BodyFails, Answers, steamVars, proxyVars, cacheVars, fetchVars, reqVars, StateTypes, PhaseInv, Active, Key, Reply
  <1>17. ASSUME NEW q \in Request, Retries(q) PROVE PhaseInv'
    BY <1>17 DEF Retries, NextProxy, CountAttempt, steamVars, proxyVars, cacheVars, fetchVars, reqVars, StateTypes, PhaseInv, Active, Key, Reply
  <1>18. ASSUME NEW q \in Request, Dropped(q) PROVE PhaseInv'
    BY <1>18 DEF Dropped, Answers, steamVars, proxyVars, cacheVars, fetchVars, reqVars, StateTypes, PhaseInv, Active, Key, Reply
  <1>19. CASE Tick
    BY <1>19 DEF Tick, Waiting, steamVars, proxyVars, cacheVars, fetchVars, reqVars, StateTypes, PhaseInv, Active, Key, Reply
  <1>20. CASE UNCHANGED vars
    BY <1>20 DEF vars, steamVars, proxyVars, cacheVars, fetchVars, reqVars, StateTypes, PhaseInv, Active, Key, Reply
  <1>21. QED
    BY <1>1, <1>2, <1>3, <1>4, <1>5, <1>6, <1>7, <1>8, <1>9, <1>10, <1>11, <1>12, <1>13, <1>14, <1>15, <1>16, <1>17, <1>18, <1>19, <1>20 DEF Next, SteamStep, RequestStep, Quiescent

\* The request has no page afterwards, and the others keep theirs.
Quiet(q) ==
  /\ pc'[q] \notin {"served", "signing"}
  /\ \A r \in Request \ {q} : pc'[r] = pc[r] /\ reply'[r] = reply[r] /\ until'[r] = until[r]

LEMMA AnswersQuiet ==
  ASSUME StateTypes, NEW q \in Request, NEW code, Answers(q, code)
  PROVE  Quiet(q)
  BY DEF StateTypes, Answers, Quiet

LEMMA AsksQuiet ==
  ASSUME StateTypes, NEW q \in Request, NEW p, NEW c, Asks(q, p, c)
  PROVE  Quiet(q)
  BY DEF StateTypes, Asks, Quiet

LEMMA WaitsQuiet ==
  ASSUME StateTypes, NEW q \in Request, Waits(q)
  PROVE  Quiet(q)
  BY DEF StateTypes, Waits, Sleeps, Quiet

\* A step that loses pages and cache entries and gains none keeps SeenInv.
LEMMA SeenKept ==
  ASSUME SeenInv, NEW q \in Request, Quiet(q), UNCHANGED <<now, owner, leftAt>>,
         \A k \in Key : cache'[k] \in {cache[k], None},
         \A r \in Request \ {q} : key'[r] = key[r]
  PROVE  SeenInv'
  <1>1. ASSUME NEW k, NEW t PROVE SeenBy(k, t)' <=> SeenBy(k, t)
    BY DEF SeenBy
  <1>2. ASSUME NEW r \in Request, pc'[r] \in {"served", "signing"}, reply'[r].found
        PROVE  SeenBy(key[r], until[r]) /\ key'[r] = key[r] /\ until'[r] = until[r]
    BY <1>2 DEF SeenInv, Quiet
  <1>3. ASSUME NEW k \in Key, cache'[k] # None
        PROVE  cache[k] <= now /\ SeenBy(k, cache[k]) /\ cache'[k] = cache[k]
    BY <1>3 DEF SeenInv
  <1>4. QED
    BY <1>2, <1>3 DEF SeenInv, SeenBy

\* Every action keeps what was seen in step with what has left.
LEMMA SeenStep ==
  ASSUME StateTypes, PhaseInv, SeenInv, [Next]_vars
  PROVE  SeenInv'
  <1> USE InventoryAssumption DEF InventoryAssumption, Code
  <1>1. ASSUME NEW a \in Asset, AssetLeaves(a) PROVE SeenInv'
    <2>1. /\ UNCHANGED <<now, owner, cache, pc, reply, key, until>>
          /\ leftAt' = [leftAt EXCEPT ![a] = now] /\ leftAt[a] = None
      BY <1>1 DEF AssetLeaves, cacheVars, fetchVars
    \* Everything seen so far was seen at most RequestTimeout before now.
    <2>2. ASSUME NEW k \in Key, NEW t \in Nat, t <= now + RequestTimeout, SeenBy(k, t)
          PROVE  SeenBy(k, t)'
      <3>1. k[2] \in Asset /\ now \in Nat
        BY DEF Key, StateTypes
      <3>2. leftAt'[k[2]] = IF k[2] = a THEN now ELSE leftAt[k[2]]
        BY <2>1, <3>1 DEF StateTypes
      <3>3. QED
        BY <2>1, <2>2, <3>1, <3>2 DEF SeenBy
    <2>3. ASSUME NEW q \in Request, pc[q] \in {"served", "signing"}, reply[q].found
          PROVE  SeenBy(key[q], until[q])'
      <3>1. key[q] \in Key /\ until[q] \in Nat /\ until[q] <= now + RequestTimeout
        BY <2>3 DEF PhaseInv, Active, StateTypes
      <3>2. SeenBy(key[q], until[q])
        BY <2>3 DEF SeenInv
      <3>3. SeenBy(key[q], until[q])' <=> (owner'[key[q][2]] = key[q][1] /\ (leftAt'[key[q][2]] # None => until[q] <= leftAt'[key[q][2]] + RequestTimeout))
        BY <2>1 DEF SeenBy
      <3>4. QED
        BY <2>2, <3>1, <3>2, <3>3 DEF SeenBy
    <2>4. ASSUME NEW k \in Key, cache[k] # None
          PROVE  cache[k] <= now /\ SeenBy(k, cache[k])'
      <3>1. cache[k] \in Nat /\ now \in Nat /\ cache[k] <= now /\ SeenBy(k, cache[k])
        BY <2>4 DEF SeenInv, StateTypes
      <3>2. cache[k] <= now + RequestTimeout
        BY <3>1
      <3>3. owner'[k[2]] = k[1] /\ (leftAt'[k[2]] # None => cache[k] <= leftAt'[k[2]] + RequestTimeout)
        BY <2>2, <3>1, <3>2 DEF SeenBy
      <3>4. QED
        BY <2>1, <3>1, <3>3 DEF SeenBy
    <2>5. QED
      BY <2>1, <2>3, <2>4 DEF SeenInv
  <1>2. ASSUME NEW a \in Asset, NEW w \in Account, AssetArrives(a, w) PROVE SeenInv'
    <2>1. ASSUME NEW k \in Key, NEW t, SeenBy(k, t) PROVE SeenBy(k, t)'
      BY <1>2, <2>1 DEF AssetArrives, SeenBy, Key, StateTypes
    <2>2. \A q \in Request : pc[q] \in {"served", "signing"} => key[q] \in Key
      BY DEF PhaseInv, Active
    <2>3. UNCHANGED <<now, cache, pc, reply, key, until>>
      BY <1>2 DEF AssetArrives, cacheVars, fetchVars, reqVars
    <2>4. QED
      BY <2>1, <2>2, <2>3 DEF SeenInv, SeenBy
  <1>3. ASSUME NEW q \in Request, ServesPage(q) PROVE SeenInv'
    <2>1. PICK rep \in Reply : PageShape(q, rep)
      BY <1>3, ServedShape
    <2>2. UNCHANGED <<now, owner, leftAt, cache, key, until>> /\ pc' = [pc EXCEPT ![q] = "served"]
      BY <1>3 DEF ServesPage, steamVars, cacheVars
    <2>3. ASSUME NEW r \in Request, pc'[r] \in {"served", "signing"}, reply'[r].found
          PROVE  SeenBy(key[r], until[r])
      <3>1. CASE r = q
        <4>1. rep.found
          BY <2>1, <2>3, <3>1 DEF PageShape, StateTypes
        <4>2. InInventory(key[q])
          BY <2>1, <4>1 DEF PageShape
        <4>3. QED
          BY <3>1, <4>2 DEF InInventory, SeenBy
      <3>2. CASE r # q
        BY <2>1, <2>2, <2>3, <3>2 DEF PageShape, SeenInv, StateTypes
      <3>3. QED
        BY <3>1, <3>2
    <2>4. QED
      BY <2>2, <2>3 DEF SeenInv, SeenBy
  <1>4. ASSUME NEW q \in Request, NEW k \in Asked, CacheHit(q, k) PROVE SeenInv'
    <2>1. Answers(q, "200") /\ UNCHANGED <<now, owner, leftAt, cache>> /\ key' = [key EXCEPT ![q] = k]
      BY <1>4 DEF CacheHit, Arrives, CacheGet, steamVars
    <2>2. \A r \in Request \ {q} : key'[r] = key[r]
      BY <2>1 DEF StateTypes
    <2>3. QED
      BY <2>1, <2>2, AnswersQuiet, SeenKept
  <1>5. ASSUME NEW q \in Request, NEW k \in Asked, CacheMiss(q, k) PROVE SeenInv'
    <2>1. /\ Asks(q, 1, 0) /\ UNCHANGED <<now, owner, leftAt>>
          /\ key' = [key EXCEPT ![q] = k] /\ cache' = [cache EXCEPT ![k] = None]
      BY <1>5 DEF CacheMiss, Arrives, CacheMissed, steamVars
    <2>2. /\ \A r \in Request \ {q} : key'[r] = key[r]
          /\ \A j \in Key : cache'[j] \in {cache[j], None}
      BY <2>1 DEF StateTypes
    <2>3. QED
      BY <2>1, <2>2, AsksQuiet, SeenKept
  <1>6. ASSUME NEW q \in Request, ItemFound(q) PROVE SeenInv'
    <2>1. UNCHANGED <<now, owner, leftAt, cache, key, reply, until>> /\ pc[q] = "served"
          /\ pc' = [pc EXCEPT ![q] = "signing"]
      BY <1>6 DEF ItemFound, steamVars, cacheVars, fetchVars
    <2>2. \A r \in Request : pc'[r] \in {"served", "signing"} => pc[r] \in {"served", "signing"}
      BY <2>1 DEF StateTypes
    <2>3. QED
      BY <2>1, <2>2 DEF SeenInv, SeenBy
  <1>7. ASSUME NEW q \in Request, ItemUndescribed(q) PROVE SeenInv'
    <2>1. Answers(q, "ERROR") /\ UNCHANGED <<now, owner, leftAt, cache, key>>
      BY <1>7 DEF ItemUndescribed, steamVars, cacheVars
    <2>2. QED
      BY <2>1, AnswersQuiet, SeenKept
  <1>8. ASSUME NEW q \in Request, NextPage(q) PROVE SeenInv'
    <2>1. Asks(q, page[q] + 1, reply[q].last) /\ UNCHANGED <<now, owner, leftAt, cache, key>>
      BY <1>8 DEF NextPage, steamVars, cacheVars
    <2>2. QED
      BY <2>1, AsksQuiet, SeenKept
  <1>9. ASSUME NEW q \in Request, PageLimit(q) PROVE SeenInv'
    <2>1. Answers(q, "ERROR") /\ UNCHANGED <<now, owner, leftAt, cache, key>>
      BY <1>9 DEF PageLimit, steamVars, cacheVars
    <2>2. QED
      BY <2>1, AnswersQuiet, SeenKept
  <1>10. ASSUME NEW q \in Request, NotFound(q) PROVE SeenInv'
    <2>1. Answers(q, "ASSET_NOT_FOUND") /\ UNCHANGED <<now, owner, leftAt, cache, key>>
      BY <1>10 DEF NotFound, steamVars, cacheVars
    <2>2. QED
      BY <2>1, AnswersQuiet, SeenKept
  <1>11. ASSUME NEW q \in Request, Signed(q) PROVE SeenInv'
    <2>1. UNCHANGED <<now, owner, leftAt, key>> /\ key[q] \in Key
      BY <1>11 DEF Signed, steamVars, PhaseInv, Active
    <2>2. ASSUME NEW k \in Key, cache'[k] # None
          PROVE  cache'[k] <= now /\ SeenBy(k, cache'[k])
      <3>1. cache'[k] = IF k = key[q] THEN now ELSE cache[k]
        BY <1>11, <2>2 DEF Signed, CacheInsert
      <3>2. CASE k = key[q]
        <4>1. reply[q].found /\ now <= until[q] /\ SeenBy(key[q], until[q])
          BY <1>11 DEF Signed, PhaseInv, SeenInv
        <4>2. leftAt[k[2]] \in Nat \cup {None} /\ now \in Nat /\ until[q] \in Nat
          BY <2>1, <3>2 DEF StateTypes, Key
        <4>3. QED
          BY <3>1, <3>2, <4>1, <4>2 DEF SeenBy
      <3>3. CASE k # key[q]
        BY <2>2, <3>1, <3>3 DEF SeenInv
      <3>4. QED
        BY <3>2, <3>3
    <2>3. ASSUME NEW r \in Request, pc'[r] \in {"served", "signing"}, reply'[r].found
          PROVE  SeenBy(key[r], until'[r])
      BY <1>11, <2>3 DEF Signed, Answers, SeenInv, StateTypes
    <2>4. QED
      BY <2>1, <2>2, <2>3 DEF SeenInv, SeenBy
  <1>12. ASSUME NEW q \in Request, AttestFails(q) PROVE SeenInv'
    <2>1. Answers(q, "ERROR") /\ UNCHANGED <<now, owner, leftAt, cache, key>>
      BY <1>12 DEF AttestFails, steamVars, cacheVars
    <2>2. QED
      BY <2>1, AnswersQuiet, SeenKept
  <1>13. ASSUME NEW q \in Request, SendFails(q) PROVE SeenInv'
    <2>1. UNCHANGED <<now, owner, leftAt, cache, key>>
      BY <1>13 DEF SendFails, steamVars, cacheVars
    <2>2. Quiet(q)
      BY <1>13, FailShape, WaitsQuiet, AnswersQuiet
    <2>3. QED
      BY <2>1, <2>2, SeenKept
  <1>14. ASSUME NEW q \in Request, RateLimited(q) PROVE SeenInv'
    <2>1. UNCHANGED <<now, owner, leftAt, cache, key>>
      BY <1>14 DEF RateLimited, steamVars, cacheVars
    <2>2. Quiet(q)
      BY <1>14, FailShape, WaitsQuiet, AnswersQuiet
    <2>3. QED
      BY <2>1, <2>2, SeenKept
  <1>15. ASSUME NEW q \in Request, Refused(q) PROVE SeenInv'
    <2>1. Answers(q, "ERROR") /\ UNCHANGED <<now, owner, leftAt, cache, key>>
      BY <1>15 DEF Refused, steamVars, cacheVars
    <2>2. QED
      BY <2>1, AnswersQuiet, SeenKept
  <1>16. ASSUME NEW q \in Request, BodyFails(q) PROVE SeenInv'
    <2>1. Answers(q, "ERROR") /\ UNCHANGED <<now, owner, leftAt, cache, key>>
      BY <1>16 DEF BodyFails, steamVars, cacheVars
    <2>2. QED
      BY <2>1, AnswersQuiet, SeenKept
  <1>17. ASSUME NEW q \in Request, Retries(q) PROVE SeenInv'
    <2>1. UNCHANGED <<now, owner, leftAt, cache, key>>
      BY <1>17 DEF Retries, steamVars, cacheVars
    <2>2. Quiet(q)
      BY <1>17 DEF Retries, StateTypes, Quiet
    <2>3. QED
      BY <2>1, <2>2, SeenKept
  <1>18. ASSUME NEW q \in Request, Dropped(q) PROVE SeenInv'
    <2>1. Answers(q, "gone") /\ UNCHANGED <<now, owner, leftAt, cache, key>>
      BY <1>18 DEF Dropped, steamVars, cacheVars
    <2>2. QED
      BY <2>1, AnswersQuiet, SeenKept
  <1>19. CASE Tick
    BY <1>19 DEF Tick, Waiting, steamVars, proxyVars, cacheVars, fetchVars, reqVars, StateTypes, PhaseInv, SeenInv, SeenBy, InInventory, Fresh, Active, Key, Reply
  <1>20. CASE UNCHANGED vars
    BY <1>20 DEF vars, steamVars, proxyVars, cacheVars, fetchVars, reqVars, StateTypes, PhaseInv, SeenInv, SeenBy, InInventory, Fresh, Active, Key, Reply
  <1>21. QED
    BY <1>1, <1>2, <1>3, <1>4, <1>5, <1>6, <1>7, <1>8, <1>9, <1>10, <1>11, <1>12, <1>13, <1>14, <1>15, <1>16, <1>17, <1>18, <1>19, <1>20 DEF Next, SteamStep, RequestStep, Quiescent

\* Every action keeps an asset that stays ahead of the cursor.
LEMMA ScanStep ==
  ASSUME StateTypes, PhaseInv, ScanInv, [Next]_vars
  PROVE  ScanInv'
  <1> USE InventoryAssumption DEF InventoryAssumption, Code
  <1>1. ASSUME NEW a \in Asset, AssetLeaves(a) PROVE ScanInv'
    BY <1>1 DEF AssetLeaves, steamVars, proxyVars, cacheVars, fetchVars, reqVars, StateTypes, PhaseInv, ScanInv, InInventory, Active, Key, Reply
  <1>2. ASSUME NEW a \in Asset, NEW w \in Account, AssetArrives(a, w) PROVE ScanInv'
    BY <1>2 DEF AssetArrives, steamVars, proxyVars, cacheVars, fetchVars, reqVars, StateTypes, PhaseInv, ScanInv, InInventory, Active, Key, Reply
  <1>3. ASSUME NEW q \in Request, ServesPage(q) PROVE ScanInv'
    <2>1. PICK rep \in Reply : PageShape(q, rep)
      BY <1>3, ServedShape
    <2>2. UNCHANGED <<owner, leftAt, key, cursor, there>> /\ pc' = [pc EXCEPT ![q] = "served"]
      BY <1>3 DEF ServesPage, steamVars
    <2>3. ASSUME NEW r \in Request, there[r]
          PROVE  /\ pc'[r] \notin {"idle", "done"} /\ InInventory(key[r])
                 /\ key[r][2] > cursor[r]
                 /\ pc'[r] = "served" /\ ~reply'[r].found => reply'[r].more /\ key[r][2] > reply'[r].last
      <3>1. Active(r) /\ InInventory(key[r]) /\ key[r][2] > cursor[r]
        BY <2>3 DEF ScanInv
      <3>2. CASE r = q
        <4>1. pc'[r] = "served" /\ reply'[r] = rep
          BY <2>1, <2>2, <3>2 DEF PageShape, StateTypes
        <4>2. ~rep.found => rep.more /\ key[q][2] > rep.last
          BY <2>1, <3>1, <3>2 DEF PageShape
        <4>3. QED
          BY <3>1, <3>2, <4>1, <4>2
      <3>3. CASE r # q
        BY <2>1, <2>2, <2>3, <3>1, <3>3 DEF PageShape, ScanInv, StateTypes, Active
      <3>4. QED
        BY <3>2, <3>3
    <2>4. QED
      BY <2>2, <2>3 DEF ScanInv, Active, InInventory
  <1>4. ASSUME NEW q \in Request, NEW k \in Asked, CacheHit(q, k) PROVE ScanInv'
    BY <1>4 DEF CacheHit, Arrives, CacheGet, Answers, steamVars, proxyVars, cacheVars, fetchVars, reqVars, StateTypes, PhaseInv, ScanInv, InInventory, Active, Key, Reply
  <1>5. ASSUME NEW q \in Request, NEW k \in Asked, CacheMiss(q, k) PROVE ScanInv'
    <2>1. k \in Key /\ k[2] \in Nat \ {0}
      BY <1>5 DEF Key
    <2>2. UNCHANGED <<owner, leftAt>>
      BY <1>5 DEF CacheMiss, steamVars
    <2>3. ASSUME NEW r \in Request, there'[r]
          PROVE  /\ pc'[r] \notin {"idle", "done"} /\ InInventory(key'[r])
                 /\ key'[r][2] > cursor'[r]
                 /\ pc'[r] = "served" /\ ~reply'[r].found => reply'[r].more /\ key'[r][2] > reply'[r].last
      <3>1. CASE r = q
        BY <1>5, <2>1, <2>3, <3>1 DEF CacheMiss, Arrives, Asks, StateTypes
      <3>2. CASE r # q
        BY <1>5, <2>3, <3>2 DEF CacheMiss, Arrives, Asks, StateTypes, ScanInv, Active
      <3>3. QED
        BY <3>1, <3>2
    <2>4. QED
      BY <2>2, <2>3 DEF ScanInv, Active, InInventory
  <1>6. ASSUME NEW q \in Request, ItemFound(q) PROVE ScanInv'
    BY <1>6 DEF ItemFound, steamVars, proxyVars, cacheVars, fetchVars, reqVars, StateTypes, PhaseInv, ScanInv, InInventory, Active, Key, Reply
  <1>7. ASSUME NEW q \in Request, ItemUndescribed(q) PROVE ScanInv'
    BY <1>7 DEF ItemUndescribed, Answers, steamVars, proxyVars, cacheVars, fetchVars, reqVars, StateTypes, PhaseInv, ScanInv, InInventory, Active, Key, Reply
  <1>8. ASSUME NEW q \in Request, NextPage(q) PROVE ScanInv'
    <2>1. UNCHANGED <<owner, leftAt, key, there>>
      BY <1>8 DEF NextPage, steamVars
    <2>2. ASSUME NEW r \in Request, there[r]
          PROVE  /\ pc'[r] \notin {"idle", "done"}
                 /\ key[r][2] > cursor'[r]
                 /\ pc'[r] = "served" /\ ~reply'[r].found => reply'[r].more /\ key[r][2] > reply'[r].last
      <3>1. CASE r = q
        BY <1>8, <2>2, <3>1 DEF NextPage, PageMisses, Asks, StateTypes, ScanInv
      <3>2. CASE r # q
        BY <1>8, <2>2, <3>2 DEF NextPage, Asks, StateTypes, ScanInv, Active
      <3>3. QED
        BY <3>1, <3>2
    <2>3. QED
      BY <2>1, <2>2 DEF ScanInv, Active, InInventory
  <1>9. ASSUME NEW q \in Request, PageLimit(q) PROVE ScanInv'
    BY <1>9 DEF PageLimit, PageMisses, Answers, steamVars, proxyVars, cacheVars, fetchVars, reqVars, StateTypes, PhaseInv, ScanInv, InInventory, Active, Key, Reply
  <1>10. ASSUME NEW q \in Request, NotFound(q) PROVE ScanInv'
    BY <1>10 DEF NotFound, PageMisses, Answers, steamVars, proxyVars, cacheVars, fetchVars, reqVars, StateTypes, PhaseInv, ScanInv, InInventory, Active, Key, Reply
  <1>11. ASSUME NEW q \in Request, Signed(q) PROVE ScanInv'
    BY <1>11 DEF Signed, CacheInsert, Answers, steamVars, proxyVars, cacheVars, fetchVars, reqVars, StateTypes, PhaseInv, ScanInv, InInventory, Active, Key, Reply
  <1>12. ASSUME NEW q \in Request, AttestFails(q) PROVE ScanInv'
    BY <1>12 DEF AttestFails, Answers, steamVars, proxyVars, cacheVars, fetchVars, reqVars, StateTypes, PhaseInv, ScanInv, InInventory, Active, Key, Reply
  <1>13. ASSUME NEW q \in Request, SendFails(q) PROVE ScanInv'
    <2> USE <1>13 DEF steamVars, proxyVars, cacheVars, StateTypes, PhaseInv, ScanInv, Active, Key, Reply, InInventory
    <2>1. pc[q] = "sent" /\ (Waits(q) \/ Answers(q, "ERROR"))
      BY FailShape
    <2>2. UNCHANGED <<now, steamVars, proxyVars, cacheVars, key>>
      BY DEF SendFails
    <2>3. CASE Answers(q, "ERROR")
      BY <2>1, <2>2, <2>3 DEF Answers
    <2>4. CASE Waits(q)
      <3>1. PICK w \in Nat : Sleeps(q, w)
        BY <2>4 DEF Waits
      <3>2. QED
        BY <2>1, <2>2, <2>4, <3>1 DEF Waits, Sleeps
    <2>5. QED
      BY <2>1, <2>3, <2>4
  <1>14. ASSUME NEW q \in Request, RateLimited(q) PROVE ScanInv'
    <2> USE <1>14 DEF steamVars, proxyVars, cacheVars, StateTypes, PhaseInv, ScanInv, Active, Key, Reply, InInventory
    <2>1. pc[q] = "sent" /\ (Waits(q) \/ Answers(q, "ERROR"))
      BY FailShape
    <2>2. UNCHANGED <<now, steamVars, proxyVars, cacheVars, key>>
      BY DEF RateLimited
    <2>3. CASE Answers(q, "ERROR")
      BY <2>1, <2>2, <2>3 DEF Answers
    <2>4. CASE Waits(q)
      <3>1. PICK w \in Nat : Sleeps(q, w)
        BY <2>4 DEF Waits
      <3>2. QED
        BY <2>1, <2>2, <2>4, <3>1 DEF Waits, Sleeps
    <2>5. QED
      BY <2>1, <2>3, <2>4
  <1>15. ASSUME NEW q \in Request, Refused(q) PROVE ScanInv'
    BY <1>15 DEF Refused, Answers, steamVars, proxyVars, cacheVars, fetchVars, reqVars, StateTypes, PhaseInv, ScanInv, InInventory, Active, Key, Reply
  <1>16. ASSUME NEW q \in Request, BodyFails(q) PROVE ScanInv'
    BY <1>16 DEF BodyFails, Answers, steamVars, proxyVars, cacheVars, fetchVars, reqVars, StateTypes, PhaseInv, ScanInv, InInventory, Active, Key, Reply
  <1>17. ASSUME NEW q \in Request, Retries(q) PROVE ScanInv'
    BY <1>17 DEF Retries, NextProxy, CountAttempt, steamVars, proxyVars, cacheVars, fetchVars, reqVars, StateTypes, PhaseInv, ScanInv, InInventory, Active, Key, Reply
  <1>18. ASSUME NEW q \in Request, Dropped(q) PROVE ScanInv'
    BY <1>18 DEF Dropped, Answers, steamVars, proxyVars, cacheVars, fetchVars, reqVars, StateTypes, PhaseInv, ScanInv, InInventory, Active, Key, Reply
  <1>19. CASE Tick
    BY <1>19 DEF Tick, Waiting, steamVars, proxyVars, cacheVars, fetchVars, reqVars, StateTypes, PhaseInv, ScanInv, InInventory, Active, Key, Reply
  <1>20. CASE UNCHANGED vars
    BY <1>20 DEF vars, steamVars, proxyVars, cacheVars, fetchVars, reqVars, StateTypes, PhaseInv, ScanInv, InInventory, Active, Key, Reply
  <1>21. QED
    BY <1>1, <1>2, <1>3, <1>4, <1>5, <1>6, <1>7, <1>8, <1>9, <1>10, <1>11, <1>12, <1>13, <1>14, <1>15, <1>16, <1>17, <1>18, <1>19, <1>20 DEF Next, SteamStep, RequestStep, Quiescent

LEMMA InitIInv == Init => IInv
  <1> SUFFICES ASSUME Init PROVE IInv
    OBVIOUS
  <1>1. StateTypes
    BY InitTypes
  <1>2. PhaseInv
    BY DEF Init, PhaseInv, Active
  <1>3. SeenInv /\ ScanInv
    BY DEF Init, SeenInv, ScanInv
  <1>4. QED
    BY <1>1, <1>2, <1>3 DEF IInv

\* The inductive invariant holds in every reachable state.
THEOREM Invariance == Spec => []IInv
  <1>1. IInv /\ [Next]_vars => IInv'
    BY TypesStep, PhaseStep, SeenStep, ScanStep DEF IInv
  <1>2. QED
    BY InitIInv, <1>1, PTL DEF Spec

-----------------------------------------------------------------------------
\* Only two actions answer 200: a hit of the cache, and a signature.
LEMMA WhoAttests ==
  ASSUME IInv, [Next]_vars, NEW q \in Request, answer[q] = None, answer'[q] = "200"
  PROVE  (\E k \in Asked : CacheHit(q, k)) \/ Signed(q)
  <1> USE InventoryAssumption DEF InventoryAssumption, Code
  <1>1. "200" # None
    OBVIOUS
  <1>2. ASSUME NEW r \in Request, NEW c \in Code, Answers(r, c), r # q \/ c # "200" PROVE FALSE
    BY <1>1, <1>2 DEF Answers, IInv, StateTypes
  <1>3. answer' # answer
    BY <1>1
  <1>4. PICK r \in Request : RequestStep(r)
    BY <1>3 DEF Next, SteamStep, AssetLeaves, AssetArrives, ServesPage, Tick, Quiescent, vars, reqVars
  <1>5. CASE \E k \in Asked : CacheHit(r, k)
    BY <1>2, <1>5 DEF CacheHit
  <1>6. CASE Signed(r)
    BY <1>2, <1>6 DEF Signed
  <1>7. CASE SendFails(r) \/ RateLimited(r)
    <2>1. Answers(r, "ERROR")
      BY <1>3, <1>7, FailShape DEF Waits, IInv
    <2>2. QED
      BY <1>2, <2>1
  <1>8. CASE ItemUndescribed(r) \/ PageLimit(r) \/ NotFound(r) \/ AttestFails(r)
             \/ Refused(r) \/ BodyFails(r) \/ Dropped(r)
    BY <1>2, <1>8 DEF ItemUndescribed, PageLimit, NotFound, AttestFails, Refused, BodyFails, Dropped
  <1>9. CASE (\E k \in Asked : CacheMiss(r, k)) \/ ItemFound(r) \/ NextPage(r) \/ Retries(r)
    BY <1>3, <1>9 DEF CacheMiss, ItemFound, NextPage, Retries
  <1>10. QED
    BY <1>4, <1>5, <1>6, <1>7, <1>8, <1>9 DEF RequestStep

\* An attestation that attest_handler gives is at most the cache TTL and one request
\* timeout older than the asset's departure, whatever the interleaving of requests.
THEOREM StaleBound == Spec => StaleAttestationBounded
  <1> DEFINE Step == \A q \in Request :
               answer[q] = None /\ answer'[q] = "200" =>
                 LET a == key'[q][2] IN
                 /\ owner[a] = key'[q][1]
                 /\ leftAt[a] # None => now <= leftAt[a] + Ttl + RequestTimeout
  <1>1. IInv /\ [Next]_vars => Step
    <2> SUFFICES ASSUME IInv, [Next]_vars, NEW q \in Request, answer[q] = None, answer'[q] = "200"
                 PROVE  /\ owner[key'[q][2]] = key'[q][1]
                        /\ leftAt[key'[q][2]] # None =>
                             now <= leftAt[key'[q][2]] + Ttl + RequestTimeout
      OBVIOUS
    <2>1. ASSUME NEW k \in Asked, CacheHit(q, k)
          PROVE  k \in Key /\ key'[q] = k /\ \E t \in Nat : SeenBy(k, t) /\ now <= t + Ttl
      <3>1. k \in Key /\ key'[q] = k
        BY <2>1, InventoryAssumption DEF InventoryAssumption, CacheHit, Arrives, IInv, StateTypes
      <3>2. cache[k] \in Nat /\ SeenBy(k, cache[k]) /\ now - cache[k] <= Ttl
        BY <2>1, <3>1 DEF CacheHit, Fresh, IInv, SeenInv, StateTypes
      <3>3. now <= cache[k] + Ttl
        BY <3>2, NoneNotNat DEF IInv, StateTypes
      <3>4. QED
        BY <3>1, <3>2, <3>3
    <2>2. ASSUME Signed(q)
          PROVE  key[q] \in Key /\ key'[q] = key[q] /\ \E t \in Nat : SeenBy(key[q], t) /\ now <= t + Ttl
      <3>1. key[q] \in Key /\ key'[q] = key[q] /\ SeenBy(key[q], until[q]) /\ now <= until[q]
        BY <2>2 DEF Signed, IInv, PhaseInv, SeenInv, Active
      <3>2. until[q] \in Nat /\ now <= until[q] + Ttl
        BY <3>1, NoneNotNat DEF IInv, StateTypes
      <3>3. QED
        BY <3>1, <3>2
    <2>3. PICK t \in Nat : key'[q] \in Key /\ SeenBy(key'[q], t) /\ now <= t + Ttl
      BY WhoAttests, <2>1, <2>2
    <2>4. leftAt[key'[q][2]] \in Nat \cup {None}
      BY <2>3 DEF Key, IInv, StateTypes
    <2>5. ASSUME leftAt[key'[q][2]] # None
          PROVE  now <= leftAt[key'[q][2]] + Ttl + RequestTimeout
      <3>1. leftAt[key'[q][2]] \in Nat /\ now \in Nat /\ t <= leftAt[key'[q][2]] + RequestTimeout
        BY <2>3, <2>4, <2>5 DEF SeenBy, IInv, StateTypes
      <3>2. QED
        BY <2>3, <3>1, NoneNotNat
    <2>6. QED
      BY <2>3, <2>5 DEF SeenBy
  <1>2. QED
    BY <1>1, Invariance, PTL DEF Spec, StaleAttestationBounded

\* Only find_asset's last page answers ASSET_NOT_FOUND.
LEMMA WhoMisses ==
  ASSUME IInv, [Next]_vars, NEW q \in Request, answer[q] = None, answer'[q] = "ASSET_NOT_FOUND"
  PROVE  NotFound(q)
  <1> USE InventoryAssumption DEF InventoryAssumption, Code
  <1>1. "ASSET_NOT_FOUND" # None
    OBVIOUS
  <1>2. ASSUME NEW r \in Request, NEW c \in Code, Answers(r, c), r # q \/ c # "ASSET_NOT_FOUND"
        PROVE FALSE
    BY <1>1, <1>2 DEF Answers, IInv, StateTypes
  <1>3. answer' # answer
    BY <1>1
  <1>4. PICK r \in Request : RequestStep(r)
    BY <1>3 DEF Next, SteamStep, AssetLeaves, AssetArrives, ServesPage, Tick, Quiescent, vars, reqVars
  <1>5. CASE NotFound(r)
    BY <1>2, <1>5 DEF NotFound
  <1>6. CASE SendFails(r) \/ RateLimited(r)
    <2>1. Answers(r, "ERROR")
      BY <1>3, <1>6, FailShape DEF Waits, IInv
    <2>2. QED
      BY <1>2, <2>1
  <1>7. CASE (\E k \in Asked : CacheHit(r, k)) \/ Signed(r) \/ ItemUndescribed(r) \/ PageLimit(r)
             \/ AttestFails(r) \/ Refused(r) \/ BodyFails(r) \/ Dropped(r)
    BY <1>2, <1>7 DEF CacheHit, Signed, ItemUndescribed, PageLimit, AttestFails, Refused, BodyFails, Dropped
  <1>8. CASE (\E k \in Asked : CacheMiss(r, k)) \/ ItemFound(r) \/ NextPage(r) \/ Retries(r)
    BY <1>3, <1>8 DEF CacheMiss, ItemFound, NextPage, Retries
  <1>9. QED
    BY <1>4, <1>5, <1>6, <1>7, <1>8 DEF RequestStep

\* ASSET_NOT_FOUND means that the asset was absent at some time of the request,
\* although find_asset reads the inventory page by page while it changes.
THEOREM NotFoundSound == Spec => NotFoundMeansAbsent
  <1> DEFINE Step == \A q \in Request :
               answer[q] = None /\ answer'[q] = "ASSET_NOT_FOUND" => ~there[q]
  <1>1. IInv /\ [Next]_vars => Step
    <2> SUFFICES ASSUME IInv, [Next]_vars, NEW q \in Request,
                        answer[q] = None, answer'[q] = "ASSET_NOT_FOUND", there[q]
                 PROVE  FALSE
      OBVIOUS
    <2>1. NotFound(q)
      BY WhoMisses
    <2>2. QED
      BY <2>1 DEF NotFound, PageMisses, IInv, ScanInv
  <1>2. QED
    BY <1>1, Invariance, PTL DEF Spec, NotFoundMeansAbsent

-----------------------------------------------------------------------------
\* Only a retry through a proxy moves the index.
LEMMA WhoRotates ==
  ASSUME [Next]_vars
  PROVE  UNCHANGED proxyVars \/ (pool > 0 /\ \E q \in Request : NextProxy(q))
  <1> USE DEF Next, SteamStep, RequestStep, Quiescent, vars, proxyVars
  <1>1. CASE \E q \in Request : Retries(q)
    BY <1>1 DEF Retries
  <1>2. CASE \E q \in Request : RequestStep(q) /\ ~Retries(q)
    BY <1>2 DEF CacheHit, CacheMiss, ItemFound, ItemUndescribed, NextPage, PageLimit, NotFound,
       Signed, AttestFails, SendFails, RateLimited, Refused, BodyFails, Dropped
  <1>3. CASE SteamStep \/ Tick \/ UNCHANGED vars
    BY <1>3 DEF AssetLeaves, AssetArrives, ServesPage, Tick
  <1>4. QED
    BY <1>1, <1>2, <1>3

LEMMA RotationStep ==
  ASSUME StateTypes, RotationInv, [Next]_vars
  PROVE  RotationInv'
  <1>1. CASE UNCHANGED proxyVars
    BY <1>1 DEF proxyVars, RotationInv
  <1>2. ASSUME pool > 0, NEW q \in Request, NextProxy(q) PROVE RotationInv'
    <2>1. /\ pool \in Nat /\ pool' = pool
          /\ current_index \in 0..(pool - 1) /\ uses \in [0..(pool - 1) -> Nat]
      BY <1>2 DEF StateTypes, NextProxy
    <2>2. current_index' = IF current_index = pool - 1 THEN 0 ELSE current_index + 1
      <3>1. CASE current_index = pool - 1
        BY <1>2, <2>1, <3>1 DEF NextProxy
      <3>2. CASE current_index # pool - 1
        BY <1>2, <2>1, <3>2 DEF NextProxy
      <3>3. QED
        BY <3>1, <3>2
    <2>3. \A p \in 0..(pool - 1) : uses'[p] = IF p = current_index THEN uses[p] + 1 ELSE uses[p]
      BY <1>2, <2>1 DEF NextProxy
    <2>4. SUFFICES ASSUME NEW p \in 0..(pool - 1), NEW r \in 0..(pool - 1)
                   PROVE  uses'[p] = IF p < current_index' /\ r >= current_index' THEN uses'[r] + 1
                            ELSE IF p >= current_index' /\ r < current_index' THEN uses'[r] - 1
                            ELSE uses'[r]
      BY <2>1 DEF RotationInv
    <2>5. uses[p] \in Nat /\ uses[r] \in Nat
      BY <2>1
    <2>6. uses[p] = IF p < current_index /\ r >= current_index THEN uses[r] + 1
                    ELSE IF p >= current_index /\ r < current_index THEN uses[r] - 1
                    ELSE uses[r]
      BY DEF RotationInv
    <2>7. QED
      BY <2>1, <2>2, <2>3, <2>5, <2>6
  <1>3. QED
    BY <1>1, <1>2, WhoRotates

\* The proxy pool is used evenly by all the retries of all the requests together.
THEOREM RotationIsEven == Spec => []RotationEven
  <1>1. Init => RotationInv
    BY DEF Init, RotationInv
  <1>2. IInv /\ RotationInv /\ [Next]_vars => RotationInv'
    BY RotationStep DEF IInv
  <1>3. IInv /\ RotationInv => RotationEven
    <2> SUFFICES ASSUME IInv, RotationInv, NEW p \in 0..(pool - 1), NEW r \in 0..(pool - 1)
                 PROVE  uses[p] <= uses[r] + 1
      BY DEF RotationEven
    <2>1. uses[p] \in Nat /\ uses[r] \in Nat
      BY DEF IInv, StateTypes
    <2>2. QED
      BY <2>1 DEF RotationInv
  <1>4. QED
    BY <1>1, <1>2, <1>3, Invariance, PTL DEF Spec

-----------------------------------------------------------------------------
(* Time *)

\* The longest wait after attempt a, and what a attempts take with the waits after them.
Longest(a) == IF pool > 0 THEN BaseWait ELSE Backoff(a)

Spent(a) ==
  (a * RequestTimeout)
    + (IF pool > 0 THEN a * BaseWait
       ELSE IF a = 0 THEN 0 ELSE IF a = 1 THEN Backoff(0) ELSE Backoff(0) + Backoff(1))

\* When the current attempt of q was sent at the latest.
SentBy(q) == begun[q] + ((page[q] - 1) * FetchTime) + Spent(attempt[q])

\* The timer of a request never runs past what its pages and attempts so far allow.
Timed(q) ==
  Active(q) =>
    /\ page[q] >= 1 /\ page[q] <= MAX_PAGES /\ attempt[q] < MaxAttempts
    /\ pc[q] # "sleeping" => until[q] <= SentBy(q) + RequestTimeout
    /\ pc[q] = "sleeping" =>
         /\ AttemptsLeft(q) /\ now <= until[q]
         /\ until[q] <= SentBy(q) + RequestTimeout + Longest(attempt[q])

TimeInv == \A q \in Request : Timed(q)

LEMMA TimesMonotone ==
  ASSUME NEW m \in Nat, NEW n \in Nat, NEW k \in Nat, m <= n
  PROVE  m * k <= n * k /\ m * k \in Nat
  <1>1. PICK d \in Nat : n = m + d
    <2>1. n - m \in Nat /\ n = m + (n - m)
      OBVIOUS
    <2>2. QED
      BY <2>1
  <1>2. n * k = (m * k) + (d * k) /\ d * k \in Nat /\ m * k \in Nat
    BY <1>1
  <1>3. QED
    BY <1>2

LEMMA TimesNext ==
  ASSUME NEW m \in Nat, NEW k \in Nat
  PROVE  (m + 1) * k = (m * k) + k
  OBVIOUS

LEMMA Backoffs ==
  /\ Backoff(0) = BaseWait /\ Backoff(1) = BaseWait * 2
  /\ Backoff(0) \in Nat /\ Backoff(1) \in Nat /\ BaseWait \in Nat /\ RequestTimeout \in Nat
  BY InventoryAssumption DEF InventoryAssumption, Backoff

LEMMA AttemptsType ==
  ASSUME pool \in Nat
  PROVE  /\ MaxAttempts \in Nat \ {0} /\ MaxAttempts - 1 \in Nat
         /\ ~(pool > 0) => MaxAttempts = 3
  BY DEF MaxAttempts

LEMMA FetchTimeType ==
  ASSUME pool \in Nat
  PROVE  FetchTime \in Nat
  <1>1. MaxAttempts * RequestTimeout \in Nat /\ (MaxAttempts - 1) * BaseWait \in Nat
    BY AttemptsType, Backoffs, TimesMonotone
  <1>2. QED
    BY <1>1, Backoffs DEF FetchTime

LEMMA SpentType ==
  ASSUME pool \in Nat, NEW a \in Nat
  PROVE  Spent(a) \in Nat
  <1>1. a * RequestTimeout \in Nat /\ a * BaseWait \in Nat
    BY Backoffs, TimesMonotone
  <1>2. QED
    BY <1>1, Backoffs DEF Spent

LEMMA SpentZero ==
  ASSUME pool \in Nat
  PROVE  Spent(0) = 0
  BY Backoffs DEF Spent

LEMMA LongestType ==
  ASSUME pool \in Nat, NEW a \in Nat, a + 1 < MaxAttempts
  PROVE  Longest(a) \in Nat
  <1>1. CASE pool > 0
    BY <1>1, Backoffs DEF Longest
  <1>2. CASE ~(pool > 0)
    <2>1. a = 0 \/ a = 1
      BY <1>2, AttemptsType
    <2>2. QED
      BY <1>2, <2>1, Backoffs DEF Longest
  <1>3. QED
    BY <1>1, <1>2

\* One more attempt and its wait.
LEMMA SpentNext ==
  ASSUME pool \in Nat, NEW a \in Nat, a + 1 < MaxAttempts
  PROVE  Spent(a + 1) = Spent(a) + RequestTimeout + Longest(a)
  <1>1. /\ (a + 1) * RequestTimeout = (a * RequestTimeout) + RequestTimeout
        /\ (a + 1) * BaseWait = (a * BaseWait) + BaseWait
        /\ a * RequestTimeout \in Nat /\ a * BaseWait \in Nat
    BY Backoffs, TimesNext, TimesMonotone
  <1>2. CASE pool > 0
    BY <1>1, <1>2, Backoffs DEF Spent, Longest
  <1>3. CASE ~(pool > 0)
    <2>1. a = 0 \/ a = 1
      BY <1>3, AttemptsType
    <2>2. CASE a = 0
      BY <1>1, <1>3, <2>2, Backoffs DEF Spent, Longest
    <2>3. CASE a = 1
      BY <1>1, <1>3, <2>3, Backoffs DEF Spent, Longest
    <2>4. QED
      BY <2>1, <2>2, <2>3
  <1>4. QED
    BY <1>2, <1>3

\* The last attempt ends within the time of a page.
LEMMA SpentLast ==
  ASSUME pool \in Nat, NEW a \in Nat, a < MaxAttempts
  PROVE  Spent(a) + RequestTimeout <= FetchTime
  <1>1. MaxAttempts \in Nat /\ MaxAttempts - 1 \in Nat /\ a + 1 <= MaxAttempts /\ a <= MaxAttempts - 1
    BY AttemptsType
  <1>2. /\ (a + 1) * RequestTimeout <= MaxAttempts * RequestTimeout
        /\ a * BaseWait <= (MaxAttempts - 1) * BaseWait
    BY <1>1, Backoffs, TimesMonotone
  <1>3. (a + 1) * RequestTimeout = (a * RequestTimeout) + RequestTimeout
    BY Backoffs, TimesNext
  <1>4. /\ a * RequestTimeout \in Nat /\ a * BaseWait \in Nat
        /\ MaxAttempts * RequestTimeout \in Nat /\ (MaxAttempts - 1) * BaseWait \in Nat
    BY <1>1, Backoffs, TimesMonotone
  <1>5. CASE pool > 0
    BY <1>2, <1>3, <1>4, <1>5, Backoffs DEF Spent, FetchTime
  <1>6. CASE ~(pool > 0)
    BY <1>2, <1>3, <1>4, <1>6, Backoffs DEF Spent, FetchTime
  <1>7. QED
    BY <1>5, <1>6

\* The pool does not change, and neither do the bounds that depend on it.
LEMMA PoolKept ==
  ASSUME pool' = pool
  PROVE  /\ MaxAttempts' = MaxAttempts /\ FetchTime' = FetchTime
         /\ \A a : Spent(a)' = Spent(a) /\ Longest(a)' = Longest(a)
  <1>1. MaxAttempts' = MaxAttempts
    BY DEF MaxAttempts
  <1>2. QED
    BY <1>1 DEF FetchTime, Spent, Longest

\* What a step leaves alone of a request's timing.
SameTiming(r) ==
  /\ pc'[r] = pc[r] /\ begun'[r] = begun[r] /\ page'[r] = page[r]
  /\ attempt'[r] = attempt[r] /\ until'[r] = until[r]

LEMMA TimedKept ==
  ASSUME NEW r \in Request, Timed(r), SameTiming(r), pool' = pool, now' = now
  PROVE  Timed(r)'
  <1>1. SentBy(r)' = SentBy(r) /\ Longest(attempt[r])' = Longest(attempt[r])
    BY PoolKept DEF SentBy, SameTiming
  <1>2. MaxAttempts' = MaxAttempts /\ AttemptsLeft(r)' = AttemptsLeft(r)
    BY PoolKept DEF SameTiming, AttemptsLeft
  <1>3. Active(r)' = Active(r)
    BY DEF Active, SameTiming
  <1>4. QED
    BY <1>1, <1>2, <1>3 DEF Timed, SameTiming

\* A failed attempt waits no longer than foreseen, or it was the last one.
LEMMA FailTimed ==
  ASSUME StateTypes, NEW q \in Request, SendFails(q) \/ RateLimited(q)
  PROVE  \/ Answers(q, "ERROR")
         \/ /\ AttemptsLeft(q) /\ UNCHANGED <<page, attempt, begun>>
            /\ \E w \in Nat : Sleeps(q, w) /\ w <= Longest(attempt[q])
  <1>1. BaseWait \in Nat /\ RateWait \in Nat /\ RateWait <= BaseWait /\ attempt[q] \in Nat /\ pool \in Nat
    BY InventoryAssumption DEF InventoryAssumption, StateTypes
  <1>2. ASSUME AttemptsLeft(q) PROVE Longest(attempt[q]) \in Nat
    <2>1. attempt[q] + 1 < MaxAttempts
      BY <1>1, <1>2, AttemptsType DEF AttemptsLeft
    <2>2. QED
      BY <1>1, <2>1, LongestType
  <1>3. CASE SendFails(q)
    <2>1. (IF pool > 0 THEN BaseWait ELSE Backoff(attempt[q])) = Longest(attempt[q])
      BY DEF Longest
    <2>2. AttemptsLeft(q) => Longest(attempt[q]) <= Longest(attempt[q])
      BY <1>2
    <2>3. QED
      BY <1>2, <1>3, <2>1, <2>2 DEF SendFails
  <1>4. CASE RateLimited(q)
    <2> DEFINE w == IF pool > 0 THEN RateWait ELSE Backoff(attempt[q])
    <2>1. ASSUME AttemptsLeft(q) PROVE w \in Nat /\ w <= Longest(attempt[q])
      BY <1>1, <1>2, <2>1 DEF Longest
    <2>2. QED
      BY <1>4, <2>1 DEF RateLimited
  <1>5. QED
    BY <1>3, <1>4

\* A step of one request leaves the timing of the others alone.
LEMMA OthersTiming ==
  ASSUME StateTypes, NEW q \in Request, RequestStep(q)
  PROVE  pool' = pool /\ now' = now /\ \A r \in Request \ {q} : SameTiming(r)
  <1> USE DEF StateTypes, SameTiming, proxyVars, fetchVars
  <1>1. ASSUME NEW c, Answers(q, c) PROVE \A r \in Request \ {q} : SameTiming(r)
    BY <1>1 DEF Answers
  <1>2. ASSUME NEW k \in Asked, CacheHit(q, k) PROVE pool' = pool /\ now' = now /\ \A r \in Request \ {q} : SameTiming(r)
    BY <1>1, <1>2 DEF CacheHit
  <1>3. ASSUME NEW k \in Asked, CacheMiss(q, k) PROVE pool' = pool /\ now' = now /\ \A r \in Request \ {q} : SameTiming(r)
    BY <1>3 DEF CacheMiss, Asks
  <1>4. CASE ItemFound(q)
    BY <1>4 DEF ItemFound
  <1>5. CASE NextPage(q)
    BY <1>5 DEF NextPage, Asks
  <1>6. CASE ItemUndescribed(q) \/ PageLimit(q) \/ NotFound(q) \/ Signed(q) \/ AttestFails(q)
             \/ Refused(q) \/ BodyFails(q) \/ Dropped(q)
    BY <1>1, <1>6 DEF ItemUndescribed, PageLimit, NotFound, Signed, AttestFails, Refused, BodyFails, Dropped
  <1>7. CASE SendFails(q) \/ RateLimited(q)
    <2>1. UNCHANGED <<pool, now>>
      BY <1>7 DEF SendFails, RateLimited
    <2>2. CASE Answers(q, "ERROR")
      BY <1>1, <2>1, <2>2
    <2>3. ASSUME NEW w \in Nat, Sleeps(q, w), UNCHANGED <<page, attempt, begun>>
          PROVE  \A r \in Request \ {q} : SameTiming(r)
      BY <2>3 DEF Sleeps
    <2>4. QED
      BY <1>7, <2>1, <2>2, <2>3, FailTimed
  <1>8. CASE Retries(q)
    BY <1>8 DEF Retries, NextProxy, CountAttempt
  <1>9. QED
    BY <1>2, <1>3, <1>4, <1>5, <1>6, <1>7, <1>8 DEF RequestStep

\* A request's own steps: a new page, a wait and a retry start within the time that
\* the pages and attempts before them were given.
LEMMA OwnTiming ==
  ASSUME StateTypes, PhaseInv, TimeInv, NEW q \in Request, RequestStep(q)
  PROVE  Timed(q)'
  <1> DEFINE p == page[q]
             b == begun[q]
             F == FetchTime
  <1>1. /\ pool \in Nat /\ now \in Nat /\ p \in Nat /\ b \in Nat /\ attempt[q] \in Nat /\ until[q] \in Nat
        /\ RequestTimeout \in Nat /\ MAX_PAGES \in Nat \ {0} /\ MaxAttempts \in Nat \ {0}
        /\ F \in Nat /\ Spent(attempt[q]) \in Nat
    BY InventoryAssumption, AttemptsType, FetchTimeType, SpentType DEF InventoryAssumption, StateTypes
  <1>2. /\ pool' = pool /\ now' = now /\ MaxAttempts' = MaxAttempts /\ FetchTime' = F
        /\ \A a : Spent(a)' = Spent(a) /\ Longest(a)' = Longest(a)
    BY OthersTiming, PoolKept
  <1>3. Timed(q)
    BY DEF TimeInv
  <1>4. ASSUME NEW c, Answers(q, c) PROVE Timed(q)'
    <2>1. pc'[q] = "done"
      BY <1>4 DEF Answers, StateTypes
    <2>2. QED
      BY <2>1 DEF Timed, Active
  \* The first request for page n is sent now, and in time.
  <1>5. ASSUME NEW n \in Nat \ {0}, n <= MAX_PAGES, NEW c, Asks(q, n, c), begun'[q] \in Nat,
               now <= begun'[q] + ((n - 1) * F)
        PROVE  Timed(q)'
    <2>1. pc'[q] = "sent" /\ page'[q] = n /\ attempt'[q] = 0 /\ until'[q] = now + RequestTimeout
      BY <1>5 DEF Asks, StateTypes
    <2>2. (n - 1) * F \in Nat
      BY <1>1, TimesMonotone
    <2>3. SentBy(q)' = begun'[q] + ((n - 1) * F) + 0
      BY <1>1, <1>2, <2>1, SpentZero DEF SentBy
    <2>4. until'[q] <= SentBy(q)' + RequestTimeout
      BY <1>1, <1>5, <2>1, <2>2, <2>3
    <2>5. QED
      BY <1>1, <1>2, <1>5, <2>1, <2>4 DEF Timed
  <1>6. ASSUME NEW k \in Asked, CacheMiss(q, k) PROVE Timed(q)'
    <2>1. begun'[q] = now /\ Asks(q, 1, 0)
      BY <1>6 DEF CacheMiss, StateTypes
    <2>2. now <= now + ((1 - 1) * F) /\ 1 <= MAX_PAGES
      BY <1>1
    <2>3. QED
      BY <1>1, <1>5, <2>1, <2>2
  <1>7. ASSUME Active(q), pc[q] # "sleeping", now <= until[q]
        PROVE  /\ p >= 1 /\ p <= MAX_PAGES /\ (p - 1) * F \in Nat
               /\ now <= b + ((p - 1) * F) + Spent(attempt[q]) + RequestTimeout
               /\ attempt[q] < MaxAttempts
    <2>1. p >= 1 /\ p <= MAX_PAGES /\ attempt[q] < MaxAttempts /\ until[q] <= SentBy(q) + RequestTimeout
      BY <1>3, <1>7 DEF Timed
    <2>2. p - 1 \in Nat
      BY <1>1, <2>1
    <2>3. (p - 1) * F \in Nat
      BY <1>1, <2>2, TimesMonotone
    <2>4. QED
      BY <1>1, <1>7, <2>1, <2>3 DEF SentBy
  <1>8. CASE NextPage(q)
    <2>1. /\ pc[q] = "served" /\ p < MAX_PAGES /\ Asks(q, p + 1, reply[q].last)
          /\ begun'[q] = b /\ now <= until[q]
      BY <1>8 DEF NextPage, PageMisses, PhaseInv
    <2>2. now <= b + ((p - 1) * F) + Spent(attempt[q]) + RequestTimeout /\ p >= 1
          /\ (p - 1) * F \in Nat /\ Spent(attempt[q]) + RequestTimeout <= F
      BY <1>1, <1>7, <2>1, SpentLast DEF Active
    <2>3. ((p - 1) + 1) * F = ((p - 1) * F) + F
      BY <1>1, <2>2, TimesNext
    <2>4. (p - 1) + 1 = (p + 1) - 1
      BY <1>1
    <2>5. now <= b + (((p + 1) - 1) * F)
      BY <1>1, <2>2, <2>3, <2>4
    <2>6. p + 1 \in Nat \ {0} /\ p + 1 <= MAX_PAGES
      BY <1>1, <2>1
    <2>7. QED
      BY <1>1, <1>5, <2>1, <2>5, <2>6
  <1>9. CASE ItemFound(q)
    <2>1. /\ pc[q] = "served" /\ pc'[q] = "signing"
          /\ UNCHANGED <<begun, page, attempt, until>>
      BY <1>9 DEF ItemFound, fetchVars, StateTypes
    <2>2. SentBy(q)' = SentBy(q)
      BY <1>2, <2>1 DEF SentBy
    <2>3. QED
      BY <1>2, <1>3, <2>1, <2>2 DEF Timed, Active
  <1>10. CASE SendFails(q) \/ RateLimited(q)
    <2>1. CASE Answers(q, "ERROR")
      BY <1>4, <2>1
    <2>2. ASSUME AttemptsLeft(q), UNCHANGED <<page, attempt, begun>>, NEW w \in Nat, Sleeps(q, w),
                 w <= Longest(attempt[q])
          PROVE  Timed(q)'
      <3>1. pc[q] = "sent" /\ now <= until[q]
        BY <1>10 DEF SendFails, RateLimited, PhaseInv
      <3>2. pc'[q] = "sleeping" /\ until'[q] = now + w
        BY <2>2 DEF Sleeps, StateTypes
      <3>3. /\ p >= 1 /\ p <= MAX_PAGES /\ (p - 1) * F \in Nat /\ attempt[q] < MaxAttempts
            /\ now <= b + ((p - 1) * F) + Spent(attempt[q]) + RequestTimeout
        BY <1>7, <3>1 DEF Active
      <3>4. SentBy(q)' = b + ((p - 1) * F) + Spent(attempt[q]) /\ AttemptsLeft(q)'
        BY <1>2, <2>2 DEF SentBy, AttemptsLeft
      <3>5. attempt[q] + 1 < MaxAttempts /\ Longest(attempt[q]) \in Nat
        <4>1. attempt[q] + 1 < MaxAttempts
          BY <1>1, <2>2 DEF AttemptsLeft
        <4>2. QED
          BY <1>1, <4>1, LongestType
      <3>6. until'[q] <= SentBy(q)' + RequestTimeout + Longest(attempt[q])
        BY <1>1, <2>2, <3>2, <3>3, <3>4, <3>5
      <3>7. now <= until'[q]
        BY <1>1, <2>2, <3>2
      <3>8. QED
        BY <1>2, <2>2, <3>2, <3>3, <3>4, <3>6, <3>7 DEF Timed
    <2>3. QED
      BY <1>10, <2>1, <2>2, FailTimed
  <1>11. CASE Retries(q)
    <2>1. /\ pc[q] = "sleeping" /\ now >= until[q] /\ pc'[q] = "sent"
          /\ attempt'[q] = attempt[q] + 1 /\ until'[q] = now + RequestTimeout
          /\ UNCHANGED <<page, begun>>
      BY <1>11 DEF Retries, CountAttempt, StateTypes
    <2>2. /\ p >= 1 /\ p <= MAX_PAGES /\ AttemptsLeft(q) /\ now <= until[q]
          /\ until[q] <= SentBy(q) + RequestTimeout + Longest(attempt[q])
      BY <1>3, <2>1 DEF Timed, Active
    <2>3. attempt[q] + 1 < MaxAttempts
      BY <1>1, <2>2 DEF AttemptsLeft
    <2>4. /\ Spent(attempt[q] + 1) = Spent(attempt[q]) + RequestTimeout + Longest(attempt[q])
          /\ Longest(attempt[q]) \in Nat /\ (p - 1) * F \in Nat
      <3>1. p - 1 \in Nat
        BY <1>1, <2>2
      <3>2. QED
        BY <1>1, <2>3, <3>1, SpentNext, LongestType, TimesMonotone
    <2>5. SentBy(q)' = b + ((p - 1) * F) + Spent(attempt[q] + 1)
      BY <1>2, <2>1 DEF SentBy
    <2>6. SentBy(q) = b + ((p - 1) * F) + Spent(attempt[q])
      BY DEF SentBy
    <2>7. until'[q] <= SentBy(q)' + RequestTimeout
      BY <1>1, <2>1, <2>2, <2>4, <2>5, <2>6
    <2>8. QED
      BY <1>2, <2>1, <2>2, <2>3, <2>7 DEF Timed
  <1>12. CASE ItemUndescribed(q) \/ PageLimit(q) \/ NotFound(q) \/ Signed(q) \/ AttestFails(q)
              \/ Refused(q) \/ BodyFails(q) \/ Dropped(q) \/ \E k \in Asked : CacheHit(q, k)
    BY <1>4, <1>12 DEF ItemUndescribed, PageLimit, NotFound, Signed, AttestFails, Refused, BodyFails,
       Dropped, CacheHit
  <1>13. QED
    BY <1>6, <1>8, <1>9, <1>10, <1>11, <1>12 DEF RequestStep

LEMMA TimeStep ==
  ASSUME StateTypes, PhaseInv, TimeInv, [Next]_vars
  PROVE  TimeInv'
  <1>1. ASSUME NEW q \in Request, RequestStep(q) PROVE TimeInv'
    <2>1. ASSUME NEW r \in Request \ {q} PROVE Timed(r)'
      BY <1>1, OthersTiming, TimedKept DEF TimeInv
    <2>2. QED
      BY <1>1, <2>1, OwnTiming DEF TimeInv
  <1>2. ASSUME pool' = pool, now' = now, UNCHANGED <<pc, begun, page, attempt, until>> PROVE TimeInv'
    BY <1>2, TimedKept DEF TimeInv, SameTiming
  <1>3. CASE UNCHANGED vars
    BY <1>2, <1>3 DEF vars, proxyVars, fetchVars, reqVars
  <1>4. CASE \E a \in Asset : AssetLeaves(a) \/ \E w \in Account : AssetArrives(a, w)
    BY <1>2, <1>4 DEF AssetLeaves, AssetArrives, proxyVars, fetchVars, reqVars
  <1>5. ASSUME NEW q \in Request, ServesPage(q) PROVE TimeInv'
    <2>1. pool' = pool /\ now' = now /\ pc[q] = "sent" /\ pc' = [pc EXCEPT ![q] = "served"]
          /\ UNCHANGED <<begun, page, attempt, until>>
      BY <1>5 DEF ServesPage, proxyVars
    <2>2. ASSUME NEW r \in Request \ {q} PROVE Timed(r)'
      BY <2>1, TimedKept DEF TimeInv, SameTiming, StateTypes
    <2>3. SentBy(q)' = SentBy(q) /\ MaxAttempts' = MaxAttempts
      BY <2>1, PoolKept DEF SentBy
    <2>4. pc'[q] = "served" /\ Timed(q)
      BY <2>1 DEF TimeInv, StateTypes
    <2>5. Timed(q)'
      BY <2>1, <2>3, <2>4 DEF Timed, Active
    <2>6. QED
      BY <2>2, <2>5 DEF TimeInv
  <1>6. CASE Tick
    <2>1. pool' = pool /\ now' = now + 1 /\ UNCHANGED <<pc, begun, page, attempt, until>>
      BY <1>6 DEF Tick, proxyVars, fetchVars, reqVars
    <2>2. ASSUME NEW r \in Request PROVE Timed(r)'
      <3>1. Timed(r) /\ (pc[r] = "sleeping" => now < until[r]) /\ now \in Nat /\ until[r] \in Nat
        BY <1>6 DEF Tick, Waiting, TimeInv, StateTypes
      <3>2. SentBy(r)' = SentBy(r) /\ MaxAttempts' = MaxAttempts
            /\ Longest(attempt[r])' = Longest(attempt[r]) /\ AttemptsLeft(r)' = AttemptsLeft(r)
        BY <2>1, PoolKept DEF SentBy, AttemptsLeft
      <3>3. pc[r] = "sleeping" => now' <= until[r]
        BY <2>1, <3>1
      <3>4. QED
        BY <2>1, <3>1, <3>2, <3>3 DEF Timed, Active
    <2>3. QED
      BY <2>2 DEF TimeInv
  <1>7. QED
    BY <1>1, <1>3, <1>4, <1>5, <1>6 DEF Next, SteamStep, Quiescent

\* AnsweredInTime holds of every behaviour: although no timeout covers attest_handler,
\* its pages, attempts and waits bound it, for any page limit, pool and timeouts.
THEOREM HandlerEnds == Spec => []AnsweredInTime
  <1>1. Init => TimeInv
    BY DEF Init, TimeInv, Timed, Active
  <1>2. IInv /\ TimeInv /\ [Next]_vars => TimeInv'
    BY TimeStep DEF IInv
  <1>3. IInv /\ TimeInv => AnsweredInTime
    <2> SUFFICES ASSUME IInv, TimeInv, NEW q \in Request, pc[q] \notin {"idle", "done"}
                 PROVE  now <= begun[q] + (MAX_PAGES * FetchTime)
      BY DEF AnsweredInTime
    <2> DEFINE p == page[q]
               F == FetchTime
               a == attempt[q]
    <2>1. /\ pool \in Nat /\ now \in Nat /\ p \in Nat /\ begun[q] \in Nat /\ a \in Nat /\ until[q] \in Nat
          /\ RequestTimeout \in Nat /\ MAX_PAGES \in Nat /\ MaxAttempts \in Nat /\ F \in Nat
      BY InventoryAssumption, AttemptsType, FetchTimeType DEF InventoryAssumption, IInv, StateTypes
    <2>2. p >= 1 /\ p <= MAX_PAGES /\ a < MaxAttempts /\ now <= until[q]
      BY DEF TimeInv, Timed, Active, IInv, StateTypes, PhaseInv
    \* The attempt that runs or comes next is within the time of its page.
    <2>3. PICK n \in Nat : n < MaxAttempts /\ until[q] <= begun[q] + ((p - 1) * F) + Spent(n) + RequestTimeout
      <3>0. (p - 1) * F \in Nat /\ Spent(a) \in Nat
        <4>1. p - 1 \in Nat
          BY <2>1, <2>2
        <4>2. QED
          BY <2>1, <4>1, TimesMonotone, SpentType
      <3>1. CASE pc[q] # "sleeping"
        <4>1. until[q] <= begun[q] + ((p - 1) * F) + Spent(a) + RequestTimeout
          BY <3>1 DEF TimeInv, Timed, Active, SentBy
        <4>2. QED
          BY <2>1, <2>2, <4>1
      <3>2. CASE pc[q] = "sleeping"
        <4>1. /\ until[q] <= begun[q] + ((p - 1) * F) + Spent(a) + RequestTimeout + Longest(a)
              /\ AttemptsLeft(q)
          BY <3>2 DEF TimeInv, Timed, Active, SentBy
        <4>2. a + 1 < MaxAttempts /\ a + 1 \in Nat
          BY <2>1, <4>1 DEF AttemptsLeft
        <4>3. Spent(a + 1) = Spent(a) + RequestTimeout + Longest(a) /\ Longest(a) \in Nat
          BY <2>1, <4>2, SpentNext, LongestType
        <4>4. until[q] <= begun[q] + ((p - 1) * F) + Spent(a + 1) + RequestTimeout
          BY <2>1, <3>0, <4>1, <4>3
        <4>5. QED
          BY <4>2, <4>4
      <3>3. QED
        BY <3>1, <3>2
    <2>4. Spent(n) + RequestTimeout <= F /\ Spent(n) \in Nat
      BY <2>1, <2>3, SpentLast, SpentType
    <2>5. (p - 1) * F \in Nat /\ ((p - 1) + 1) * F = ((p - 1) * F) + F /\ (p - 1) + 1 = p
      <3>1. p - 1 \in Nat /\ (p - 1) + 1 = p
        BY <2>1, <2>2
      <3>2. QED
        BY <2>1, <3>1, TimesMonotone, TimesNext
    <2>6. p * F <= MAX_PAGES * F /\ p * F \in Nat /\ MAX_PAGES * F \in Nat
      BY <2>1, <2>2, TimesMonotone
    <2>7. now <= begun[q] + (p * F)
      BY <2>1, <2>2, <2>3, <2>4, <2>5, <2>6
    <2>8. QED
      BY <2>1, <2>6, <2>7
  <1>4. QED
    BY <1>1, <1>2, <1>3, Invariance, PTL DEF Spec

-----------------------------------------------------------------------------
(* The LRU order *)

\* A sequence lists a set of keys, each of them once.
Lists(s, S) ==
  /\ s \in Seq(Key)
  /\ \A k \in Key : k \in S <=> \E i \in 1..Len(s) : s[i] = k
  /\ \A i, j \in 1..Len(s) : s[i] = s[j] => i = j

Cached == {k \in Key : cache[k] # None}

LruInv == Lists(lru, Cached) /\ Len(lru) <= Capacity

\* Taking the entry at a place out of a list.
LEMMA ListsWithout ==
  ASSUME NEW s, NEW S, Lists(s, S), NEW n \in 1..Len(s)
  PROVE  LET t == SubSeq(s, 1, n - 1) \o SubSeq(s, n + 1, Len(s)) IN
         Lists(t, S \ {s[n]}) /\ Len(t) = Len(s) - 1
  <1> DEFINE front == SubSeq(s, 1, n - 1)
             back == SubSeq(s, n + 1, Len(s))
             t == front \o back
  <1>1. s \in Seq(Key) /\ Len(s) \in Nat
    BY DEF Lists
  <1>2. front \in Seq(Key) /\ Len(front) = n - 1 /\ \A i \in 1..(n - 1) : front[i] = s[i]
    BY <1>1
  <1>3. back \in Seq(Key) /\ Len(back) = Len(s) - n /\ \A i \in 1..(Len(s) - n) : back[i] = s[n + i]
    BY <1>1
  <1> HIDE DEF front, back
  <1>4. /\ t \in Seq(Key) /\ Len(t) = Len(s) - 1
        /\ \A i \in 1..(Len(s) - 1) : t[i] = IF i < n THEN s[i] ELSE s[i + 1]
    <2>1. t \in Seq(Key) /\ Len(t) = Len(front) + Len(back)
      <3>1. front \in Seq(Key) /\ back \in Seq(Key)
        BY <1>2, <1>3
      <3>2. QED
        BY <3>1
    <2>2. ASSUME NEW i \in 1..(Len(s) - 1), i < n PROVE t[i] = s[i]
      BY <1>1, <1>2, <1>3, <2>2
    <2>3. ASSUME NEW i \in 1..(Len(s) - 1), ~(i < n) PROVE t[i] = s[i + 1]
      <3>1. i - (n - 1) \in 1..(Len(s) - n) /\ n + (i - (n - 1)) = i + 1
        BY <1>1, <2>3
      <3>2. t[i] = back[i - (n - 1)]
        BY <1>1, <1>2, <1>3, <2>3
      <3>3. QED
        BY <1>3, <3>1, <3>2
    <2>4. QED
      BY <1>1, <1>2, <1>3, <2>1, <2>2, <2>3
  <1> HIDE DEF t
  <1>5. ASSUME NEW k \in Key PROVE k \in S \ {s[n]} <=> \E i \in 1..Len(t) : t[i] = k
    <2>1. ASSUME k \in S, k # s[n] PROVE \E i \in 1..Len(t) : t[i] = k
      <3>1. PICK i \in 1..Len(s) : s[i] = k
        BY <2>1 DEF Lists
      <3>2. i # n
        BY <2>1, <3>1
      <3>3. CASE i < n
        BY <1>1, <1>4, <3>1, <3>3
      <3>4. CASE i > n
        <4>1. i - 1 \in 1..(Len(s) - 1) /\ ~(i - 1 < n) /\ (i - 1) + 1 = i
          BY <1>1, <3>1, <3>4
        <4>2. QED
          BY <1>4, <3>1, <4>1
      <3>5. QED
        BY <1>1, <3>2, <3>3, <3>4
    <2>2. ASSUME NEW i \in 1..Len(t), t[i] = k PROVE k \in S /\ k # s[n]
      <3>1. PICK j \in 1..Len(s) : j # n /\ s[j] = k
        BY <1>1, <1>4, <2>2
      <3>2. QED
        BY <3>1 DEF Lists
    <2>3. QED
      BY <2>1, <2>2
  <1>6. ASSUME NEW i \in 1..Len(t), NEW j \in 1..Len(t), t[i] = t[j] PROVE i = j
    <2> DEFINE at(m) == IF m < n THEN m ELSE m + 1
    <2>1. at(i) \in 1..Len(s) /\ at(j) \in 1..Len(s) /\ t[i] = s[at(i)] /\ t[j] = s[at(j)]
      BY <1>1, <1>4
    <2>2. at(i) = at(j)
      BY <1>6, <2>1 DEF Lists
    <2>3. QED
      BY <1>1, <1>4, <2>2
  <1>7. QED
    BY <1>4, <1>5, <1>6 DEF Lists, t, front, back

LEMMA WithoutLists ==
  ASSUME NEW S, Lists(lru, S), NEW k \in Key
  PROVE  /\ Lists(Without(k), S \ {k}) /\ Len(Without(k)) \in Nat
         /\ Len(Without(k)) = IF k \in S THEN Len(lru) - 1 ELSE Len(lru)
  <1>1. lru \in Seq(Key) /\ Len(lru) \in Nat
    BY DEF Lists
  <1>2. CASE Places(k) = {}
    <2>1. Without(k) = lru /\ k \notin S
      BY <1>2 DEF Without, Places, Lists
    <2>2. S \ {k} = S
      BY <2>1
    <2>3. QED
      BY <1>1, <2>1, <2>2
  <1>3. CASE Places(k) # {}
    <2> DEFINE n == CHOOSE i \in Places(k) : TRUE
    <2>1. n \in 1..Len(lru) /\ lru[n] = k
      BY <1>3 DEF Places
    <2>2. Without(k) = SubSeq(lru, 1, n - 1) \o SubSeq(lru, n + 1, Len(lru))
      BY <1>3 DEF Without
    <2>3. k \in S
      BY <2>1 DEF Lists
    <2> HIDE DEF n
    <2>4. Lists(Without(k), S \ {k}) /\ Len(Without(k)) = Len(lru) - 1
      <3>1. LET t == SubSeq(lru, 1, n - 1) \o SubSeq(lru, n + 1, Len(lru)) IN
            Lists(t, S \ {lru[n]}) /\ Len(t) = Len(lru) - 1
        BY <2>1, ListsWithout, Zenon
      <3>2. QED
        BY <2>1, <2>2, <3>1, Zenon
    <2>5. QED
      BY <1>1, <2>1, <2>3, <2>4
  <1>4. QED
    BY <1>2, <1>3

\* Putting a key in front of a list that does not have it.
LEMMA ListsPush ==
  ASSUME NEW s, NEW S, Lists(s, S), NEW k \in Key, k \notin S
  PROVE  /\ Lists(<<k>> \o s, S \cup {k}) /\ Len(<<k>> \o s) = Len(s) + 1
         /\ (<<k>> \o s)[1] = k
  <1> DEFINE t == <<k>> \o s
  <1>1. s \in Seq(Key) /\ Len(s) \in Nat
    BY DEF Lists
  <1>2. /\ t \in Seq(Key) /\ Len(t) = Len(s) + 1 /\ t[1] = k
        /\ \A i \in 1..Len(t) : t[i] = IF i = 1 THEN k ELSE s[i - 1]
    BY <1>1
  <1> HIDE DEF t
  <1>3. ASSUME NEW j \in Key PROVE j \in S \cup {k} <=> \E i \in 1..Len(t) : t[i] = j
    <2>1. ASSUME j \in S PROVE \E i \in 1..Len(t) : t[i] = j
      <3>1. PICK i \in 1..Len(s) : s[i] = j
        BY <2>1 DEF Lists
      <3>2. i + 1 \in 1..Len(t) /\ i + 1 # 1 /\ (i + 1) - 1 = i
        BY <1>1, <1>2, <3>1
      <3>3. QED
        BY <1>2, <3>1, <3>2
    <2>2. 1 \in 1..Len(t)
      BY <1>1, <1>2
    <2>3. ASSUME NEW i \in 1..Len(t), t[i] = j, j # k PROVE j \in S
      <3>1. i # 1 /\ i - 1 \in 1..Len(s) /\ s[i - 1] = j
        BY <1>1, <1>2, <2>3
      <3>2. QED
        BY <3>1 DEF Lists
    <2>4. QED
      BY <1>2, <2>1, <2>2, <2>3
  <1>4. ASSUME NEW i \in 1..Len(s) PROVE s[i] # k
    BY <1>4 DEF Lists
  <1>5. ASSUME NEW i \in 1..Len(t), NEW j \in 1..Len(t), t[i] = t[j] PROVE i = j
    <2>1. CASE i = 1 \/ j = 1
      <3>1. ASSUME NEW m \in 1..Len(t), m # 1 PROVE t[m] # k
        <4>1. m - 1 \in 1..Len(s) /\ t[m] = s[m - 1]
          BY <1>1, <1>2, <3>1
        <4>2. QED
          BY <1>4, <4>1
      <3>2. QED
        BY <1>2, <1>5, <2>1, <3>1
    <2>2. CASE i # 1 /\ j # 1
      <3>1. i - 1 \in 1..Len(s) /\ j - 1 \in 1..Len(s) /\ s[i - 1] = s[j - 1]
        BY <1>1, <1>2, <1>5, <2>2
      <3>2. i - 1 = j - 1
        BY <3>1 DEF Lists
      <3>3. QED
        BY <3>2
    <2>3. QED
      BY <2>1, <2>2
  <1>6. QED
    BY <1>2, <1>3, <1>5 DEF Lists, t

\* Dropping the last entry of a list.
LEMMA ListsCut ==
  ASSUME NEW s, NEW S, Lists(s, S), NEW n \in Nat, Len(s) = n + 1
  PROVE  Lists(SubSeq(s, 1, n), S \ {s[n + 1]}) /\ Len(SubSeq(s, 1, n)) = n
  <1> DEFINE t == SubSeq(s, 1, n)
  <1>1. s \in Seq(Key) /\ n + 1 \in 1..Len(s)
    BY DEF Lists
  <1>2. t \in Seq(Key) /\ Len(t) = n /\ \A i \in 1..n : t[i] = s[i]
    BY <1>1
  <1> HIDE DEF t
  <1>3. ASSUME NEW k \in Key PROVE k \in S \ {s[n + 1]} <=> \E i \in 1..Len(t) : t[i] = k
    <2>1. ASSUME k \in S, k # s[n + 1] PROVE \E i \in 1..Len(t) : t[i] = k
      <3>1. PICK i \in 1..Len(s) : s[i] = k
        BY <2>1 DEF Lists
      <3>2. i \in 1..n
        BY <2>1, <3>1
      <3>3. QED
        BY <1>2, <3>1, <3>2
    <2>2. ASSUME NEW i \in 1..Len(t), t[i] = k PROVE k \in S /\ k # s[n + 1]
      <3>1. i \in 1..Len(s) /\ i # n + 1 /\ s[i] = k
        BY <1>2, <2>2
      <3>2. QED
        BY <1>1, <3>1 DEF Lists
    <2>3. QED
      BY <2>1, <2>2
  <1>4. ASSUME NEW i \in 1..Len(t), NEW j \in 1..Len(t), t[i] = t[j] PROVE i = j
    <2>1. i \in 1..Len(s) /\ j \in 1..Len(s) /\ s[i] = s[j]
      BY <1>2, <1>4
    <2>2. QED
      BY <2>1 DEF Lists
  <1>5. QED
    BY <1>2, <1>3, <1>4 DEF Lists, t

LEMMA LruStep ==
  ASSUME StateTypes, PhaseInv, LruInv, [Next]_vars
  PROVE  LruInv'
  <1> USE InventoryAssumption DEF InventoryAssumption
  <1>1. lru \in Seq(Key) /\ Len(lru) \in Nat /\ Len(lru) <= Capacity /\ Lists(lru, Cached)
    BY DEF LruInv, Lists
  <1>2. CASE UNCHANGED cacheVars
    <2>1. lru' = lru /\ Cached' = Cached
      BY <1>2 DEF cacheVars, Cached
    <2>2. QED
      BY <2>1, <1>1 DEF LruInv, Lists
  \* The key of a hit moves to the front.
  <1>3. ASSUME NEW q \in Request, NEW k \in Asked, CacheHit(q, k) PROVE LruInv'
    <2>1. k \in Key /\ k \in Cached
      BY <1>3 DEF CacheHit, Fresh, Cached
    <2>2. lru' = <<k>> \o Without(k) /\ Cached' = Cached
      BY <1>3 DEF CacheHit, CacheGet, Cached
    <2>3. Lists(Without(k), Cached \ {k}) /\ Len(Without(k)) = Len(lru) - 1
      BY <1>1, <2>1, WithoutLists
    <2>4. Lists(lru', (Cached \ {k}) \cup {k}) /\ Len(lru') = Len(Without(k)) + 1
      BY <2>1, <2>2, <2>3, ListsPush
    <2>5. (Cached \ {k}) \cup {k} = Cached'
      BY <2>1, <2>2
    <2>6. Len(lru') <= Capacity
      BY <1>1, <2>3, <2>4
    <2>7. Lists(lru', Cached')
      BY <2>4, <2>5
    <2>8. QED
      BY <2>6, <2>7 DEF LruInv, Lists
  \* What is too old, or not there, is not there afterwards.
  <1>4. ASSUME NEW q \in Request, NEW k \in Asked, CacheMiss(q, k) PROVE LruInv'
    <2>1. k \in Key /\ lru' = Without(k) /\ cache' = [cache EXCEPT ![k] = None]
      BY <1>4 DEF CacheMiss, CacheMissed
    <2>2. Cached' = Cached \ {k}
      BY <2>1 DEF Cached, StateTypes
    <2>3. Lists(lru', Cached') /\ Len(lru') <= Capacity
      BY <1>1, <2>1, <2>2, WithoutLists
    <2>4. QED
      BY <2>3 DEF LruInv, Lists
  \* What is inserted comes to the front, and the last one goes when there is no room.
  <1>5. ASSUME NEW q \in Request, Signed(q) PROVE LruInv'
    <2> DEFINE k == key[q]
               order == <<k>> \o Without(k)
               room == Len(order) <= Capacity
    <2>1. k \in Key /\ now \in Nat /\ now # None
      BY <1>5 DEF Signed, PhaseInv, Active, StateTypes
    <2>2. /\ lru' = IF room THEN order ELSE SubSeq(order, 1, Capacity)
          /\ cache' = [j \in Key |->
               IF j = k THEN now ELSE IF ~room /\ j = order[Capacity + 1] THEN None ELSE cache[j]]
      BY <1>5 DEF Signed, CacheInsert
    <2>3. Lists(Without(k), Cached \ {k}) /\ Len(Without(k)) <= Len(lru) /\ Len(Without(k)) \in Nat
      BY <1>1, <2>1, WithoutLists
    <2>4. Lists(order, (Cached \ {k}) \cup {k}) /\ Len(order) = Len(Without(k)) + 1 /\ order[1] = k
      BY <2>1, <2>3, ListsPush
    <2>5. (Cached \ {k}) \cup {k} = Cached \cup {k}
      OBVIOUS
    <2> HIDE DEF order, k
    <2>6. CASE room
      <3>1. \A j \in Key : cache'[j] = IF j = k THEN now ELSE cache[j]
        BY <2>2, <2>6
      <3>2. Cached' = Cached \cup {k}
        BY <2>1, <3>1 DEF Cached
      <3>3. Lists(lru', Cached') /\ Len(lru') <= Capacity
        BY <2>2, <2>4, <2>5, <2>6, <3>2
      <3>4. QED
        BY <3>3 DEF LruInv, Lists
    <2>7. CASE ~room
      <3> DEFINE gone == order[Capacity + 1]
      <3>1. Len(order) = Capacity + 1 /\ Capacity \in Nat /\ Capacity >= 1
        BY <1>1, <2>3, <2>4, <2>7
      <3>2. gone # k
        <4>1. 1 \in 1..Len(order) /\ Capacity + 1 \in 1..Len(order) /\ Capacity + 1 # 1
          BY <3>1
        <4>2. QED
          BY <2>4, <4>1 DEF Lists
      <3>3. \A j \in Key : cache'[j] = IF j = k THEN now ELSE IF j = gone THEN None ELSE cache[j]
        BY <2>2, <2>7
      <3> HIDE DEF gone
      <3>4. Cached' = (Cached \cup {k}) \ {gone}
        BY <2>1, <3>2, <3>3 DEF Cached
      <3>5. Lists(SubSeq(order, 1, Capacity), (Cached \cup {k}) \ {gone})
            /\ Len(SubSeq(order, 1, Capacity)) = Capacity
        BY <2>4, <2>5, <3>1, ListsCut DEF gone
      <3>6. lru' = SubSeq(order, 1, Capacity)
        BY <2>2, <2>7
      <3>7. Lists(lru', Cached') /\ Len(lru') <= Capacity
        BY <3>1, <3>4, <3>5, <3>6
      <3>8. QED
        BY <3>7 DEF LruInv, Lists
    <2>8. QED
      BY <2>6, <2>7
  <1>6. ASSUME NEW q \in Request, RequestStep(q),
               ~Signed(q), \A k \in Asked : ~CacheHit(q, k) /\ ~CacheMiss(q, k)
        PROVE  UNCHANGED cacheVars
    BY <1>6 DEF RequestStep, ItemFound, ItemUndescribed, NextPage, PageLimit, NotFound,
       AttestFails, SendFails, RateLimited, Refused, BodyFails, Retries, Dropped
  <1>7. CASE SteamStep \/ Tick \/ UNCHANGED vars
    <2>1. UNCHANGED cacheVars
      BY <1>7 DEF SteamStep, AssetLeaves, AssetArrives, ServesPage, Tick, vars
    <2>2. QED
      BY <1>2, <2>1
  <1>8. QED
    BY <1>2, <1>3, <1>4, <1>5, <1>6, <1>7 DEF Next, Quiescent

\* TypeOK holds of every behaviour: the index of the proxy pool names a proxy, and the
\* LRU order of the cache lists the cached keys, each once and within the capacity,
\* however hits, expiries and inserts of concurrent requests interleave.
THEOREM TypeCorrect == Spec => []TypeOK
  <1>1. Init => LruInv
    <2> SUFFICES ASSUME Init PROVE LruInv
      OBVIOUS
    <2>1. lru = <<>> /\ Cached = {}
      BY DEF Init, Cached
    <2>2. lru \in Seq(Key) /\ Len(lru) = 0
      BY <2>1
    <2>3. QED
      BY <2>1, <2>2, InventoryAssumption DEF InventoryAssumption, LruInv, Lists
  <1>2. IInv /\ LruInv /\ [Next]_vars => LruInv'
    BY LruStep DEF IInv
  <1>3. IInv /\ LruInv => TypeOK
    BY DEF IInv, LruInv, Lists, Cached, TypeOK
  <1>4. QED
    BY <1>1, <1>2, <1>3, Invariance, PTL DEF Spec
=============================================================================
