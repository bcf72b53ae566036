------------------------ MODULE InventoryAttestation ------------------------
(***************************************************************************)
(* POST /inventory/attest: attest_handler of                               *)
(* src/src/inventory_attestation/mod.rs with its cache, and find_asset of  *)
(* src/src/steam_inventory.rs with its pages, retries and proxies.         *)
(*                                                                         *)
(* Requests run concurrently.  They share the cache and the proxy index,   *)
(* each behind a mutex that is never held across an await.  Steam is       *)
(* external: an asset that is traded away gets a new id, so an id that has *)
(* left an inventory never comes back.                                     *)
(*                                                                         *)
(* Time is discrete; a timer that is due, and a signature, which is        *)
(* computed in the process, come before the clock moves on.                *)
(***************************************************************************)
EXTENDS Naturals, Sequences, FiniteSets

CONSTANTS
  None,            \* Option::None
  Request,         \* the POST /inventory/attest requests
  Account,         \* Steam accounts
  Asset,           \* asset ids, in the order in which Steam lists an inventory
  Asked,           \* the pairs of account and asset that clients ask about
  Inventories,     \* who may own which asset when the server starts
  PoolSizes,       \* how many usable proxies the environment may name
  ITEMS_PER_PAGE,
  MAX_PAGES,
  RequestTimeout,  \* REQUEST_TIMEOUT_SECONDS, the timeout of the HTTP client
  BaseWait,        \* 1000 ms
  RateWait,        \* 500 ms, after a 429 when there are proxies
  Capacity,        \* DEFAULT_CACHE_CAPACITY
  Ttl,             \* DEFAULT_CACHE_TTL_SECONDS
  MaxMoves,        \* bound: assets that come or go
  Horizon          \* bound: no request arrives and no asset moves after this time

Key == Account \X Asset

\* The answers of the handler: 200, 404, every other error, and none because the client left.
Code == {"200", "ASSET_NOT_FOUND", "ERROR", "gone"}

ASSUME InventoryAssumption ==
  /\ Asset \subseteq Nat \ {0}
  /\ None \notin Nat /\ None \notin Account /\ None \notin Code
  /\ Asked \subseteq Key
  /\ Inventories \subseteq [Asset -> Account \cup {None}]
  /\ PoolSizes \subseteq Nat
  /\ ITEMS_PER_PAGE \in Nat \ {0} /\ MAX_PAGES \in Nat \ {0} /\ Capacity \in Nat \ {0}
  /\ RequestTimeout \in Nat /\ BaseWait \in Nat /\ RateWait \in 0..BaseWait
  /\ Ttl \in Nat /\ MaxMoves \in Nat /\ Horizon \in Nat

VARIABLES
  now,             \* the clock
  owner,           \* owner[a]: the account that has or had asset a
  leftAt,          \* leftAt[a]: when a left that account, or None
  moves,           \* assets that came or went so far
  pool,            \* InventoryProxyPool.clients.len(), 0 without a pool
  current_index,   \* InventoryProxyPool.current_index
  uses,            \* uses[p]: how often proxy p was handed out
  cache,           \* cache[k]: inserted_at of the cached attestation of k, or None
  lru,             \* the cached keys, most recently used first
  pc,              \* pc[q]: idle, sent, served, sleeping, signing or done
  key,             \* key[q]: steam_id and asset_id of the request
  begun,           \* begun[q]: when it arrived
  page, cursor,    \* page and start_assetid of find_asset
  attempt, until,  \* attempt of fetch_inventory_response, and its current timer
  reply,           \* the page that Steam answered, while it is on its way
  answer,          \* "200", "ASSET_NOT_FOUND", "ERROR" for every other code, or "gone"
  there            \* there[q]: the asset was in the inventory ever since q arrived

steamVars == <<owner, leftAt, moves>>
proxyVars == <<pool, current_index, uses>>
cacheVars == <<cache, lru>>
fetchVars == <<page, cursor, attempt, until, reply>>
reqVars   == <<pc, key, begun, answer, there>>
vars == <<now, steamVars, proxyVars, cacheVars, fetchVars, reqVars>>

Init ==
  /\ now = 0
  /\ owner \in Inventories
  /\ leftAt = [a \in Asset |-> None]
  /\ moves = 0
  /\ pool \in PoolSizes
  /\ current_index = 0
  /\ uses = [p \in 0..(pool - 1) |-> 0]
  /\ cache = [k \in Key |-> None]
  /\ lru = <<>>
  /\ pc = [q \in Request |-> "idle"]
  /\ key = [q \in Request |-> None]
  /\ begun = [q \in Request |-> 0]
  /\ page = [q \in Request |-> 0]
  /\ cursor = [q \in Request |-> 0]
  /\ attempt = [q \in Request |-> 0]
  /\ until = [q \in Request |-> 0]
  /\ reply = [q \in Request |-> None]
  /\ answer = [q \in Request |-> None]
  /\ there = [q \in Request |-> FALSE]

-----------------------------------------------------------------------------
(* Steam (external) *)

InInventory(k) == owner[k[2]] = k[1] /\ leftAt[k[2]] = None

AssetLeaves(a) ==
  /\ moves < MaxMoves /\ now <= Horizon
  /\ owner[a] # None /\ leftAt[a] = None
  /\ leftAt' = [leftAt EXCEPT ![a] = now]
  /\ moves' = moves + 1
  /\ there' = [q \in Request |-> there[q] /\ key[q][2] # a]
  /\ UNCHANGED <<now, owner, proxyVars, cacheVars, fetchVars, pc, key, begun, answer>>

AssetArrives(a, w) ==
  /\ moves < MaxMoves /\ now <= Horizon
  /\ owner[a] = None
  /\ owner' = [owner EXCEPT ![a] = w]
  /\ moves' = moves + 1
  /\ UNCHANGED <<now, leftAt, proxyVars, cacheVars, fetchVars, reqVars>>

\* A page is what follows start_assetid in the inventory, up to ITEMS_PER_PAGE
\* assets; more_items and last_assetid are set when it is not the rest.
ServesPage(q) ==
  LET rest == {a \in Asset : a > cursor[q] /\ InInventory(<<key[q][1], a>>)} IN
  /\ pc[q] = "sent"
  /\ \E last \in rest \cup {cursor[q]} :
       LET assets == {a \in rest : a <= last} IN
       /\ Cardinality(assets) <= ITEMS_PER_PAGE
       /\ assets # rest => Cardinality(assets) = ITEMS_PER_PAGE
       /\ reply' = [reply EXCEPT ![q] = [found |-> key[q][2] \in assets,
                                         more |-> assets # rest, last |-> last]]
  /\ pc' = [pc EXCEPT ![q] = "served"]
  /\ UNCHANGED <<now, steamVars, proxyVars, cacheVars, page, cursor, attempt, until,
                 key, begun, answer, there>>

-----------------------------------------------------------------------------
(* The cache *)

Places(k) == {i \in 1..Len(lru) : lru[i] = k}

\* The order without k, if it is there.
Without(k) ==
  LET i == CHOOSE i \in Places(k) : TRUE
  IN IF Places(k) = {} THEN lru ELSE SubSeq(lru, 1, i - 1) \o SubSeq(lru, i + 1, Len(lru))

\* Faulty variant: an entry is dropped only by the LRU order.
Fresh_Forever(k) == cache[k] # None

\* The cache has an entry whose age is at most the TTL.
Fresh(k) == cache[k] # None /\ now - cache[k] <= Ttl

\* get: a fresh entry becomes the most recently used one.
CacheGet(k) ==
  /\ lru' = <<k>> \o Without(k)
  /\ UNCHANGED cache

\* get: an entry that is too old is popped.
CacheMissed(k) ==
  /\ lru' = Without(k)
  /\ cache' = [cache EXCEPT ![k] = None]

\* insert: stamped with the time of the insert; the least recently used key goes
\* when there is no room.
CacheInsert(k) ==
  LET order == <<k>> \o Without(k)
      room  == Len(order) <= Capacity
  IN
  /\ lru' = IF room THEN order ELSE SubSeq(order, 1, Capacity)
  /\ cache' = [j \in Key |->
       IF j = k THEN now
       ELSE IF ~room /\ j = order[Capacity + 1] THEN None ELSE cache[j]]

-----------------------------------------------------------------------------
(* attest_handler and find_asset *)

\* The handler returns, and nothing is left of it but its answer.
Answers(q, code) ==
  /\ pc' = [pc EXCEPT ![q] = "done"]
  /\ begun' = [begun EXCEPT ![q] = 0]
  /\ there' = [there EXCEPT ![q] = FALSE]
  /\ answer' = [answer EXCEPT ![q] = code]
  /\ page' = [page EXCEPT ![q] = 0]
  /\ cursor' = [cursor EXCEPT ![q] = 0]
  /\ attempt' = [attempt EXCEPT ![q] = 0]
  /\ until' = [until EXCEPT ![q] = 0]
  /\ reply' = [reply EXCEPT ![q] = None]

\* The first request for page p goes out directly.
Asks(q, p, c) ==
  /\ pc' = [pc EXCEPT ![q] = "sent"]
  /\ page' = [page EXCEPT ![q] = p]
  /\ cursor' = [cursor EXCEPT ![q] = c]
  /\ attempt' = [attempt EXCEPT ![q] = 0]
  /\ until' = [until EXCEPT ![q] = now + RequestTimeout]
  /\ reply' = [reply EXCEPT ![q] = None]

Arrives(q, k) ==
  /\ pc[q] = "idle"
  /\ now <= Horizon
  /\ key' = [key EXCEPT ![q] = k]

\* A cached attestation is returned as it is.
CacheHit(q, k) ==
  /\ Arrives(q, k)
  /\ Fresh(k)
  /\ CacheGet(k)
  /\ Answers(q, "200")
  /\ UNCHANGED <<now, steamVars, proxyVars>>

\* Nothing is cached: find_asset starts with page 1 and no cursor.
CacheMiss(q, k) ==
  /\ Arrives(q, k)
  /\ ~Fresh(k)
  /\ CacheMissed(k)
  /\ Asks(q, 1, 0)
  /\ begun' = [begun EXCEPT ![q] = now]
  /\ there' = [there EXCEPT ![q] = InInventory(k)]
  /\ UNCHANGED <<now, steamVars, proxyVars, answer>>

\* The page has the asset, with its description.
ItemFound(q) ==
  /\ pc[q] = "served"
  /\ reply[q].found
  /\ pc' = [pc EXCEPT ![q] = "signing"]
  /\ UNCHANGED <<now, steamVars, proxyVars, cacheVars, fetchVars, key, begun, answer, there>>

\* The page has the asset but no description for it.
ItemUndescribed(q) ==
  /\ pc[q] = "served"
  /\ reply[q].found
  /\ Answers(q, "ERROR")
  /\ UNCHANGED <<now, steamVars, proxyVars, cacheVars, key>>

\* The page does not have the asset.
PageMisses(q) == pc[q] = "served" /\ ~reply[q].found

\* more_items: the next page, unless the limit is reached.
NextPage(q) ==
  /\ PageMisses(q)
  /\ reply[q].more
  /\ page[q] < MAX_PAGES
  /\ Asks(q, page[q] + 1, reply[q].last)
  /\ UNCHANGED <<now, steamVars, proxyVars, cacheVars, key, begun, answer, there>>

PageLimit(q) ==
  /\ PageMisses(q)
  /\ reply[q].more
  /\ page[q] >= MAX_PAGES
  /\ Answers(q, "ERROR")
  /\ UNCHANGED <<now, steamVars, proxyVars, cacheVars, key>>

\* Faulty variant: the page limit is reported as an asset that is not there.
NotFound_AtLimit(q) ==
  /\ PageMisses(q)
  /\ reply[q].more => page[q] >= MAX_PAGES
  /\ Answers(q, "ASSET_NOT_FOUND")
  /\ UNCHANGED <<now, steamVars, proxyVars, cacheVars, key>>

NotFound(q) ==
  /\ PageMisses(q)
  /\ ~reply[q].more
  /\ Answers(q, "ASSET_NOT_FOUND")
  /\ UNCHANGED <<now, steamVars, proxyVars, cacheVars, key>>

\* The catalog knows the item and the signer signs: the answer goes to the cache.
Signed(q) ==
  /\ pc[q] = "signing"
  /\ CacheInsert(key[q])
  /\ Answers(q, "200")
  /\ UNCHANGED <<now, steamVars, proxyVars, key>>

\* The catalog does not resolve the item, or signing fails.
AttestFails(q) ==
  /\ pc[q] = "signing"
  /\ Answers(q, "ERROR")
  /\ UNCHANGED <<now, steamVars, proxyVars, cacheVars, key>>

-----------------------------------------------------------------------------
(* fetch_inventory_response *)

\* Without proxies three attempts; with them a direct one and one per proxy, up to ten.
MaxAttempts == IF pool = 0 THEN 3 ELSE 1 + (IF pool < 10 THEN pool ELSE 10)

AttemptsLeft(q) == attempt[q] < MaxAttempts - 1

\* 1000 ms * 2^attempt, at most 5000 ms.
Backoff(a) == BaseWait * (CASE a = 0 -> 1 [] a = 1 -> 2 [] a = 2 -> 4 [] OTHER -> 5)

Sleeps(q, wait) ==
  /\ pc' = [pc EXCEPT ![q] = "sleeping"]
  /\ until' = [until EXCEPT ![q] = now + wait]
  /\ reply' = [reply EXCEPT ![q] = None]

\* No connection, or no response in time: wait and try again, or give up.
SendFails(q) ==
  /\ pc[q] = "sent"
  /\ \/ /\ AttemptsLeft(q)
        /\ Sleeps(q, IF pool > 0 THEN BaseWait ELSE Backoff(attempt[q]))
        /\ UNCHANGED <<page, cursor, attempt, begun, answer, there>>
     \/ /\ ~AttemptsLeft(q)
        /\ Answers(q, "ERROR")
  /\ UNCHANGED <<now, steamVars, proxyVars, cacheVars, key>>

\* 429: wait and try again; the last one is an error like any other.
RateLimited(q) ==
  /\ pc[q] = "sent"
  /\ \/ /\ AttemptsLeft(q)
        /\ Sleeps(q, IF pool > 0 THEN RateWait ELSE Backoff(attempt[q]))
        /\ UNCHANGED <<page, cursor, attempt, begun, answer, there>>
     \/ /\ ~AttemptsLeft(q)
        /\ Answers(q, "ERROR")
  /\ UNCHANGED <<now, steamVars, proxyVars, cacheVars, key>>

\* 401, 403 or a null body; any other error status, or a body that is not JSON.
\* parse_inventory_response refuses the response and it is not retried.
Refused(q) ==
  /\ pc[q] = "sent"
  /\ Answers(q, "ERROR")
  /\ UNCHANGED <<now, steamVars, proxyVars, cacheVars, key>>

\* The headers of a page arrived and its body did not: not retried either.
BodyFails(q) ==
  /\ pc[q] = "served"
  /\ Answers(q, "ERROR")
  /\ UNCHANGED <<now, steamVars, proxyVars, cacheVars, key>>

\* Faulty variant: the index is not wrapped.
NextProxy_NoWrap(q) ==
  /\ uses' = [uses EXCEPT ![current_index] = @ + 1]
  /\ current_index' = current_index + 1
  /\ UNCHANGED pool

\* InventoryProxyPool::next, under its lock.
NextProxy(q) ==
  /\ uses' = [uses EXCEPT ![current_index] = @ + 1]
  /\ current_index' = (current_index + 1) % pool
  /\ UNCHANGED pool

\* Faulty variant: a failed attempt does not count.
CountAttempt_Never(q) == UNCHANGED attempt

CountAttempt(q) == attempt' = [attempt EXCEPT ![q] = @ + 1]

\* The wait is over: the next attempt, through a proxy if there are any.
Retries(q) ==
  /\ pc[q] = "sleeping"
  /\ now >= until[q]
  /\ IF pool > 0 THEN NextProxy(q) ELSE UNCHANGED proxyVars
  /\ CountAttempt(q)
  /\ until' = [until EXCEPT ![q] = now + RequestTimeout]
  /\ pc' = [pc EXCEPT ![q] = "sent"]
  /\ UNCHANGED <<now, steamVars, cacheVars, page, cursor, reply, key, begun, answer, there>>

\* The client is gone: the handler is dropped at the await it is in.
Dropped(q) ==
  /\ pc[q] \in {"sent", "served", "sleeping"}
  /\ Answers(q, "gone")
  /\ UNCHANGED <<now, steamVars, proxyVars, cacheVars, key>>

-----------------------------------------------------------------------------
Waiting(q) == pc[q] \in {"sent", "served", "sleeping"}

\* Nothing is due, and somebody waits or may still arrive.
Tick ==
  /\ \A q \in Request : pc[q] # "signing" /\ (Waiting(q) => now < until[q])
  /\ now < Horizon \/ \E q \in Request : Waiting(q)
  /\ now' = now + 1
  /\ UNCHANGED <<steamVars, proxyVars, cacheVars, fetchVars, reqVars>>

\* No request is under way and none arrives any more.
Quiescent ==
  /\ now >= Horizon
  /\ \A q \in Request : pc[q] \in {"idle", "done"}
  /\ UNCHANGED vars

SteamStep ==
  \/ \E a \in Asset : AssetLeaves(a) \/ \E w \in Account : AssetArrives(a, w)
  \/ \E q \in Request : ServesPage(q)

RequestStep(q) ==
  \/ \E k \in Asked : CacheHit(q, k) \/ CacheMiss(q, k)
  \/ ItemFound(q) \/ ItemUndescribed(q) \/ NextPage(q) \/ PageLimit(q) \/ NotFound(q)
  \/ Signed(q) \/ AttestFails(q)
  \/ SendFails(q) \/ RateLimited(q) \/ Refused(q) \/ BodyFails(q) \/ Retries(q) \/ Dropped(q)

Next == SteamStep \/ (\E q \in Request : RequestStep(q)) \/ Tick \/ Quiescent

Spec == Init /\ [][Next]_vars

-----------------------------------------------------------------------------
(* Properties *)

Reply == [found : BOOLEAN, more : BOOLEAN, last : Nat]

StateTypes ==
  /\ now \in Nat /\ moves \in Nat
  /\ owner \in [Asset -> Account \cup {None}]
  /\ leftAt \in [Asset -> Nat \cup {None}]
  /\ pool \in Nat
  /\ current_index \in Nat /\ (current_index < pool \/ current_index = 0)
  /\ uses \in [0..(pool - 1) -> Nat]
  /\ cache \in [Key -> Nat \cup {None}]
  /\ pc \in [Request -> {"idle", "sent", "served", "sleeping", "signing", "done"}]
  /\ key \in [Request -> Key \cup {None}]
  /\ begun \in [Request -> Nat]
  /\ page \in [Request -> Nat] /\ cursor \in [Request -> Nat]
  /\ attempt \in [Request -> Nat] /\ until \in [Request -> Nat]
  /\ reply \in [Request -> Reply \cup {None}]
  /\ answer \in [Request -> Code \cup {None}]
  /\ there \in [Request -> BOOLEAN]

\* Every variable has its type; in particular the index of the proxy pool always
\* names a proxy.  The LRU order lists the cached keys, each once and no more than
\* there is room for.
TypeOK ==
  /\ StateTypes
  /\ lru \in Seq(Key) /\ Len(lru) <= Capacity
  /\ \A k \in Key : cache[k] # None <=> \E i \in 1..Len(lru) : lru[i] = k
  /\ \A i, j \in 1..Len(lru) : lru[i] = lru[j] => i = j

\* An attestation is given only for an asset that the account had, and for at most
\* the cache TTL and one request timeout after it left, whatever the order in which
\* requests for it fetch, insert, evict and hit.
StaleAttestationBounded ==
  [][\A q \in Request :
       answer[q] = None /\ answer'[q] = "200" =>
         LET a == key'[q][2] IN
         /\ owner[a] = key'[q][1]
         /\ leftAt[a] # None => now <= leftAt[a] + Ttl + RequestTimeout]_vars

\* ASSET_NOT_FOUND is never answered for an asset that was in the inventory all the
\* time of the request, although other assets come and go between the pages.
NotFoundMeansAbsent ==
  [][\A q \in Request :
       answer[q] = None /\ answer'[q] = "ASSET_NOT_FOUND" => ~there[q]]_vars

\* The time one page may take: all its attempts time out, after all the waits.
FetchTime ==
  MaxAttempts * RequestTimeout
    + (IF pool > 0 THEN (MaxAttempts - 1) * BaseWait ELSE Backoff(0) + Backoff(1))

\* No timeout covers the handler as a whole; its pages, attempts and waits do: it
\* is answered within MAX_PAGES times the worst time of a page.
AnsweredInTime ==
  \A q \in Request :
    pc[q] \notin {"idle", "done"} => now <= begun[q] + MAX_PAGES * FetchTime

\* The pool is used evenly, however the retries of concurrent requests interleave:
\* no proxy is ever two uses ahead of another.
RotationEven == \A p, r \in 0..(pool - 1) : uses[p] <= uses[r] + 1
=============================================================================
