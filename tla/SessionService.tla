--------------------------- MODULE SessionService ---------------------------
(***************************************************************************)
(* The session service of src/src/main.rs: POST /session, the TTL task it  *)
(* spawns, GET /notarize with the task that its WebSocket upgrade spawns,  *)
(* and GET /session/result.                                                *)
(*                                                                         *)
(* Every handler invocation is a process that interleaves with the others  *)
(* at its lock acquisitions, atomic operations and awaits.  A handler      *)
(* whose client disconnects is dropped by the HTTP server at an await; the *)
(* "Dropped" actions model that.  What happens inside a notarization       *)
(* (MPC-TLS, chain read, decision, signature) is reduced to its outcome.   *)
(*                                                                         *)
(* Time is left out: a timer may fire at any moment after it was armed.    *)
(* The arrival times of the clients are arbitrary, so every order of       *)
(* timers, arrivals and verifier progress is possible in the program too.  *)
(***************************************************************************)
EXTENDS Naturals, FiniteSets

CONSTANTS
  Session,      \* the session ids; a POST /session draws a fresh one (UUID v4)
  NotaryReq,    \* the GET /notarize requests the clients make
  ResultReq,    \* the GET /session/result requests the clients make
  MaxPending,   \* config.notarization.max_pending_sessions
  MaxActive,    \* config.notarization.max_active_sessions
  None          \* Option::None

ASSUME ConstantsAssumption ==
  /\ IsFiniteSet(Session)
  /\ IsFiniteSet(NotaryReq)
  /\ MaxPending \in Nat
  /\ MaxActive \in Nat
  /\ None \notin Session
  /\ None \notin NotaryReq

VARIABLES
  post,       \* post[s]: progress of the POST /session handler that drew id s
  sessions,   \* AppState.sessions: the ids in the session map
  ttl,        \* ttl[s]: the TTL task of s
  claimed,    \* the sessions whose verifier_claimed flag is set
  sender,     \* the sessions whose result_sender is still Some
  receiver,   \* the sessions whose result_receiver is still Some
  chan,       \* chan[s]: the notarization whose outcome was sent to a live receiver
  permits,    \* available permits of active_notarization_permits
  active,     \* the active_notarizations gauge
  npc, nses, nstat,   \* phase, session and final status of each /notarize request
  verdict,    \* verdict[n]: what the notarization of n produced
  rpc, rses, rstat,   \* phase, session and status of each /session/result request
  rgot        \* rgot[r]: the notarization whose outcome r received

postVars   == <<post, sessions, ttl>>
cellVars   == <<claimed, sender, receiver, chan>>
gaugeVars  == <<permits, active>>
notaryVars == <<npc, nses, nstat, verdict>>
resultVars == <<rpc, rses, rstat, rgot>>
vars == <<postVars, cellVars, gaugeVars, notaryVars, resultVars>>

-----------------------------------------------------------------------------
(* Phases *)

PermitPhases == {"permit", "found", "upgrading", "running", "publishing", "published"}

\* The /notarize request owns an OwnedSemaphorePermit: the handler's local,
\* moved into the upgrade callback and dropped when its task ends.
HoldsPermit(n) == npc[n] \in PermitPhases

\* The Arc<SessionData> of s held by a /notarize handler or its task.
NotaryHolds(n, s) == nses[n] = s /\ npc[n] \in PermitPhases \ {"permit"}

\* Faulty variant: the handler keeps the receiver but not the Arc while it waits.
ResultHolds_NotWhileWaiting(r, s) == rses[r] = s /\ rpc[r] = "found"

\* The Arc<SessionData> of s held by a /session/result handler, until it returns.
ResultHolds(r, s) == rses[r] = s /\ rpc[r] \in {"found", "waiting", "overdue", "woken"}

\* Some Arc<SessionData> of s is alive, so its Mutex<Option<Sender>> is.
Held(s) ==
  \/ s \in sessions
  \/ \E n \in NotaryReq : NotaryHolds(n, s)
  \/ \E r \in ResultReq : ResultHolds(r, s)

\* The oneshot sender is gone: it was consumed, or dropped with the session data.
SenderGone(s) == s \notin sender \/ ~Held(s)

\* The oneshot receiver is still somewhere: in the session data, or awaited.
ReceiverAlive(s) ==
  \/ s \in receiver
  \/ \E r \in ResultReq : rses[r] = s /\ rpc[r] \in {"waiting", "overdue"}

-----------------------------------------------------------------------------
Init ==
  /\ post = [s \in Session |-> "new"]
  /\ sessions = {}
  /\ ttl = [s \in Session |-> "unarmed"]
  /\ claimed = {}
  /\ sender = Session
  /\ receiver = Session
  /\ chan = [s \in Session |-> None]
  /\ permits = MaxActive
  /\ active = 0
  /\ npc = [n \in NotaryReq |-> "idle"]
  /\ nses = [n \in NotaryReq |-> None]
  /\ nstat = [n \in NotaryReq |-> "none"]
  /\ verdict = [n \in NotaryReq |-> "none"]
  /\ rpc = [r \in ResultReq |-> "idle"]
  /\ rses = [r \in ResultReq |-> None]
  /\ rstat = [r \in ResultReq |-> "none"]
  /\ rgot = [r \in ResultReq |-> None]

-----------------------------------------------------------------------------
(* POST /session *)

\* Wrong protocol version (426) or transcript limits out of range (400).
PostRefused(s) ==
  /\ post[s] = "new"
  /\ post' = [post EXCEPT ![s] = "refused"]
  /\ UNCHANGED <<sessions, ttl, cellVars, gaugeVars, notaryVars, resultVars>>

\* The map is at max_pending_sessions: 429, under the same lock as the insert.
PostAtCapacity(s) ==
  /\ post[s] = "new"
  /\ Cardinality(sessions) >= MaxPending
  /\ post' = [post EXCEPT ![s] = "full"]
  /\ UNCHANGED <<sessions, ttl, cellVars, gaugeVars, notaryVars, resultVars>>

\* Faulty variant: the capacity test is off by one.
PostInsert_OneTooMany(s) ==
  /\ post[s] = "new"
  /\ Cardinality(sessions) <= MaxPending
  /\ sessions' = sessions \cup {s}
  /\ post' = [post EXCEPT ![s] = "inserted"]
  /\ UNCHANGED <<ttl, cellVars, gaugeVars, notaryVars, resultVars>>

\* Check and insert under one lock.
PostInsert(s) ==
  /\ post[s] = "new"
  /\ Cardinality(sessions) < MaxPending
  /\ sessions' = sessions \cup {s}
  /\ post' = [post EXCEPT ![s] = "inserted"]
  /\ UNCHANGED <<ttl, cellVars, gaugeVars, notaryVars, resultVars>>

\* After the lock: the TTL task is spawned and the id is returned.  There is no
\* await between the insert and this step, so a disconnect cannot separate them.
PostRespond(s) ==
  /\ post[s] = "inserted"
  /\ post' = [post EXCEPT ![s] = "open"]
  /\ ttl' = [ttl EXCEPT ![s] = "armed"]
  /\ UNCHANGED <<sessions, cellVars, gaugeVars, notaryVars, resultVars>>

\* Faulty variant: the TTL task spares the sessions that were upgraded.
TtlFires_SparesClaimed(s) ==
  /\ ttl[s] = "armed"
  /\ sessions' = IF s \in claimed THEN sessions ELSE sessions \ {s}
  /\ ttl' = [ttl EXCEPT ![s] = IF s \in sessions THEN "expired" ELSE "noop"]
  /\ UNCHANGED <<post, cellVars, gaugeVars, notaryVars, resultVars>>

\* The TTL task wakes up and removes the session, claimed or not; it counts an
\* expiry only if the session was still in the map.
TtlFires(s) ==
  /\ ttl[s] = "armed"
  /\ sessions' = sessions \ {s}
  /\ ttl' = [ttl EXCEPT ![s] = IF s \in sessions THEN "expired" ELSE "noop"]
  /\ UNCHANGED <<post, cellVars, gaugeVars, notaryVars, resultVars>>

-----------------------------------------------------------------------------
(* GET /notarize *)

\* The request ends with status st; a permit it owns is dropped with it.
NotaryEnds(n, st) ==
  /\ npc' = [npc EXCEPT ![n] = "done"]
  /\ nstat' = [nstat EXCEPT ![n] = st]
  /\ permits' = IF HoldsPermit(n) THEN permits + 1 ELSE permits

\* try_acquire_owned succeeds.
NotaryAcquire(n, s) ==
  /\ npc[n] = "idle"
  /\ post[s] = "open"
  /\ permits > 0
  /\ permits' = permits - 1
  /\ npc' = [npc EXCEPT ![n] = "permit"]
  /\ nses' = [nses EXCEPT ![n] = s]
  /\ UNCHANGED <<postVars, cellVars, active, nstat, verdict, resultVars>>

\* No permit: 429.
NotaryBusy(n, s) ==
  /\ npc[n] = "idle"
  /\ post[s] = "open"
  /\ permits = 0
  /\ nses' = [nses EXCEPT ![n] = s]
  /\ NotaryEnds(n, "429")
  /\ UNCHANGED <<postVars, cellVars, active, verdict, resultVars>>

\* The lookup under the session lock: the Arc is cloned, or 404.
NotaryLookup(n) ==
  /\ npc[n] = "permit"
  /\ IF nses[n] \in sessions
       THEN /\ npc' = [npc EXCEPT ![n] = "found"]
            /\ UNCHANGED <<nstat, permits>>
       ELSE NotaryEnds(n, "404")
  /\ UNCHANGED <<postVars, cellVars, active, nses, verdict, resultVars>>

\* Faulty variant: a load and a store instead of compare_exchange, so that a
\* second handler passes the load before the first one has stored.
NotaryClaim_LoadThenStore(n) ==
  /\ npc[n] = "found"
  /\ claimed' = claimed \cup {nses[n]}
  /\ npc' = [npc EXCEPT ![n] = "upgrading"]
  /\ UNCHANGED <<postVars, sender, receiver, chan, gaugeVars, nses, nstat, verdict, resultVars>>

\* compare_exchange(false, true) on verifier_claimed succeeds; on_upgrade moves
\* the permit and the Arc into a spawned task and 101 is returned.
NotaryClaim(n) ==
  /\ npc[n] = "found"
  /\ nses[n] \notin claimed
  /\ claimed' = claimed \cup {nses[n]}
  /\ npc' = [npc EXCEPT ![n] = "upgrading"]
  /\ UNCHANGED <<postVars, sender, receiver, chan, gaugeVars, nses, nstat, verdict, resultVars>>

\* Faulty variant: the permit is forgotten on this path (std::mem::forget, a leak).
NotaryConflict_KeepsPermit(n) ==
  /\ npc[n] = "found"
  /\ nses[n] \in claimed
  /\ npc' = [npc EXCEPT ![n] = "done"]
  /\ nstat' = [nstat EXCEPT ![n] = "409"]
  /\ UNCHANGED <<postVars, cellVars, gaugeVars, nses, verdict, resultVars>>

\* The compare_exchange fails: 409.
NotaryConflict(n) ==
  /\ npc[n] = "found"
  /\ nses[n] \in claimed
  /\ NotaryEnds(n, "409")
  /\ UNCHANGED <<postVars, cellVars, active, nses, verdict, resultVars>>

\* The client is gone while the handler awaits the session lock.
NotaryDropped(n) ==
  /\ npc[n] = "permit"
  /\ NotaryEnds(n, "gone")
  /\ UNCHANGED <<postVars, cellVars, active, nses, verdict, resultVars>>

\* The upgrade future fails: the callback is dropped without being called.
UpgradeFails(n) ==
  /\ npc[n] = "upgrading"
  /\ NotaryEnds(n, "upgrade failed")
  /\ UNCHANGED <<postVars, cellVars, active, nses, verdict, resultVars>>

\* The callback starts handle_notarize_websocket.
NotarizeStarts(n) ==
  /\ npc[n] = "upgrading"
  /\ npc' = [npc EXCEPT ![n] = "running"]
  /\ active' = active + 1
  /\ UNCHANGED <<postVars, cellVars, permits, nses, nstat, verdict, resultVars>>

\* MPC-TLS, chain read and settlement end, with a signed settlement or with an
\* error or timeout; each of them is under the overall deadline.
NotarizeEnds(n) ==
  /\ npc[n] = "running"
  /\ \E v \in {"signed", "failed"} : verdict' = [verdict EXCEPT ![n] = v]
  /\ active' = active - 1
  /\ npc' = [npc EXCEPT ![n] = "publishing"]
  /\ UNCHANGED <<postVars, cellVars, permits, nses, nstat, resultVars>>

\* The task panics: its locals are dropped, nothing is published, and the gauge
\* is not decremented (no drop guard).
NotarizePanics(n) ==
  /\ npc[n] = "running"
  /\ NotaryEnds(n, "panicked")
  /\ UNCHANGED <<postVars, cellVars, active, nses, verdict, resultVars>>

\* publish_settlement_outcome: take the sender and send.  The value is dropped
\* if the receiver is.
Publish(n) ==
  LET s == nses[n] IN
  /\ npc[n] = "publishing"
  /\ sender' = sender \ {s}
  /\ chan' = IF s \in sender /\ ReceiverAlive(s) THEN [chan EXCEPT ![s] = n] ELSE chan
  /\ npc' = [npc EXCEPT ![n] = "published"]
  /\ UNCHANGED <<postVars, claimed, receiver, gaugeVars, nses, nstat, verdict, resultVars>>

\* handle_notarize_websocket returns and its permit is dropped.
NotarizeReturns(n) ==
  /\ npc[n] = "published"
  /\ NotaryEnds(n, "finished")
  /\ UNCHANGED <<postVars, cellVars, active, nses, verdict, resultVars>>

-----------------------------------------------------------------------------
(* GET /session/result *)

ResultEnds(r, st) ==
  /\ rpc' = [rpc EXCEPT ![r] = "done"]
  /\ rstat' = [rstat EXCEPT ![r] = st]

\* The lookup under the session lock: the Arc is cloned, or 404.
ResultLookup(r, s) ==
  /\ rpc[r] = "idle"
  /\ post[s] = "open"
  /\ rses' = [rses EXCEPT ![r] = s]
  /\ IF s \in sessions
       THEN /\ rpc' = [rpc EXCEPT ![r] = "found"]
            /\ UNCHANGED rstat
       ELSE ResultEnds(r, "404")
  /\ UNCHANGED <<postVars, cellVars, gaugeVars, notaryVars, rgot>>

\* Faulty variant: the receiver is cloned out of the session data, not taken.
ResultTake_Shared(r) ==
  /\ rpc[r] = "found"
  /\ rses[r] \in receiver
  /\ rpc' = [rpc EXCEPT ![r] = "waiting"]
  /\ UNCHANGED <<postVars, cellVars, gaugeVars, notaryVars, rses, rstat, rgot>>

\* The receiver is taken out of the session data.
ResultTake(r) ==
  /\ rpc[r] = "found"
  /\ rses[r] \in receiver
  /\ receiver' = receiver \ {rses[r]}
  /\ rpc' = [rpc EXCEPT ![r] = "waiting"]
  /\ UNCHANGED <<postVars, claimed, sender, chan, gaugeVars, notaryVars, rses, rstat, rgot>>

\* The receiver was taken before: 409.
ResultConflict(r) ==
  /\ rpc[r] = "found"
  /\ rses[r] \notin receiver
  /\ ResultEnds(r, "409")
  /\ UNCHANGED <<postVars, cellVars, gaugeVars, notaryVars, rses, rgot>>

\* The receiver resolves: with the outcome that was sent, or with an error when
\* the sender is gone without one (500).
ResultWakes(r) ==
  LET c == chan[rses[r]] IN
  /\ rpc[r] = "waiting"
  /\ c # None \/ SenderGone(rses[r])
  /\ rgot' = [rgot EXCEPT ![r] = c]
  /\ rstat' = [rstat EXCEPT ![r] = IF c = None THEN "500"
                                   ELSE IF verdict[c] = "signed" THEN "200" ELSE "422"]
  /\ rpc' = [rpc EXCEPT ![r] = "woken"]
  /\ UNCHANGED <<postVars, cellVars, gaugeVars, notaryVars, rses>>

\* Faulty variant: the timer is polled first.
ResultExpires_TimerFirst(r) ==
  /\ rpc[r] = "waiting"
  /\ rstat' = [rstat EXCEPT ![r] = "504"]
  /\ rpc' = [rpc EXCEPT ![r] = "overdue"]
  /\ UNCHANGED <<postVars, cellVars, gaugeVars, notaryVars, rses, rgot>>

\* Faulty variant: the handler waits without a timeout.
ResultExpires_Never(r) == FALSE /\ UNCHANGED vars

\* tokio::time::timeout polls the receiver before its timer: the timer wins (504)
\* only when that poll has found the receiver with nothing.
ResultExpires(r) ==
  /\ rpc[r] = "waiting"
  /\ chan[rses[r]] = None
  /\ ~SenderGone(rses[r])
  /\ rstat' = [rstat EXCEPT ![r] = "504"]
  /\ rpc' = [rpc EXCEPT ![r] = "overdue"]
  /\ UNCHANGED <<postVars, cellVars, gaugeVars, notaryVars, rses, rgot>>

\* The await ends and drops the receiver, with the outcome that another worker
\* thread may have sent to it since the poll.  There is no await between the two
\* steps, so a disconnect cannot separate them.
ResultTimesOut(r) ==
  /\ rpc[r] = "overdue"
  /\ rpc' = [rpc EXCEPT ![r] = "woken"]
  /\ UNCHANGED <<postVars, cellVars, gaugeVars, notaryVars, rses, rstat, rgot>>

\* Whatever the outcome, the session leaves the map and the answer is returned.
ResultResponds(r) ==
  /\ rpc[r] = "woken"
  /\ sessions' = sessions \ {rses[r]}
  /\ ResultEnds(r, rstat[r])
  /\ UNCHANGED <<post, ttl, cellVars, gaugeVars, notaryVars, rses, rgot>>

\* The client is gone while the handler awaits a lock ("found"), the receiver
\* ("waiting") or the second session lock ("woken").  The receiver, and an
\* outcome already read from it, are dropped; the session stays in the map.
ResultDropped(r) ==
  /\ rpc[r] \in {"found", "waiting", "woken"}
  /\ ResultEnds(r, IF rpc[r] = "found" THEN "gone" ELSE "dropped")
  /\ UNCHANGED <<postVars, cellVars, gaugeVars, notaryVars, rses, rgot>>

-----------------------------------------------------------------------------
\* The clients have no more requests and the server has finished its work.
Quiescent ==
  /\ \A s \in Session : post[s] \in {"refused", "full"} \/ ttl[s] \in {"expired", "noop"}
  /\ \A n \in NotaryReq : npc[n] \in {"idle", "done"}
  /\ \A r \in ResultReq : rpc[r] \in {"idle", "done"}
  /\ sessions = {}
  /\ permits = MaxActive
  /\ UNCHANGED vars

PostStep(s) ==
  \/ PostRefused(s) \/ PostAtCapacity(s) \/ PostInsert(s) \/ PostRespond(s) \/ TtlFires(s)

NotaryStep(n) ==
  \/ \E s \in Session : NotaryAcquire(n, s) \/ NotaryBusy(n, s)
  \/ NotaryLookup(n) \/ NotaryClaim(n) \/ NotaryConflict(n) \/ NotaryDropped(n)
  \/ UpgradeFails(n) \/ NotarizeStarts(n) \/ NotarizeEnds(n) \/ NotarizePanics(n)
  \/ Publish(n) \/ NotarizeReturns(n)

ResultStep(r) ==
  \/ \E s \in Session : ResultLookup(r, s)
  \/ ResultTake(r) \/ ResultConflict(r) \/ ResultWakes(r) \/ ResultExpires(r)
  \/ ResultTimesOut(r) \/ ResultResponds(r) \/ ResultDropped(r)

Next ==
  \/ \E s \in Session : PostStep(s)
  \/ \E n \in NotaryReq : NotaryStep(n)
  \/ \E r \in ResultReq : ResultStep(r)
  \/ Quiescent

Spec == Init /\ [][Next]_vars

-----------------------------------------------------------------------------
(* Fairness: the tokio scheduler runs every task that is ready, every sleep  *)
(* ends, every oneshot and lock wait is woken, a pending upgrade resolves,   *)
(* and a notarization ends because each of its stages is under a timeout.    *)
(* Nothing is assumed of the clients: they need not send a request, and      *)
(* they need not disconnect.                                                 *)

NotaryProgress(n) ==
  \/ NotaryLookup(n) \/ NotaryClaim(n) \/ NotaryConflict(n) \/ UpgradeFails(n)
  \/ NotarizeStarts(n) \/ NotarizeEnds(n) \/ NotarizePanics(n) \/ Publish(n)
  \/ NotarizeReturns(n)

ResultProgress(r) ==
  \/ ResultTake(r) \/ ResultConflict(r) \/ ResultWakes(r) \/ ResultExpires(r)
  \/ ResultTimesOut(r) \/ ResultResponds(r)

Fairness ==
  /\ \A s \in Session : WF_vars(PostRespond(s)) /\ WF_vars(TtlFires(s))
  /\ \A n \in NotaryReq : WF_vars(NotaryProgress(n))
  /\ \A r \in ResultReq : WF_vars(ResultProgress(r))

FairSpec == Spec /\ Fairness

-----------------------------------------------------------------------------
(* Type invariant *)

NotaryPhase == PermitPhases \cup {"idle", "done"}
ResultPhase == {"idle", "found", "waiting", "overdue", "woken", "done"}

\* Every variable has its type; in particular the semaphore never has a negative
\* number of permits nor more than max_active_sessions.
TypeOK ==
  /\ post \in [Session -> {"new", "refused", "full", "inserted", "open"}]
  /\ sessions \in SUBSET Session
  /\ ttl \in [Session -> {"unarmed", "armed", "expired", "noop"}]
  /\ claimed \in SUBSET Session
  /\ sender \in SUBSET Session
  /\ receiver \in SUBSET Session
  /\ chan \in [Session -> NotaryReq \cup {None}]
  /\ permits \in 0..MaxActive
  /\ active \in Nat
  /\ npc \in [NotaryReq -> NotaryPhase]
  /\ nses \in [NotaryReq -> Session \cup {None}]
  /\ nstat \in [NotaryReq -> {"none", "429", "404", "409", "gone", "upgrade failed",
                              "panicked", "finished"}]
  /\ verdict \in [NotaryReq -> {"none", "signed", "failed"}]
  /\ rpc \in [ResultReq -> ResultPhase]
  /\ rses \in [ResultReq -> Session \cup {None}]
  /\ rstat \in [ResultReq -> {"none", "404", "409", "200", "422", "500", "504",
                              "gone", "dropped"}]
  /\ rgot \in [ResultReq -> NotaryReq \cup {None}]

-----------------------------------------------------------------------------
(* Safety *)

PermitHolders == {n \in NotaryReq : HoldsPermit(n)}

\* Permits are conserved on every path of the handler and of the task it hands
\* the permit to (429, 404, 409, disconnect, failed upgrade, panic, return): the
\* free ones and the ones held add up to max_active_sessions.
PermitsConserved == permits + Cardinality(PermitHolders) = MaxActive

GaugedTasks == {n \in NotaryReq : npc[n] = "running" \/ nstat[n] = "panicked"}

\* The gauge counts the notarizations that run, plus one for each that panicked:
\* on no other path do increment and decrement get out of step.
GaugeTracksTasks == active = Cardinality(GaugedTasks)

\* n passed the compare_exchange on the verifier_claimed flag of its session.
HasClaimed(n) ==
  \/ npc[n] \in {"upgrading", "running", "publishing", "published"}
  \/ nstat[n] \in {"upgrade failed", "panicked", "finished"}

\* "Claim the session once" (README): over the whole life of a session at most
\* one request gets to run a verifier, whatever the handlers interleave.
OneVerifierPerSession ==
  \A m, n \in NotaryReq : HasClaimed(m) /\ HasClaimed(n) /\ nses[m] = nses[n] => m = n

\* The session map never holds more than max_pending_sessions entries, and every
\* entry has a TTL task (or the handler about to spawn one) that will remove it.
MapBoundedAndExpiring ==
  /\ Cardinality(sessions) <= MaxPending
  /\ \A s \in sessions : post[s] = "inserted" \/ ttl[s] = "armed"

\* r took the receiver of its session.
TookReceiver(r) ==
  rpc[r] \in {"waiting", "overdue", "woken"} \/ rstat[r] \in {"200", "422", "500", "504", "dropped"}

\* "Consume the one-time signed settlement result" (README): an outcome goes to
\* one result request at most, it is that of the session's own verifier, and 200
\* is answered for a signed settlement and for nothing else.
OutcomeDeliveredOnce ==
  \A q, r \in ResultReq :
    /\ TookReceiver(q) /\ TookReceiver(r) /\ rses[q] = rses[r] => q = r
    /\ rgot[r] # None => HasClaimed(rgot[r]) /\ nses[rgot[r]] = rses[r]
    /\ rstat[r] = "200" => rgot[r] # None /\ verdict[rgot[r]] = "signed"

\* "Settlement result channel closed unexpectedly" (500) is never answered: the
\* waiting handler's own Arc keeps the sender alive when the TTL, a failed upgrade
\* or a panic has dropped all the others, and a sent value reaches its receiver.
ChannelNeverCloses == \A r \in ResultReq : rstat[r] # "500"

\* A result request, one that runs or one still to come, can get the outcome of s.
Obtainable(s) ==
  /\ chan[s] # None
  /\ \/ /\ s \in receiver
        /\ s \in sessions \/ \E r \in ResultReq : rses[r] = s /\ rpc[r] = "found"
     \/ \E r \in ResultReq : rses[r] = s /\ rpc[r] = "waiting"

\* r has given up on the receiver of s: its client is gone, or its timer ran out.
GaveUp(r, s) == rses[r] = s /\ rstat[r] \in {"504", "dropped"}

\* This step hands the outcome of s to r, or ends r because its client is gone.
HandedOver(r, s) == rses[r] = s /\ rgot[r] # chan[s] /\ rgot'[r] = chan[s]
Disconnects(r, s) ==
  rses[r] = s /\ rpc[r] \in {"found", "waiting"} /\ rstat'[r] \in {"gone", "dropped"}

\* An outcome that this step publishes can be obtained, unless the session had expired
\* or the taker of its receiver had given up by then.
PublishReaches(n) ==
  npc[n] = "publishing" /\ npc'[n] = "published" =>
    \/ Obtainable(nses[n])'
    \/ ttl[nses[n]] = "expired"
    \/ \E r \in ResultReq : GaveUp(r, nses[n])

\* An outcome that could be obtained still can, unless this step hands it over, ends its
\* taker's connection or expires its session.
LossHasCause(s) ==
  Obtainable(s) /\ ~Obtainable(s)' =>
    \/ ttl[s] = "armed" /\ ttl'[s] = "expired"
    \/ \E r \in ResultReq : HandedOver(r, s) \/ Disconnects(r, s)

\* What can lose an outcome is the session's TTL, a client that disconnects, and a
\* timer that ran out before the outcome was sent; no retry, no 409 or 404, no full
\* map and no later timer can, and an outcome published before anyone asks is kept.
OutcomeLossExplained ==
  [][(\A n \in NotaryReq : PublishReaches(n)) /\ (\A s \in Session : LossHasCause(s))]_vars

\* A session that was answered (settlement, error or timeout) has left the map: a
\* second request for it is told 404 and its place is free for another session.
AnsweredSessionIsGone ==
  \A r \in ResultReq :
    rpc[r] = "done" /\ rstat[r] \in {"200", "422", "500", "504"} => rses[r] \notin sessions

-----------------------------------------------------------------------------
(* Liveness, under FairSpec *)

\* Every result request is answered, even if nobody ever notarizes the session,
\* the upgrade fails or the notarization panics.
ResultRequestsAnswered == \A r \in ResultReq : (rpc[r] # "idle") ~> (rpc[r] = "done")

\* Every session leaves the map, also one that was claimed and never settled.
SessionsLeaveMap == \A s \in Session : (s \in sessions) ~> (s \notin sessions)

\* The semaphore gets all its permits back whenever the clients pause.
PermitsComeBack == []<>(permits = MaxActive)
=============================================================================
