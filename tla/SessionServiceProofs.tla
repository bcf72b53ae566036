------------------------ MODULE SessionServiceProofs ------------------------
(***************************************************************************)
(* Proofs, for any number of sessions and requests and any capacities, of  *)
(* the safety properties of SessionService and of its refinement.          *)
(***************************************************************************)
EXTENDS SessionRefinement, FiniteSetTheorems, TLAPS

-----------------------------------------------------------------------------
(* The inductive invariant, in parts *)

\* Phase, session, status and verdict of a /notarize request go together, and it
\* names a session that was opened.
NotaryCoupled ==
  \A n \in NotaryReq :
    /\ nstat[n] # "none" <=> npc[n] = "done"
    /\ npc[n] # "idle" => nses[n] \in Session /\ post[nses[n]] = "open"
    /\ npc[n] \in {"publishing", "published"} \/ nstat[n] = "finished" <=> verdict[n] # "none"

\* The claim of a session is recorded in its flag, and is made by one request.
ClaimInv ==
  /\ \A n \in NotaryReq : HasClaimed(n) => nses[n] \in claimed
  /\ OneVerifierPerSession

\* An outcome in the channel was sent by the session's verifier, once.
ChanInv ==
  \A s \in Session :
    chan[s] # None =>
      /\ s \notin sender
      /\ nses[chan[s]] = s
      /\ npc[chan[s]] = "published" \/ nstat[chan[s]] = "finished"

\* A receiver that is still alive has its sender, or the sender's value.
ReceiverInv == \A s \in Session : ReceiverAlive(s) => s \in sender \/ chan[s] # None

\* Phase, session, status and outcome of a /session/result request go together.
ResultCoupled ==
  \A r \in ResultReq :
    /\ rpc[r] \in {"idle", "found", "waiting"} => rstat[r] = "none"
    /\ rpc[r] = "overdue" => rstat[r] = "504"
    /\ rpc[r] = "woken" => rstat[r] \in {"200", "422", "500", "504"}
    /\ rpc[r] # "idle" => rses[r] \in Session /\ post[rses[r]] = "open"
    /\ rgot[r] # None => rpc[r] \in {"woken", "done"} /\ rgot[r] = chan[rses[r]]
    /\ rgot[r] # None => rses[r] \in Session /\ TookReceiver(r)
    /\ rstat[r] = "200" => rgot[r] # None /\ verdict[rgot[r]] = "signed"
    /\ rstat[r] = "422" => rgot[r] # None

\* The receiver of a session is taken at most once.
TakeInv ==
  /\ \A r \in ResultReq : TookReceiver(r) => rses[r] \notin receiver
  /\ \A q, r \in ResultReq : TookReceiver(q) /\ TookReceiver(r) /\ rses[q] = rses[r] => q = r

\* A receiver that is not in the session data was taken by a result request.
TakenInv ==
  \A s \in Session : s \notin receiver => \E r \in ResultReq : rses[r] = s /\ TookReceiver(r)

\* A session that was inserted leaves the map by its TTL or after its receiver was taken.
LeftInv ==
  \A s \in Session :
    s \in sessions \/ post[s] \in {"new", "refused", "full"} \/ ttl[s] = "expired" \/ s \notin receiver

\* An id that was not inserted is in no map and has no timer.
PostInv ==
  \A s \in Session :
    /\ post[s] \in {"new", "refused", "full"} => s \notin sessions
    /\ post[s] # "open" <=> ttl[s] = "unarmed"

IInv ==
  /\ TypeOK /\ PermitsConserved /\ GaugeTracksTasks
  /\ NotaryCoupled /\ ClaimInv /\ ChanInv /\ ReceiverInv
  /\ ResultCoupled /\ TakeInv /\ TakenInv /\ PostInv /\ LeftInv
  /\ MapBoundedAndExpiring /\ ChannelNeverCloses
  /\ AnsweredSessionIsGone

-----------------------------------------------------------------------------
(* Frames: what a step of one endpoint leaves alone *)

\* A POST handler and a TTL task touch the map, their own progress and no more.
LEMMA PostFrame ==
  ASSUME NEW s \in Session, PostStep(s)
  PROVE  UNCHANGED <<claimed, sender, receiver, chan, permits, active, npc, nses, nstat,
                     verdict, rpc, rses, rstat, rgot>>
  BY DEF PostStep, PostRefused, PostAtCapacity, PostInsert, PostRespond, TtlFires,
         cellVars, gaugeVars, notaryVars, resultVars

\* A /notarize request touches neither the map nor the result side.
LEMMA NotaryFrame ==
  ASSUME NEW n \in NotaryReq, NotaryStep(n)
  PROVE  UNCHANGED <<post, sessions, ttl, receiver, rpc, rses, rstat, rgot>>
  BY DEF NotaryStep, NotaryAcquire, NotaryBusy, NotaryLookup, NotaryClaim, NotaryConflict,
         NotaryDropped, UpgradeFails, NotarizeStarts, NotarizeEnds, NotarizePanics, Publish,
         NotarizeReturns, postVars, cellVars, gaugeVars, resultVars

\* A /session/result request touches the map, the receiver and its own progress.
LEMMA ResultFrame ==
  ASSUME NEW r \in ResultReq, ResultStep(r)
  PROVE  UNCHANGED <<post, ttl, claimed, sender, chan, permits, active, npc, nses, nstat,
                     verdict>>
  BY DEF ResultStep, ResultLookup, ResultTake, ResultConflict, ResultWakes, ResultExpires,
         ResultTimesOut, ResultResponds, ResultDropped, postVars, cellVars, gaugeVars, notaryVars

-----------------------------------------------------------------------------
(* Counting *)

\* Moving n to phase ph puts it among the permit holders or takes it out.
LEMMA HoldersAfter ==
  ASSUME TypeOK, NEW n \in NotaryReq, NEW ph, npc' = [npc EXCEPT ![n] = ph]
  PROVE  PermitHolders' = IF ph \in PermitPhases THEN PermitHolders \cup {n}
                                                 ELSE PermitHolders \ {n}
  BY DEF TypeOK, PermitHolders, HoldsPermit

\* Adding an element to a finite set, or removing one, moves its size by one.
LEMMA CountByOne ==
  ASSUME NEW S, IsFiniteSet(S), NEW x
  PROVE  /\ Cardinality(S) \in Nat
         /\ x \notin S => Cardinality(S \cup {x}) = Cardinality(S) + 1
         /\ x \in S => Cardinality(S \ {x}) = Cardinality(S) - 1 /\ Cardinality(S) >= 1
  <1>1. Cardinality(S) \in Nat
    BY FS_CardinalityType
  <1>2. x \notin S => Cardinality(S \cup {x}) = Cardinality(S) + 1
    BY FS_AddElement
  <1>3. ASSUME x \in S
        PROVE  Cardinality(S \ {x}) = Cardinality(S) - 1 /\ Cardinality(S) >= 1
    <2>1. IsFiniteSet(S \ {x})
      BY FS_Subset
    <2>2. Cardinality(S \ {x}) \in Nat
      BY <2>1, FS_CardinalityType
    <2>3. Cardinality(S \ {x}) = Cardinality(S) - 1
      BY <1>3, FS_RemoveElement
    <2>4. QED
      BY <1>1, <2>2, <2>3
  <1>4. QED
    BY <1>1, <1>2, <1>3

\* The permit holders and the gauged tasks are finitely many.
LEMMA HoldersFinite == IsFiniteSet(PermitHolders) /\ IsFiniteSet(GaugedTasks)
  <1>1. PermitHolders \subseteq NotaryReq /\ GaugedTasks \subseteq NotaryReq
    BY DEF PermitHolders, GaugedTasks
  <1>2. QED
    BY <1>1, FS_Subset, ConstantsAssumption

\* A request that ends gives back the permit it holds, if it holds one.
LEMMA EndsCount ==
  ASSUME TypeOK, PermitsConserved, NEW n \in NotaryReq, NEW st, NotaryEnds(n, st)
  PROVE  PermitsConserved' /\ permits' \in 0..MaxActive
  <1>1. PermitHolders' = PermitHolders \ {n}
    BY HoldersAfter DEF NotaryEnds, PermitPhases
  <1>2. HoldsPermit(n) <=> n \in PermitHolders
    BY DEF PermitHolders
  <1>3. CASE n \in PermitHolders
    <2>1. Cardinality(PermitHolders') = Cardinality(PermitHolders) - 1
      BY <1>1, <1>3, CountByOne, HoldersFinite
    <2>2. Cardinality(PermitHolders) >= 1
      BY <1>3, CountByOne, HoldersFinite
    <2>3. permits' = permits + 1
      BY <1>2, <1>3 DEF NotaryEnds
    <2>4. permits \in 0..MaxActive /\ MaxActive \in Nat /\ Cardinality(PermitHolders) \in Nat
      BY CountByOne, HoldersFinite, ConstantsAssumption DEF TypeOK
    <2>5. permits + Cardinality(PermitHolders) = MaxActive
      BY DEF PermitsConserved
    <2>6. permits' + Cardinality(PermitHolders') = MaxActive /\ permits' \in 0..MaxActive
      BY <2>1, <2>2, <2>3, <2>4, <2>5
    <2>7. QED
      BY <2>6 DEF PermitsConserved
  <1>4. CASE n \notin PermitHolders
    <2>1. PermitHolders' = PermitHolders /\ permits' = permits
      BY <1>1, <1>2, <1>4 DEF NotaryEnds
    <2>2. QED
      BY <2>1 DEF PermitsConserved, TypeOK
  <1>5. QED
    BY <1>3, <1>4

\* A request that moves on with its permit does not change the count.
LEMMA KeepsCount ==
  ASSUME TypeOK, PermitsConserved, NEW n \in NotaryReq, NEW ph \in PermitPhases,
         HoldsPermit(n), npc' = [npc EXCEPT ![n] = ph], permits' = permits
  PROVE  PermitsConserved' /\ permits' \in 0..MaxActive
  <1>1. PermitHolders' = PermitHolders \cup {n}
    BY HoldersAfter
  <1>2. PermitHolders' = PermitHolders
    BY <1>1 DEF PermitHolders
  <1>3. QED
    BY <1>2 DEF PermitsConserved, TypeOK

\* Permits are conserved by every step.
LEMMA PermitsStep ==
  TypeOK /\ PermitsConserved /\ [Next]_vars => PermitsConserved' /\ permits' \in 0..MaxActive
  <1> SUFFICES ASSUME TypeOK, PermitsConserved, [Next]_vars
               PROVE  PermitsConserved' /\ permits' \in 0..MaxActive
    OBVIOUS
  <1>1. CASE permits' = permits /\ npc' = npc
    BY <1>1 DEF PermitsConserved, PermitHolders, HoldsPermit, TypeOK
  <1>2. ASSUME NEW n \in NotaryReq, NotaryStep(n)
        PROVE  PermitsConserved' /\ permits' \in 0..MaxActive
    <2>1. ASSUME NEW s \in Session, NotaryAcquire(n, s)
          PROVE  PermitsConserved' /\ permits' \in 0..MaxActive
      <3>1. PermitHolders' = PermitHolders \cup {n}
        BY <2>1, HoldersAfter DEF NotaryAcquire, PermitPhases
      <3>2. n \notin PermitHolders
        BY <2>1 DEF NotaryAcquire, PermitHolders, HoldsPermit, PermitPhases
      <3>3. permits > 0 /\ permits' = permits - 1
        BY <2>1 DEF NotaryAcquire
      <3>4. Cardinality(PermitHolders') = Cardinality(PermitHolders) + 1
        BY <3>1, <3>2, CountByOne, HoldersFinite
      <3>5. permits \in 0..MaxActive /\ MaxActive \in Nat /\ Cardinality(PermitHolders) \in Nat
        BY CountByOne, HoldersFinite, ConstantsAssumption DEF TypeOK
      <3>6. permits + Cardinality(PermitHolders) = MaxActive
        BY DEF PermitsConserved
      <3>7. permits' + Cardinality(PermitHolders') = MaxActive /\ permits' \in 0..MaxActive
        BY <3>3, <3>4, <3>5, <3>6
      <3>8. QED
        BY <3>7 DEF PermitsConserved
    <2>2. ASSUME NEW st, NotaryEnds(n, st)
          PROVE  PermitsConserved' /\ permits' \in 0..MaxActive
      BY <2>2, EndsCount
    <2>3. ASSUME NEW ph \in PermitPhases, HoldsPermit(n), npc' = [npc EXCEPT ![n] = ph],
                 permits' = permits
          PROVE  PermitsConserved' /\ permits' \in 0..MaxActive
      BY <2>3, KeepsCount
    <2>4. CASE NotaryLookup(n)
      BY <2>4, <2>2, <2>3 DEF NotaryLookup, HoldsPermit, PermitPhases
    <2>5. CASE NotaryClaim(n) \/ NotarizeStarts(n) \/ NotarizeEnds(n) \/ Publish(n)
      BY <2>5, <2>3 DEF NotaryClaim, NotarizeStarts, NotarizeEnds, Publish, HoldsPermit,
                        PermitPhases, gaugeVars
    <2>6. CASE \/ NotaryConflict(n) \/ NotaryDropped(n) \/ UpgradeFails(n)
               \/ NotarizePanics(n) \/ NotarizeReturns(n)
      BY <2>6, <2>2 DEF NotaryConflict, NotaryDropped, UpgradeFails, NotarizePanics,
                        NotarizeReturns
    <2>7. ASSUME NEW s \in Session, NotaryBusy(n, s)
          PROVE  PermitsConserved' /\ permits' \in 0..MaxActive
      BY <2>7, <2>2 DEF NotaryBusy
    <2>8. QED
      BY <1>2, <2>1, <2>4, <2>5, <2>6, <2>7 DEF NotaryStep
  <1>3. QED
    BY <1>1, <1>2, PostFrame, ResultFrame DEF Next, Quiescent, vars, gaugeVars, notaryVars

\* The gauge and the tasks it counts move together.
LEMMA GaugeStep ==
  TypeOK /\ NotaryCoupled /\ GaugeTracksTasks /\ [Next]_vars => GaugeTracksTasks' /\ active' \in Nat
  <1> SUFFICES ASSUME TypeOK, NotaryCoupled, GaugeTracksTasks, [Next]_vars
               PROVE  GaugeTracksTasks' /\ active' \in Nat
    OBVIOUS
  <1>1. CASE active' = active /\ GaugedTasks' = GaugedTasks
    BY <1>1 DEF GaugeTracksTasks, TypeOK
  <1>2. ASSUME NEW n \in NotaryReq, NotaryStep(n)
        PROVE  GaugeTracksTasks' /\ active' \in Nat
    <2>1. CASE NotarizeStarts(n)
      <3> nstat[n] # "panicked" /\ npc[n] # "running"
        BY <2>1 DEF NotarizeStarts, NotaryCoupled
      <3>1. n \notin GaugedTasks /\ GaugedTasks' = GaugedTasks \cup {n}
        BY <2>1 DEF NotarizeStarts, GaugedTasks, TypeOK
      <3>2. Cardinality(GaugedTasks') = Cardinality(GaugedTasks) + 1
        BY <3>1, CountByOne, HoldersFinite
      <3>3. active' = active + 1 /\ active = Cardinality(GaugedTasks) /\ active \in Nat
        BY <2>1 DEF NotarizeStarts, GaugeTracksTasks, TypeOK
      <3>4. QED
        BY <3>2, <3>3 DEF GaugeTracksTasks
    <2>2. CASE NotarizeEnds(n)
      <3>1. n \in GaugedTasks /\ GaugedTasks' = GaugedTasks \ {n}
        BY <2>2 DEF NotarizeEnds, GaugedTasks, NotaryCoupled, TypeOK
      <3>2. /\ Cardinality(GaugedTasks') = Cardinality(GaugedTasks) - 1
            /\ Cardinality(GaugedTasks) >= 1
        BY <3>1, CountByOne, HoldersFinite
      <3>3. active' = active - 1 /\ active = Cardinality(GaugedTasks) /\ active \in Nat
        BY <2>2 DEF NotarizeEnds, GaugeTracksTasks, TypeOK
      <3>4. QED
        BY <3>2, <3>3 DEF GaugeTracksTasks
    <2>3. CASE NotarizePanics(n)
      <3>1. GaugedTasks' = GaugedTasks /\ active' = active
        BY <2>3 DEF NotarizePanics, NotaryEnds, GaugedTasks, TypeOK
      <3>2. QED
        BY <1>1, <3>1
    <2>4. ASSUME NEW st, NotaryEnds(n, st), st # "panicked", npc[n] # "running", npc[n] # "done",
                 active' = active
          PROVE  GaugeTracksTasks' /\ active' \in Nat
      <3> nstat[n] # "panicked"
        BY <2>4 DEF NotaryCoupled
      <3>1. GaugedTasks' = GaugedTasks
        BY <2>4 DEF NotaryEnds, GaugedTasks, TypeOK
      <3>2. QED
        BY <1>1, <2>4, <3>1
    <2>5. ASSUME NEW ph, npc' = [npc EXCEPT ![n] = ph], ph # "running", npc[n] # "running",
                 nstat' = nstat, active' = active
          PROVE  GaugeTracksTasks' /\ active' \in Nat
      <3>1. GaugedTasks' = GaugedTasks
        BY <2>5 DEF GaugedTasks, TypeOK
      <3>2. QED
        BY <1>1, <2>5, <3>1
    <2>6. ASSUME NEW s \in Session, NotaryAcquire(n, s) \/ NotaryBusy(n, s)
          PROVE  GaugeTracksTasks' /\ active' \in Nat
      BY <2>4, <2>5, <2>6 DEF NotaryAcquire, NotaryBusy
    <2>7. CASE NotaryLookup(n)
      BY <2>4, <2>5, <2>7 DEF NotaryLookup
    <2>8. CASE NotaryClaim(n) \/ Publish(n)
      BY <2>5, <2>8 DEF NotaryClaim, Publish, gaugeVars
    <2>9. CASE NotaryConflict(n) \/ NotaryDropped(n) \/ UpgradeFails(n) \/ NotarizeReturns(n)
      BY <2>4, <2>9 DEF NotaryConflict, NotaryDropped, UpgradeFails, NotarizeReturns
    <2>10. QED
      BY <1>2, <2>1, <2>2, <2>3, <2>6, <2>7, <2>8, <2>9 DEF NotaryStep
  <1>3. CASE active' = active /\ npc' = npc /\ nstat' = nstat
    BY <1>1, <1>3 DEF GaugedTasks
  <1>4. QED
    BY <1>2, <1>3, PostFrame, ResultFrame DEF Next, Quiescent, vars, gaugeVars, notaryVars

-----------------------------------------------------------------------------
(* Each part of the invariant is preserved *)

\* Every step keeps every variable in its type.
LEMMA TypeStep ==
  /\ TypeOK /\ PermitsConserved /\ NotaryCoupled /\ GaugeTracksTasks /\ ResultCoupled
  /\ [Next]_vars
  => TypeOK'
  <1> SUFFICES ASSUME TypeOK, PermitsConserved, NotaryCoupled, GaugeTracksTasks, ResultCoupled,
                      [Next]_vars
               PROVE  TypeOK'
    OBVIOUS
  <1>1. permits' \in 0..MaxActive
    BY PermitsStep
  <1>2. active' \in Nat
    BY GaugeStep
  <1>3. ASSUME NEW s \in Session, PostStep(s)
        PROVE  TypeOK'
    BY <1>1, <1>2, <1>3, PostFrame
       DEF PostStep, PostRefused, PostAtCapacity, PostInsert, PostRespond, TtlFires, TypeOK
  <1>4. ASSUME NEW n \in NotaryReq, NotaryStep(n)
        PROVE  TypeOK'
    <2>1. UNCHANGED <<post, sessions, ttl, receiver, rpc, rses, rstat, rgot>>
      BY <1>4, NotaryFrame
    <2>2. ASSUME NEW s \in Session, NotaryAcquire(n, s) \/ NotaryBusy(n, s)
          PROVE  TypeOK'
      BY <1>1, <1>2, <2>1, <2>2
         DEF NotaryAcquire, NotaryBusy, NotaryEnds, TypeOK, NotaryPhase, PermitPhases, cellVars
    <2>3. CASE NotaryLookup(n) \/ NotaryConflict(n) \/ NotaryDropped(n)
      <3>1. npc' \in [NotaryReq -> NotaryPhase]
        <4>1. npc' = [npc EXCEPT ![n] = "found"] \/ npc' = [npc EXCEPT ![n] = "done"]
          BY <2>3 DEF NotaryLookup, NotaryConflict, NotaryDropped, NotaryEnds
        <4>2. QED
          BY <4>1 DEF TypeOK, NotaryPhase, PermitPhases
      <3>2. nstat' \in [NotaryReq -> {"none", "429", "404", "409", "gone", "upgrade failed",
                                      "panicked", "finished"}]
        BY <2>3 DEF NotaryLookup, NotaryConflict, NotaryDropped, NotaryEnds, TypeOK
      <3>3. UNCHANGED <<claimed, sender, chan, nses, verdict>>
        BY <2>3 DEF NotaryLookup, NotaryConflict, NotaryDropped, cellVars
      <3>4. QED
        BY <1>1, <1>2, <2>1, <3>1, <3>2, <3>3 DEF TypeOK
    <2>8. CASE NotaryClaim(n)
      <3>1. nses[n] \in Session
        BY <2>8 DEF NotaryClaim, NotaryCoupled
      <3>2. QED
        BY <1>1, <1>2, <2>1, <2>8, <3>1 DEF NotaryClaim, TypeOK, NotaryPhase, PermitPhases
    <2>4. CASE UpgradeFails(n) \/ NotarizeStarts(n) \/ NotarizePanics(n) \/ NotarizeReturns(n)
      BY <1>1, <1>2, <2>1, <2>4
         DEF UpgradeFails, NotarizeStarts, NotarizePanics, NotarizeReturns, NotaryEnds, TypeOK,
             NotaryPhase, PermitPhases, cellVars
    <2>5. CASE NotarizeEnds(n)
      <3>1. verdict' \in [NotaryReq -> {"none", "signed", "failed"}]
        BY <2>5 DEF NotarizeEnds, TypeOK
      <3>2. npc' \in [NotaryReq -> NotaryPhase]
        BY <2>5 DEF NotarizeEnds, TypeOK, NotaryPhase, PermitPhases
      <3>3. UNCHANGED <<claimed, sender, chan, permits, nses, nstat>>
        BY <2>5 DEF NotarizeEnds, cellVars
      <3>4. QED
        BY <1>1, <1>2, <2>1, <3>1, <3>2, <3>3 DEF TypeOK
    <2>6. CASE Publish(n)
      BY <1>1, <1>2, <2>1, <2>6 DEF Publish, TypeOK, NotaryPhase, PermitPhases
    <2>7. QED
      BY <1>4, <2>2, <2>3, <2>4, <2>5, <2>6, <2>8 DEF NotaryStep
  <1>5. ASSUME NEW r \in ResultReq, ResultStep(r)
        PROVE  TypeOK'
    <2>1. UNCHANGED <<post, ttl, claimed, sender, chan, permits, active, npc, nses, nstat, verdict>>
      BY <1>5, ResultFrame
    <2>2. ASSUME NEW s \in Session, ResultLookup(r, s)
          PROVE  TypeOK'
      BY <2>1, <2>2 DEF ResultLookup, ResultEnds, TypeOK, ResultPhase, postVars, cellVars
    <2>3. CASE ResultTake(r) \/ ResultExpires(r) \/ ResultTimesOut(r)
      <3>1. /\ rpc' \in [ResultReq -> ResultPhase]
            /\ receiver' \in SUBSET Session
        BY <2>3 DEF ResultTake, ResultExpires, ResultTimesOut, TypeOK, ResultPhase, cellVars
      <3>2. rstat' \in [ResultReq -> {"none", "404", "409", "200", "422", "500", "504", "gone",
                                      "dropped"}]
        BY <2>3 DEF ResultTake, ResultExpires, ResultTimesOut, TypeOK
      <3>3. UNCHANGED <<sessions, rses, rgot>>
        BY <2>3 DEF ResultTake, ResultExpires, ResultTimesOut, postVars
      <3>4. QED
        BY <2>1, <3>1, <3>2, <3>3 DEF TypeOK
    <2>7. CASE ResultConflict(r) \/ ResultDropped(r)
      BY <2>1, <2>7 DEF ResultConflict, ResultDropped, ResultEnds, TypeOK, ResultPhase, postVars,
                        cellVars
    <2>4. CASE ResultResponds(r)
      BY <2>1, <2>4 DEF ResultResponds, ResultEnds, TypeOK, ResultPhase, cellVars
    <2>5. CASE ResultWakes(r)
      <3>1. rses[r] \in Session => chan[rses[r]] \in NotaryReq \cup {None}
        BY DEF TypeOK
      <3>2. rses[r] \in Session
        BY <2>5 DEF ResultWakes, ResultCoupled
      <3>3. QED
        BY <2>1, <2>5, <3>1, <3>2 DEF ResultWakes, TypeOK, ResultPhase, postVars, cellVars
    <2>6. QED
      BY <1>5, <2>2, <2>3, <2>4, <2>5, <2>7 DEF ResultStep
  <1>6. CASE UNCHANGED vars
    BY <1>6 DEF vars, postVars, cellVars, gaugeVars, notaryVars, resultVars, TypeOK
  <1>7. QED
    BY <1>3, <1>4, <1>5, <1>6 DEF Next, Quiescent

\* A /notarize step leaves the record of every other request alone.
LEMMA NotaryOthers ==
  ASSUME TypeOK, NEW n \in NotaryReq, NotaryStep(n), NEW m \in NotaryReq, m # n
  PROVE  npc'[m] = npc[m] /\ nses'[m] = nses[m] /\ nstat'[m] = nstat[m] /\ verdict'[m] = verdict[m]
  <1>1. ASSUME NEW s \in Session, NotaryAcquire(n, s) \/ NotaryBusy(n, s)
        PROVE  /\ npc'[m] = npc[m] /\ nses'[m] = nses[m]
               /\ nstat'[m] = nstat[m] /\ verdict'[m] = verdict[m]
    BY <1>1 DEF NotaryAcquire, NotaryBusy, NotaryEnds, TypeOK
  <1>2. CASE NotaryLookup(n) \/ NotaryDropped(n)
    BY <1>2 DEF NotaryLookup, NotaryDropped, NotaryEnds, TypeOK
  <1>3. CASE NotaryClaim(n) \/ NotaryConflict(n)
    BY <1>3 DEF NotaryClaim, NotaryConflict, NotaryEnds, TypeOK
  <1>4. CASE UpgradeFails(n) \/ NotarizeStarts(n)
    BY <1>4 DEF UpgradeFails, NotarizeStarts, NotaryEnds, TypeOK
  <1>5. CASE NotarizeEnds(n) \/ NotarizePanics(n)
    BY <1>5 DEF NotarizeEnds, NotarizePanics, NotaryEnds, TypeOK
  <1>6. CASE Publish(n) \/ NotarizeReturns(n)
    BY <1>6 DEF Publish, NotarizeReturns, NotaryEnds, TypeOK
  <1>7. QED
    BY <1>1, <1>2, <1>3, <1>4, <1>5, <1>6 DEF NotaryStep

\* What a /notarize step does to the record of its own request.
LEMMA NotarySelf ==
  ASSUME TypeOK, NEW n \in NotaryReq, NotaryStep(n)
  PROVE  \/ /\ npc[n] = "idle" /\ nses'[n] \in Session /\ post[nses'[n]] = "open"
            /\ verdict'[n] = verdict[n]
            /\ \/ npc'[n] = "permit" /\ nstat'[n] = nstat[n]
               \/ npc'[n] = "done" /\ nstat'[n] = "429"
            /\ UNCHANGED <<claimed, sender, chan>>
         \/ /\ npc[n] = "permit" /\ nses'[n] = nses[n] /\ verdict'[n] = verdict[n]
            /\ \/ npc'[n] = "found" /\ nstat'[n] = nstat[n]
               \/ npc'[n] = "done" /\ nstat'[n] \in {"404", "gone"}
            /\ UNCHANGED <<claimed, sender, chan>>
         \/ /\ npc[n] = "found" /\ nses'[n] = nses[n] /\ verdict'[n] = verdict[n]
            /\ npc'[n] = "done" /\ nstat'[n] = "409"
            /\ UNCHANGED <<claimed, sender, chan>>
         \/ /\ npc[n] = "found" /\ nses'[n] = nses[n] /\ verdict'[n] = verdict[n]
            /\ npc'[n] = "upgrading" /\ nstat'[n] = nstat[n]
            /\ nses[n] \notin claimed /\ claimed' = claimed \cup {nses[n]}
            /\ UNCHANGED <<sender, chan>>
         \/ /\ npc[n] = "upgrading" /\ nses'[n] = nses[n] /\ verdict'[n] = verdict[n]
            /\ \/ npc'[n] = "running" /\ nstat'[n] = nstat[n]
               \/ npc'[n] = "done" /\ nstat'[n] = "upgrade failed"
            /\ UNCHANGED <<claimed, sender, chan>>
         \/ /\ npc[n] = "running" /\ nses'[n] = nses[n]
            /\ \/ npc'[n] = "publishing" /\ nstat'[n] = nstat[n] /\ verdict'[n] # "none"
               \/ npc'[n] = "done" /\ nstat'[n] = "panicked" /\ verdict'[n] = verdict[n]
            /\ UNCHANGED <<claimed, sender, chan>>
         \/ /\ npc[n] = "publishing" /\ nses'[n] = nses[n] /\ verdict'[n] = verdict[n]
            /\ npc'[n] = "published" /\ nstat'[n] = nstat[n]
            /\ UNCHANGED claimed
            /\ sender' = sender \ {nses[n]}
            /\ chan' = IF nses[n] \in sender /\ ReceiverAlive(nses[n])
                         THEN [chan EXCEPT ![nses[n]] = n] ELSE chan
         \/ /\ npc[n] = "published" /\ nses'[n] = nses[n] /\ verdict'[n] = verdict[n]
            /\ npc'[n] = "done" /\ nstat'[n] = "finished"
            /\ UNCHANGED <<claimed, sender, chan>>
  <1>1. ASSUME NEW s \in Session, NotaryAcquire(n, s) \/ NotaryBusy(n, s)
        PROVE  /\ npc[n] = "idle" /\ nses'[n] \in Session /\ post[nses'[n]] = "open"
               /\ verdict'[n] = verdict[n]
               /\ \/ npc'[n] = "permit" /\ nstat'[n] = nstat[n]
                  \/ npc'[n] = "done" /\ nstat'[n] = "429"
               /\ UNCHANGED <<claimed, sender, chan>>
    BY <1>1 DEF NotaryAcquire, NotaryBusy, NotaryEnds, TypeOK, cellVars
  <1>2. CASE NotaryLookup(n) \/ NotaryDropped(n)
    BY <1>2 DEF NotaryLookup, NotaryDropped, NotaryEnds, TypeOK, cellVars
  <1>3. CASE NotaryClaim(n)
    BY <1>3 DEF NotaryClaim, TypeOK
  <1>4. CASE NotaryConflict(n)
    BY <1>4 DEF NotaryConflict, NotaryEnds, TypeOK, cellVars
  <1>5. CASE UpgradeFails(n) \/ NotarizeStarts(n)
    BY <1>5 DEF UpgradeFails, NotarizeStarts, NotaryEnds, TypeOK, cellVars
  <1>6. CASE NotarizeEnds(n) \/ NotarizePanics(n)
    BY <1>6 DEF NotarizeEnds, NotarizePanics, NotaryEnds, TypeOK, cellVars
  <1>7. CASE Publish(n)
    BY <1>7 DEF Publish, TypeOK
  <1>8. CASE NotarizeReturns(n)
    BY <1>8 DEF NotarizeReturns, NotaryEnds, TypeOK, cellVars
  <1>9. QED
    BY <1>1, <1>2, <1>3, <1>4, <1>5, <1>6, <1>7, <1>8 DEF NotaryStep

\* An id that is open stays open.
LEMMA OpenStays ==
  ASSUME TypeOK, [Next]_vars, NEW s \in Session, post[s] = "open"
  PROVE  post'[s] = "open"
  <1>1. ASSUME NEW t \in Session, PostStep(t)
        PROVE  post'[s] = "open"
    BY <1>1 DEF PostStep, PostRefused, PostAtCapacity, PostInsert, PostRespond, TtlFires, TypeOK
  <1>2. QED
    BY <1>1, NotaryFrame, ResultFrame DEF Next, Quiescent, vars, postVars

\* The record of a /notarize request stays coupled.
LEMMA NotaryCoupledStep == TypeOK /\ NotaryCoupled /\ [Next]_vars => NotaryCoupled'
  <1> SUFFICES ASSUME TypeOK, NotaryCoupled, [Next]_vars, NEW m \in NotaryReq
               PROVE  /\ nstat'[m] # "none" <=> npc'[m] = "done"
                      /\ npc'[m] # "idle" => nses'[m] \in Session /\ post'[nses'[m]] = "open"
                      /\ npc'[m] \in {"publishing", "published"} \/ nstat'[m] = "finished"
                           <=> verdict'[m] # "none"
    BY DEF NotaryCoupled
  <1> DEFINE Goal == /\ nstat'[m] # "none" <=> npc'[m] = "done"
                     /\ npc'[m] # "idle" => nses'[m] \in Session /\ post'[nses'[m]] = "open"
                     /\ npc'[m] \in {"publishing", "published"} \/ nstat'[m] = "finished"
                          <=> verdict'[m] # "none"
  <1>1. /\ nstat[m] # "none" <=> npc[m] = "done"
        /\ npc[m] # "idle" => nses[m] \in Session /\ post[nses[m]] = "open"
        /\ npc[m] \in {"publishing", "published"} \/ nstat[m] = "finished" <=> verdict[m] # "none"
    BY DEF NotaryCoupled
  <1>2. CASE npc'[m] = npc[m] /\ nses'[m] = nses[m] /\ nstat'[m] = nstat[m] /\ verdict'[m] = verdict[m]
    BY <1>1, <1>2, OpenStays
  <1>3. ASSUME NEW n \in NotaryReq, NotaryStep(n)
        PROVE  Goal
    <2>1. CASE n # m
      BY <1>2, <1>3, <2>1, NotaryOthers
    <2>2. CASE n = m
      <3>1. nses'[m] \in Session /\ post[nses'[m]] = "open" => post'[nses'[m]] = "open"
        BY OpenStays
      <3>2. QED
        BY <1>1, <1>3, <2>2, <3>1, NotarySelf
    <2>3. QED
      BY <2>1, <2>2
  <1>4. QED
    BY <1>2, <1>3, PostFrame, ResultFrame DEF Next, Quiescent, vars, notaryVars

\* The claim flag and the claimers stay in step.
LEMMA ClaimStep == TypeOK /\ NotaryCoupled /\ ClaimInv /\ [Next]_vars => ClaimInv'
  <1> SUFFICES ASSUME TypeOK, NotaryCoupled, ClaimInv, [Next]_vars
               PROVE  ClaimInv'
    OBVIOUS
  <1>1. CASE UNCHANGED <<claimed, npc, nses, nstat>>
    BY <1>1 DEF ClaimInv, OneVerifierPerSession, HasClaimed
  <1>2. ASSUME NEW n \in NotaryReq, NotaryStep(n)
        PROVE  ClaimInv'
    <2>1. ASSUME NEW m \in NotaryReq, m # n
          PROVE  (HasClaimed(m)' <=> HasClaimed(m)) /\ nses'[m] = nses[m]
      BY <1>2, <2>1, NotaryOthers DEF HasClaimed
    <2>2. CASE HasClaimed(n)' => HasClaimed(n) /\ nses'[n] = nses[n]
      <3>1. claimed \subseteq claimed'
        BY <1>2, NotarySelf
      <3>2. QED
        BY <2>1, <2>2, <3>1 DEF ClaimInv, OneVerifierPerSession
    <2>3. CASE /\ nses'[n] = nses[n] /\ nses[n] \notin claimed
               /\ claimed' = claimed \cup {nses[n]}
      BY <2>1, <2>3 DEF ClaimInv, OneVerifierPerSession
    <2>4. nstat[n] # "none" <=> npc[n] = "done"
      BY DEF NotaryCoupled
    <2>5. QED
      BY <1>2, <2>2, <2>3, <2>4, NotarySelf DEF HasClaimed
  <1>3. QED
    BY <1>1, <1>2, PostFrame, ResultFrame DEF Next, Quiescent, vars, cellVars, notaryVars

\* A /session/result step leaves the record of every other request alone.
LEMMA ResultOthers ==
  ASSUME TypeOK, NEW r \in ResultReq, ResultStep(r), NEW q \in ResultReq, q # r
  PROVE  rpc'[q] = rpc[q] /\ rses'[q] = rses[q] /\ rstat'[q] = rstat[q] /\ rgot'[q] = rgot[q]
  <1>1. ASSUME NEW s \in Session, ResultLookup(r, s)
        PROVE  rpc'[q] = rpc[q] /\ rses'[q] = rses[q] /\ rstat'[q] = rstat[q] /\ rgot'[q] = rgot[q]
    BY <1>1 DEF ResultLookup, ResultEnds, TypeOK
  <1>2. CASE ResultTake(r) \/ ResultConflict(r)
    BY <1>2 DEF ResultTake, ResultConflict, ResultEnds, TypeOK
  <1>3. CASE ResultWakes(r)
    BY <1>3 DEF ResultWakes, TypeOK
  <1>4. CASE ResultExpires(r) \/ ResultTimesOut(r) \/ ResultResponds(r)
    BY <1>4 DEF ResultExpires, ResultTimesOut, ResultResponds, ResultEnds, TypeOK
  <1>5. CASE ResultDropped(r)
    BY <1>5 DEF ResultDropped, ResultEnds, TypeOK
  <1>6. QED
    BY <1>1, <1>2, <1>3, <1>4, <1>5 DEF ResultStep

\* What a /session/result step does to the record of its own request, to the
\* receivers and to the map.
LEMMA ResultSelf ==
  ASSUME TypeOK, NEW r \in ResultReq, ResultStep(r)
  PROVE  \/ /\ rpc[r] = "idle" /\ rses'[r] \in Session /\ post[rses'[r]] = "open"
            /\ rgot'[r] = rgot[r]
            /\ \/ rpc'[r] = "found" /\ rstat'[r] = rstat[r]
               \/ rpc'[r] = "done" /\ rstat'[r] = "404"
            /\ UNCHANGED <<receiver, sessions>>
         \/ /\ rpc[r] = "found" /\ rses'[r] = rses[r] /\ rgot'[r] = rgot[r]
            /\ rpc'[r] = "waiting" /\ rstat'[r] = rstat[r]
            /\ rses[r] \in receiver /\ receiver' = receiver \ {rses[r]}
            /\ UNCHANGED sessions
         \/ /\ rpc[r] = "found" /\ rses'[r] = rses[r] /\ rgot'[r] = rgot[r]
            /\ rpc'[r] = "done" /\ rstat'[r] \in {"409", "gone"}
            /\ rstat'[r] = "409" => rses[r] \notin receiver
            /\ UNCHANGED <<receiver, sessions>>
         \/ /\ rpc[r] = "waiting" /\ rses'[r] = rses[r] /\ rgot'[r] = chan[rses[r]]
            /\ chan[rses[r]] # None \/ SenderGone(rses[r])
            /\ rpc'[r] = "woken"
            /\ rstat'[r] = IF chan[rses[r]] = None THEN "500"
                           ELSE IF verdict[chan[rses[r]]] = "signed" THEN "200" ELSE "422"
            /\ UNCHANGED <<receiver, sessions>>
         \/ /\ rpc[r] = "waiting" /\ rses'[r] = rses[r] /\ rgot'[r] = rgot[r]
            /\ chan[rses[r]] = None
            /\ rpc'[r] = "overdue" /\ rstat'[r] = "504"
            /\ UNCHANGED <<receiver, sessions>>
         \/ /\ rpc[r] = "overdue" /\ rses'[r] = rses[r] /\ rgot'[r] = rgot[r]
            /\ rpc'[r] = "woken" /\ rstat'[r] = rstat[r]
            /\ UNCHANGED <<receiver, sessions>>
         \/ /\ rpc[r] = "woken" /\ rses'[r] = rses[r] /\ rgot'[r] = rgot[r]
            /\ rpc'[r] = "done" /\ rstat'[r] = rstat[r]
            /\ sessions' = sessions \ {rses[r]}
            /\ UNCHANGED receiver
         \/ /\ rpc[r] \in {"waiting", "woken"} /\ rses'[r] = rses[r] /\ rgot'[r] = rgot[r]
            /\ rpc'[r] = "done" /\ rstat'[r] = "dropped"
            /\ UNCHANGED <<receiver, sessions>>
  <1>1. ASSUME NEW s \in Session, ResultLookup(r, s)
        PROVE  /\ rpc[r] = "idle" /\ rses'[r] \in Session /\ post[rses'[r]] = "open"
               /\ rgot'[r] = rgot[r]
               /\ \/ rpc'[r] = "found" /\ rstat'[r] = rstat[r]
                  \/ rpc'[r] = "done" /\ rstat'[r] = "404"
               /\ UNCHANGED <<receiver, sessions>>
    BY <1>1 DEF ResultLookup, ResultEnds, TypeOK, postVars, cellVars
  <1>2. CASE ResultTake(r)
    BY <1>2 DEF ResultTake, TypeOK, postVars
  <1>3. CASE ResultConflict(r)
    BY <1>3 DEF ResultConflict, ResultEnds, TypeOK, postVars, cellVars
  <1>4. CASE ResultWakes(r)
    BY <1>4 DEF ResultWakes, TypeOK, postVars, cellVars
  <1>5. CASE ResultExpires(r)
    BY <1>5 DEF ResultExpires, TypeOK, postVars, cellVars
  <1>9. CASE ResultTimesOut(r)
    BY <1>9 DEF ResultTimesOut, TypeOK, postVars, cellVars
  <1>6. CASE ResultResponds(r)
    BY <1>6 DEF ResultResponds, ResultEnds, TypeOK, cellVars
  <1>7. CASE ResultDropped(r)
    BY <1>7 DEF ResultDropped, ResultEnds, TypeOK, postVars, cellVars
  <1>8. QED
    BY <1>1, <1>2, <1>3, <1>4, <1>5, <1>6, <1>7, <1>9 DEF ResultStep

\* An outcome in the channel stays that of the session's verifier.
LEMMA ChanStep == TypeOK /\ NotaryCoupled /\ ChanInv /\ [Next]_vars => ChanInv'
  <1> SUFFICES ASSUME TypeOK, NotaryCoupled, ChanInv, [Next]_vars
               PROVE  ChanInv'
    OBVIOUS
  <1>1. CASE UNCHANGED <<sender, chan, npc, nses, nstat>>
    BY <1>1 DEF ChanInv
  <1>2. ASSUME NEW n \in NotaryReq, NotaryStep(n)
        PROVE  ChanInv'
    <2> SUFFICES ASSUME NEW s \in Session, chan'[s] # None
                 PROVE  /\ s \notin sender'
                        /\ nses'[chan'[s]] = s
                        /\ npc'[chan'[s]] = "published" \/ nstat'[chan'[s]] = "finished"
      BY DEF ChanInv
    <2>1. nstat[n] # "none" <=> npc[n] = "done"
      BY DEF NotaryCoupled
    <2>2. sender' \subseteq sender
      BY <1>2, NotarySelf
    <2>3. CASE chan'[s] = chan[s]
      <3>1. /\ s \notin sender /\ nses[chan[s]] = s
            /\ npc[chan[s]] = "published" \/ nstat[chan[s]] = "finished"
        BY <2>3 DEF ChanInv
      <3>2. chan[s] \in NotaryReq
        BY <2>3 DEF TypeOK
      <3>3. CASE chan[s] # n
        BY <1>2, <2>2, <2>3, <3>1, <3>2, <3>3, NotaryOthers
      <3>4. CASE chan[s] = n
        BY <1>2, <2>1, <2>2, <2>3, <3>1, <3>4, NotarySelf
      <3>5. QED
        BY <3>3, <3>4
    <2>4. CASE chan'[s] # chan[s]
      <3>1. /\ npc'[n] = "published" /\ nses'[n] = nses[n]
            /\ sender' = sender \ {nses[n]}
            /\ chan' = [chan EXCEPT ![nses[n]] = n]
        BY <1>2, <2>4, NotarySelf
      <3>2. nses[n] = s /\ chan'[s] = n
        BY <2>4, <3>1 DEF TypeOK
      <3>3. QED
        BY <3>1, <3>2
    <2>5. QED
      BY <2>3, <2>4
  <1>3. QED
    BY <1>1, <1>2, PostFrame, ResultFrame DEF Next, Quiescent, vars, cellVars, notaryVars

\* An outcome that was sent is never replaced, and its verdict never changes.
LEMMA ChanStable ==
  ASSUME TypeOK, NotaryCoupled, ChanInv, [Next]_vars, NEW s \in Session, chan[s] # None
  PROVE  chan'[s] = chan[s] /\ verdict'[chan[s]] = verdict[chan[s]]
  <1>1. /\ chan[s] \in NotaryReq /\ s \notin sender
        /\ npc[chan[s]] = "published" \/ nstat[chan[s]] = "finished"
    <2>1. chan[s] \in NotaryReq
      BY DEF TypeOK
    <2>2. QED
      BY <2>1 DEF ChanInv
  <1>2. nstat[chan[s]] # "none" <=> npc[chan[s]] = "done"
    BY <1>1 DEF NotaryCoupled
  <1>3. ASSUME NEW n \in NotaryReq, NotaryStep(n)
        PROVE  chan'[s] = chan[s] /\ verdict'[chan[s]] = verdict[chan[s]]
    <2>1. chan'[s] = chan[s]
      BY <1>1, <1>3, NotarySelf DEF TypeOK
    <2>2. CASE n = chan[s]
      BY <1>1, <1>2, <1>3, <2>1, <2>2, NotarySelf
    <2>3. CASE n # chan[s]
      BY <1>1, <1>3, <2>1, <2>3, NotaryOthers
    <2>4. QED
      BY <2>2, <2>3
  <1>4. QED
    BY <1>3, PostFrame, ResultFrame DEF Next, Quiescent, vars, cellVars, notaryVars

\* A live receiver keeps its sender until the sender's value is there.
LEMMA ReceiverStep ==
  TypeOK /\ NotaryCoupled /\ ChanInv /\ ReceiverInv /\ [Next]_vars => ReceiverInv'
  <1> SUFFICES ASSUME TypeOK, NotaryCoupled, ChanInv, ReceiverInv, [Next]_vars,
                      NEW s \in Session, ReceiverAlive(s)'
               PROVE  s \in sender' \/ chan'[s] # None
    BY DEF ReceiverInv
  <1>1. CASE UNCHANGED <<sender, chan, receiver, rpc, rses>>
    BY <1>1 DEF ReceiverInv, ReceiverAlive
  <1>2. ASSUME NEW n \in NotaryReq, NotaryStep(n)
        PROVE  s \in sender' \/ chan'[s] # None
    <2>1. ReceiverAlive(s)
      BY <1>2, NotaryFrame DEF ReceiverAlive
    <2>2. s \in sender \/ chan[s] # None
      BY <2>1 DEF ReceiverInv
    <2>3. CASE sender' = sender /\ chan' = chan
      BY <2>2, <2>3
    <2>4. CASE /\ sender' = sender \ {nses[n]}
               /\ chan' = IF nses[n] \in sender /\ ReceiverAlive(nses[n])
                            THEN [chan EXCEPT ![nses[n]] = n] ELSE chan
      <3>1. CASE nses[n] # s
        BY <2>2, <2>4, <3>1 DEF TypeOK
      <3>2. CASE nses[n] = s
        <4>1. n # None
          BY ConstantsAssumption
        <4>2. QED
          BY <2>1, <2>2, <2>4, <3>2, <4>1 DEF TypeOK
      <3>3. QED
        BY <3>1, <3>2
    <2>5. QED
      BY <1>2, <2>3, <2>4, NotarySelf
  <1>3. ASSUME NEW r \in ResultReq, ResultStep(r)
        PROVE  s \in sender' \/ chan'[s] # None
    <2>1. ReceiverAlive(s)
      <3>1. CASE s \in receiver'
        BY <1>3, <3>1, ResultSelf DEF ReceiverAlive
      <3>2. ASSUME NEW q \in ResultReq, rses'[q] = s, rpc'[q] \in {"waiting", "overdue"}
            PROVE  ReceiverAlive(s)
        <4>1. CASE q # r
          BY <1>3, <3>2, <4>1, ResultOthers DEF ReceiverAlive
        <4>2. CASE q = r
          BY <1>3, <3>2, <4>2, ResultSelf DEF ReceiverAlive
        <4>3. QED
          BY <4>1, <4>2
      <3>3. QED
        BY <3>1, <3>2 DEF ReceiverAlive
    <2>2. QED
      BY <1>3, <2>1, ResultFrame DEF ReceiverInv
  <1>4. QED
    BY <1>1, <1>2, <1>3, PostFrame DEF Next, Quiescent, vars, cellVars, resultVars

\* The record of a /session/result request stays coupled.
LEMMA ResultCoupledStep ==
  TypeOK /\ NotaryCoupled /\ ChanInv /\ ResultCoupled /\ [Next]_vars => ResultCoupled'
  <1> SUFFICES ASSUME TypeOK, NotaryCoupled, ChanInv, ResultCoupled, [Next]_vars, NEW q \in ResultReq
               PROVE  /\ rpc'[q] \in {"idle", "found", "waiting"} => rstat'[q] = "none"
                      /\ rpc'[q] = "overdue" => rstat'[q] = "504"
                      /\ rpc'[q] = "overdue" => rstat'[q] = "504"
                      /\ rpc'[q] = "woken" => rstat'[q] \in {"200", "422", "500", "504"}
                      /\ rpc'[q] # "idle" => rses'[q] \in Session /\ post'[rses'[q]] = "open"
                      /\ rgot'[q] # None => /\ rpc'[q] \in {"woken", "done"}
                                            /\ rgot'[q] = chan'[rses'[q]]
                      /\ rgot'[q] # None => rses'[q] \in Session /\ TookReceiver(q)'
                      /\ rstat'[q] = "200" => rgot'[q] # None /\ verdict'[rgot'[q]] = "signed"
                      /\ rstat'[q] = "422" => rgot'[q] # None
    BY DEF ResultCoupled
  <1> DEFINE Goal == /\ rpc'[q] \in {"idle", "found", "waiting"} => rstat'[q] = "none"
                     /\ rpc'[q] = "overdue" => rstat'[q] = "504"
                     /\ rpc'[q] = "woken" => rstat'[q] \in {"200", "422", "500", "504"}
                     /\ rpc'[q] # "idle" => rses'[q] \in Session /\ post'[rses'[q]] = "open"
                     /\ rgot'[q] # None => /\ rpc'[q] \in {"woken", "done"}
                                           /\ rgot'[q] = chan'[rses'[q]]
                     /\ rgot'[q] # None => rses'[q] \in Session /\ TookReceiver(q)'
                     /\ rstat'[q] = "200" => rgot'[q] # None /\ verdict'[rgot'[q]] = "signed"
                     /\ rstat'[q] = "422" => rgot'[q] # None
  <1>1. /\ rpc[q] \in {"idle", "found", "waiting"} => rstat[q] = "none"
        /\ rpc[q] = "overdue" => rstat[q] = "504"
        /\ rpc[q] = "woken" => rstat[q] \in {"200", "422", "500", "504"}
        /\ rpc[q] # "idle" => rses[q] \in Session /\ post[rses[q]] = "open"
        /\ rgot[q] # None => rpc[q] \in {"woken", "done"} /\ rgot[q] = chan[rses[q]]
        /\ rgot[q] # None => rses[q] \in Session /\ TookReceiver(q)
        /\ rstat[q] = "200" => rgot[q] # None /\ verdict[rgot[q]] = "signed"
        /\ rstat[q] = "422" => rgot[q] # None
    BY DEF ResultCoupled
  <1>2. rpc[q] # "idle" => rses[q] \in Session /\ post'[rses[q]] = "open"
    BY <1>1, OpenStays
  <1>3. rses[q] \in Session /\ chan[rses[q]] # None =>
          chan'[rses[q]] = chan[rses[q]] /\ verdict'[chan[rses[q]]] = verdict[chan[rses[q]]]
    BY ChanStable
  <1>4. CASE rpc'[q] = rpc[q] /\ rses'[q] = rses[q] /\ rstat'[q] = rstat[q] /\ rgot'[q] = rgot[q]
    BY <1>1, <1>2, <1>3, <1>4 DEF TookReceiver
  <1>5. ASSUME ResultStep(q)
        PROVE  Goal
    <2>1. UNCHANGED <<chan, verdict, post>>
      BY <1>5, ResultFrame
    <2>2. QED
      BY <1>1, <1>2, <1>5, <2>1, ResultSelf DEF TookReceiver
  <1>6. ASSUME NEW r \in ResultReq, ResultStep(r)
        PROVE  Goal
    BY <1>4, <1>5, <1>6, ResultOthers
  <1>7. QED
    BY <1>4, <1>6, PostFrame, NotaryFrame DEF Next, Quiescent, vars, resultVars

\* The receiver of a session is still taken at most once.
LEMMA TakeStep == TypeOK /\ ResultCoupled /\ TakeInv /\ [Next]_vars => TakeInv'
  <1> SUFFICES ASSUME TypeOK, ResultCoupled, TakeInv, [Next]_vars
               PROVE  TakeInv'
    OBVIOUS
  <1>1. CASE UNCHANGED <<receiver, rpc, rses, rstat>>
    BY <1>1 DEF TakeInv, TookReceiver
  <1>2. ASSUME NEW r \in ResultReq, ResultStep(r)
        PROVE  TakeInv'
    <2>1. ASSUME NEW q \in ResultReq, q # r
          PROVE  (TookReceiver(q)' <=> TookReceiver(q)) /\ rses'[q] = rses[q]
      BY <1>2, <2>1, ResultOthers DEF TookReceiver
    <2>2. receiver' \subseteq receiver
      BY <1>2, ResultSelf
    <2>3. CASE TookReceiver(r)' => TookReceiver(r) /\ rses'[r] = rses[r]
      BY <2>1, <2>2, <2>3 DEF TakeInv
    <2>4. CASE /\ rses'[r] = rses[r] /\ rses[r] \in receiver
               /\ receiver' = receiver \ {rses[r]}
      BY <2>1, <2>4 DEF TakeInv
    <2>5. rpc[r] \in {"idle", "found", "waiting"} => rstat[r] = "none"
      BY DEF ResultCoupled
    <2>6. QED
      BY <1>2, <2>3, <2>4, <2>5, ResultSelf DEF TookReceiver
  <1>3. QED
    BY <1>1, <1>2, PostFrame, NotaryFrame DEF Next, Quiescent, vars, cellVars, resultVars

\* The map and the timers stay in step with the POST handlers, and the map stays
\* within its capacity.
LEMMA MapStep ==
  TypeOK /\ PostInv /\ MapBoundedAndExpiring /\ [Next]_vars => PostInv' /\ MapBoundedAndExpiring'
  <1> SUFFICES ASSUME TypeOK, PostInv, MapBoundedAndExpiring, [Next]_vars
               PROVE  PostInv' /\ MapBoundedAndExpiring'
    OBVIOUS
  <1>1. IsFiniteSet(sessions) /\ Cardinality(sessions) \in Nat /\ MaxPending \in Nat
    <2>1. IsFiniteSet(sessions)
      BY FS_Subset, ConstantsAssumption DEF TypeOK
    <2>2. QED
      BY <2>1, CountByOne, ConstantsAssumption
  <1>2. ASSUME NEW x, sessions' = sessions \ {x}
        PROVE  Cardinality(sessions') <= MaxPending
    <2>1. CASE x \in sessions
      <3>1. Cardinality(sessions') = Cardinality(sessions) - 1
        BY <1>1, <1>2, <2>1, CountByOne
      <3>2. QED
        BY <1>1, <3>1 DEF MapBoundedAndExpiring
    <2>2. CASE x \notin sessions
      <3>1. sessions' = sessions
        BY <1>2, <2>2
      <3>2. QED
        BY <3>1 DEF MapBoundedAndExpiring
    <2>3. QED
      BY <2>1, <2>2
  <1>3. ASSUME NEW s \in Session, PostStep(s)
        PROVE  PostInv' /\ MapBoundedAndExpiring'
    <2>1. CASE PostRefused(s) \/ PostAtCapacity(s)
      <3>1. /\ post[s] = "new" /\ UNCHANGED <<sessions, ttl>>
            /\ post' = [post EXCEPT ![s] = "refused"] \/ post' = [post EXCEPT ![s] = "full"]
        BY <2>1 DEF PostRefused, PostAtCapacity
      <3>2. PostInv'
        BY <3>1 DEF PostInv, TypeOK
      <3>3. MapBoundedAndExpiring'
        BY <3>1 DEF PostInv, MapBoundedAndExpiring, TypeOK
      <3>4. QED
        BY <3>2, <3>3
    <2>5. CASE PostRespond(s)
      BY <2>5 DEF PostRespond, PostInv, MapBoundedAndExpiring, TypeOK
    <2>2. CASE PostInsert(s)
      <3>1. s \notin sessions /\ sessions' = sessions \cup {s} /\ Cardinality(sessions) < MaxPending
        BY <2>2 DEF PostInsert, PostInv
      <3>2. Cardinality(sessions') = Cardinality(sessions) + 1
        BY <1>1, <3>1, CountByOne
      <3>3. Cardinality(sessions') <= MaxPending
        BY <1>1, <3>1, <3>2
      <3>4. QED
        BY <2>2, <3>3 DEF PostInsert, PostInv, MapBoundedAndExpiring, TypeOK
    <2>3. CASE TtlFires(s)
      <3>1. Cardinality(sessions') <= MaxPending
        BY <1>2, <2>3 DEF TtlFires
      <3>2. QED
        BY <2>3, <3>1 DEF TtlFires, PostInv, MapBoundedAndExpiring, TypeOK
    <2>4. QED
      BY <1>3, <2>1, <2>2, <2>3, <2>5 DEF PostStep
  <1>4. ASSUME NEW r \in ResultReq, ResultStep(r)
        PROVE  PostInv' /\ MapBoundedAndExpiring'
    <2>1. sessions' = sessions \/ sessions' = sessions \ {rses[r]}
      BY <1>4, ResultSelf
    <2>2. Cardinality(sessions') <= MaxPending /\ sessions' \subseteq sessions
      BY <1>2, <2>1 DEF MapBoundedAndExpiring
    <2>3. QED
      BY <1>4, <2>2, ResultFrame DEF PostInv, MapBoundedAndExpiring
  <1>5. CASE UNCHANGED <<post, sessions, ttl>>
    BY <1>5 DEF PostInv, MapBoundedAndExpiring
  <1>6. QED
    BY <1>3, <1>4, <1>5, NotaryFrame DEF Next, Quiescent, vars, postVars

\* A receiver does not vanish: a step that takes it out leaves it with a request.
LEMMA TakenStep == TypeOK /\ ResultCoupled /\ TakenInv /\ [Next]_vars => TakenInv'
  <1> SUFFICES ASSUME TypeOK, ResultCoupled, TakenInv, [Next]_vars,
                      NEW s \in Session, s \notin receiver'
               PROVE  \E r \in ResultReq : rses'[r] = s /\ TookReceiver(r)'
    BY DEF TakenInv
  <1>1. CASE UNCHANGED <<receiver, rpc, rses, rstat>>
    BY <1>1 DEF TakenInv, TookReceiver
  <1>2. ASSUME NEW q \in ResultReq, ResultStep(q)
        PROVE  \E r \in ResultReq : rses'[r] = s /\ TookReceiver(r)'
    <2>1. CASE s \in receiver
      <3>1. rses'[q] = s /\ rpc'[q] = "waiting"
        BY <1>2, <2>1, ResultSelf
      <3>2. QED
        BY <3>1 DEF TookReceiver
    <2>2. CASE s \notin receiver
      <3>1. PICK r \in ResultReq : rses[r] = s /\ TookReceiver(r)
        BY <2>2 DEF TakenInv
      <3>2. CASE r # q
        BY <1>2, <3>1, <3>2, ResultOthers DEF TookReceiver
      <3>3. CASE r = q
        <4>1. /\ rpc[q] \in {"idle", "found", "waiting"} => rstat[q] = "none"
              /\ rpc[q] = "woken" => rstat[q] \in {"200", "422", "500", "504"}
          BY DEF ResultCoupled
        <4>2. rses'[q] = s /\ TookReceiver(q)'
          BY <1>2, <3>1, <3>3, <4>1, ResultSelf DEF TookReceiver
        <4>3. QED
          BY <4>2
      <3>4. QED
        BY <3>2, <3>3
    <2>3. QED
      BY <2>1, <2>2
  <1>3. QED
    BY <1>1, <1>2, PostFrame, NotaryFrame DEF Next, Quiescent, vars, cellVars, resultVars

\* A session leaves the map by its TTL, or by the request that took its receiver.
LEMMA LeftStep ==
  TypeOK /\ ResultCoupled /\ TakeInv /\ PostInv /\ LeftInv /\ [Next]_vars => LeftInv'
  <1> DEFINE Fine(s) == \/ s \in sessions \/ post[s] \in {"new", "refused", "full"}
                        \/ ttl[s] = "expired" \/ s \notin receiver
  <1> SUFFICES ASSUME TypeOK, ResultCoupled, TakeInv, PostInv, LeftInv, [Next]_vars,
                      NEW s \in Session
               PROVE  Fine(s)'
    BY DEF LeftInv
  <1>1. Fine(s)
    BY DEF LeftInv
  <1>2. CASE UNCHANGED <<post, sessions, ttl, receiver>>
    BY <1>1, <1>2
  <1>3. ASSUME NEW t \in Session, PostStep(t)
        PROVE  Fine(s)'
    <2>1. receiver' = receiver
      BY <1>3, PostFrame
    <2>2. CASE PostRefused(t) \/ PostAtCapacity(t)
      BY <1>1, <2>1, <2>2 DEF PostRefused, PostAtCapacity, TypeOK
    <2>3. CASE PostInsert(t)
      BY <1>1, <2>1, <2>3 DEF PostInsert, TypeOK
    <2>4. CASE PostRespond(t)
      <3>1. ttl[t] = "unarmed"
        BY <2>4 DEF PostRespond, PostInv
      <3>2. QED
        BY <1>1, <2>1, <2>4, <3>1 DEF PostRespond, TypeOK
    <2>5. CASE TtlFires(t)
      BY <1>1, <2>1, <2>5 DEF TtlFires, TypeOK
    <2>6. QED
      BY <1>3, <2>2, <2>3, <2>4, <2>5 DEF PostStep
  <1>4. ASSUME NEW r \in ResultReq, ResultStep(r)
        PROVE  Fine(s)'
    <2>1. UNCHANGED <<post, ttl>>
      BY <1>4, ResultFrame
    <2>2. receiver' \subseteq receiver
      BY <1>4, ResultSelf
    <2>3. CASE sessions' = sessions
      BY <1>1, <2>1, <2>2, <2>3
    <2>4. CASE rpc[r] = "woken" /\ sessions' = sessions \ {rses[r]}
      <3>1. rses[r] \notin receiver
        BY <2>4 DEF TakeInv, TookReceiver
      <3>2. QED
        BY <1>1, <2>1, <2>2, <2>4, <3>1
    <2>5. QED
      BY <1>4, <2>3, <2>4, ResultSelf
  <1>5. QED
    BY <1>2, <1>3, <1>4, NotaryFrame DEF Next, Quiescent, vars, postVars, cellVars

\* The channel does not close on a waiting request: its own Arc holds the sender.
LEMMA NoCloseStep ==
  TypeOK /\ ReceiverInv /\ ResultCoupled /\ ChannelNeverCloses /\ [Next]_vars => ChannelNeverCloses'
  <1> SUFFICES ASSUME TypeOK, ReceiverInv, ResultCoupled, ChannelNeverCloses, [Next]_vars,
                      NEW q \in ResultReq
               PROVE  rstat'[q] # "500"
    BY DEF ChannelNeverCloses
  <1>1. rstat[q] # "500"
    BY DEF ChannelNeverCloses
  <1>2. ASSUME ResultStep(q)
        PROVE  rstat'[q] # "500"
    <2>1. ASSUME rpc[q] = "waiting", chan[rses[q]] = None
          PROVE  ~SenderGone(rses[q])
      <3>1. rses[q] \in Session
        BY <2>1 DEF ResultCoupled
      <3>2. ReceiverAlive(rses[q])
        BY <2>1 DEF ReceiverAlive
      <3>3. rses[q] \in sender
        BY <2>1, <3>1, <3>2 DEF ReceiverInv
      <3>4. Held(rses[q])
        BY <2>1 DEF Held, ResultHolds
      <3>5. QED
        BY <3>3, <3>4 DEF SenderGone
    <2>2. QED
      BY <1>1, <1>2, <2>1, ResultSelf
  <1>3. ASSUME NEW r \in ResultReq, ResultStep(r)
        PROVE  rstat'[q] # "500"
    BY <1>1, <1>2, <1>3, ResultOthers
  <1>4. QED
    BY <1>1, <1>3, PostFrame, NotaryFrame DEF Next, Quiescent, vars, resultVars

\* An answered session does not come back into the map.
LEMMA AnsweredStep ==
  TypeOK /\ ResultCoupled /\ AnsweredSessionIsGone /\ [Next]_vars => AnsweredSessionIsGone'
  <1> SUFFICES ASSUME TypeOK, ResultCoupled, AnsweredSessionIsGone, [Next]_vars,
                      NEW q \in ResultReq, rpc'[q] = "done",
                      rstat'[q] \in {"200", "422", "500", "504"}
               PROVE  rses'[q] \notin sessions'
    BY DEF AnsweredSessionIsGone
  <1>1. ASSUME rses'[q] = rses[q], rpc[q] = "done", rstat'[q] = rstat[q]
        PROVE  rses'[q] \notin sessions'
    <2>1. rses[q] \notin sessions /\ rses[q] \in Session /\ post[rses[q]] = "open"
      BY <1>1 DEF AnsweredSessionIsGone, ResultCoupled
    <2>2. ASSUME NEW s \in Session, PostStep(s)
          PROVE  rses[q] \notin sessions'
      BY <2>1, <2>2 DEF PostStep, PostRefused, PostAtCapacity, PostInsert, PostRespond, TtlFires
    <2>3. ASSUME NEW r \in ResultReq, ResultStep(r)
          PROVE  rses[q] \notin sessions'
      BY <2>1, <2>3, ResultSelf
    <2>4. QED
      BY <1>1, <2>1, <2>2, <2>3, NotaryFrame DEF Next, Quiescent, vars, postVars
  <1>2. ASSUME NEW r \in ResultReq, ResultStep(r)
        PROVE  rses'[q] \notin sessions'
    <2>1. CASE q # r
      BY <1>1, <1>2, <2>1, ResultOthers
    <2>2. CASE q = r
      BY <1>1, <1>2, <2>2, ResultSelf
    <2>3. QED
      BY <2>1, <2>2
  <1>3. QED
    BY <1>1, <1>2, PostFrame, NotaryFrame DEF Next, Quiescent, vars, resultVars

-----------------------------------------------------------------------------
(* The theorems *)

\* The service starts in the invariant.
LEMMA InitIInv == Init => IInv
  <1> SUFFICES ASSUME Init PROVE IInv
    OBVIOUS
  <1>1. TypeOK
    BY ConstantsAssumption DEF Init, TypeOK, NotaryPhase, ResultPhase
  <1>2. PermitHolders = {} /\ GaugedTasks = {} /\ sessions = {}
    BY DEF Init, PermitHolders, HoldsPermit, PermitPhases, GaugedTasks
  <1>3. PermitsConserved /\ GaugeTracksTasks /\ MapBoundedAndExpiring
    BY <1>2, FS_EmptySet, ConstantsAssumption
       DEF Init, PermitsConserved, GaugeTracksTasks, MapBoundedAndExpiring
  <1>4. NotaryCoupled /\ ClaimInv
    BY DEF Init, NotaryCoupled, ClaimInv, OneVerifierPerSession, HasClaimed
  <1>5. ChanInv
    BY DEF Init, ChanInv
  <1>6. ReceiverInv
    BY DEF Init, ReceiverInv
  <1>7. ResultCoupled /\ TakeInv /\ TakenInv
    BY DEF Init, ResultCoupled, TakeInv, TakenInv, TookReceiver
  <1>8. PostInv /\ LeftInv
    BY DEF Init, PostInv, LeftInv
  <1>9. ChannelNeverCloses /\ AnsweredSessionIsGone
    BY DEF Init, ChannelNeverCloses, AnsweredSessionIsGone
  <1>10. QED
    BY <1>1, <1>3, <1>4, <1>5, <1>6, <1>7, <1>8, <1>9 DEF IInv

\* IInv is an inductive invariant of the service.
THEOREM Invariance == Spec => []IInv
  <1>1. IInv /\ [Next]_vars => IInv'
    <2> SUFFICES ASSUME IInv, [Next]_vars PROVE IInv'
      OBVIOUS
    <2>1. TypeOK' /\ PermitsConserved' /\ GaugeTracksTasks'
      BY TypeStep, PermitsStep, GaugeStep DEF IInv
    <2>2. NotaryCoupled' /\ ClaimInv' /\ ChanInv'
      BY NotaryCoupledStep, ClaimStep, ChanStep DEF IInv
    <2>3. ReceiverInv' /\ ResultCoupled' /\ TakeInv' /\ TakenInv'
      BY ReceiverStep, ResultCoupledStep, TakeStep, TakenStep DEF IInv
    <2>4. PostInv' /\ MapBoundedAndExpiring' /\ ChannelNeverCloses'
      BY MapStep, NoCloseStep DEF IInv
    <2>5. LeftInv' /\ AnsweredSessionIsGone'
      BY LeftStep, AnsweredStep DEF IInv
    <2>6. QED
      BY <2>1, <2>2, <2>3, <2>4, <2>5 DEF IInv
  <1>2. QED
    BY <1>1, InitIInv, PTL DEF Spec

\* The types hold, for any number of sessions and requests and any capacities.
THEOREM TypeCorrect == Spec => []TypeOK
  <1>1. IInv => TypeOK
    BY DEF IInv
  <1>2. QED
    BY <1>1, Invariance, PTL

\* No path of the /notarize handler or of its task leaks or forges a permit.
THEOREM PermitSafety == Spec => []PermitsConserved
  <1>1. IInv => PermitsConserved
    BY DEF IInv
  <1>2. QED
    BY <1>1, Invariance, PTL

\* The active_notarizations gauge counts the running tasks and, for ever, those that
\* panicked; no other path misses its decrement.
THEOREM GaugeIsExact == Spec => []GaugeTracksTasks
  <1>1. IInv => GaugeTracksTasks
    BY DEF IInv
  <1>2. QED
    BY <1>1, Invariance, PTL

\* A session whose result request was answered is gone from the map.
THEOREM AnsweredIsGone == Spec => []AnsweredSessionIsGone
  <1>1. IInv => AnsweredSessionIsGone
    BY DEF IInv
  <1>2. QED
    BY <1>1, Invariance, PTL

\* A session is notarized at most once, whatever the handlers interleave.
THEOREM SingleVerifier == Spec => []OneVerifierPerSession
  <1>1. IInv => OneVerifierPerSession
    BY DEF IInv, ClaimInv
  <1>2. QED
    BY <1>1, Invariance, PTL

\* The session map respects max_pending_sessions and every entry will expire.
THEOREM MapSafety == Spec => []MapBoundedAndExpiring
  <1>1. IInv => MapBoundedAndExpiring
    BY DEF IInv
  <1>2. QED
    BY <1>1, Invariance, PTL

\* A result request gets the outcome of its own session's verifier, and no two get it.
THEOREM SingleDelivery == Spec => []OutcomeDeliveredOnce
  <1>1. IInv => OutcomeDeliveredOnce
    <2> SUFFICES ASSUME IInv, NEW q \in ResultReq, NEW r \in ResultReq
                 PROVE  /\ TookReceiver(q) /\ TookReceiver(r) /\ rses[q] = rses[r] => q = r
                        /\ rgot[r] # None => HasClaimed(rgot[r]) /\ nses[rgot[r]] = rses[r]
                        /\ rstat[r] = "200" => rgot[r] # None /\ verdict[rgot[r]] = "signed"
      BY DEF OutcomeDeliveredOnce
    <2>1. TookReceiver(q) /\ TookReceiver(r) /\ rses[q] = rses[r] => q = r
      BY DEF IInv, TakeInv
    <2>2. /\ rgot[r] # None => rses[r] \in Session /\ rgot[r] = chan[rses[r]]
          /\ rstat[r] = "200" => rgot[r] # None /\ verdict[rgot[r]] = "signed"
      BY DEF IInv, ResultCoupled
    <2>3. rgot[r] # None => HasClaimed(rgot[r]) /\ nses[rgot[r]] = rses[r]
      BY <2>2 DEF IInv, ChanInv, HasClaimed
    <2>4. QED
      BY <2>1, <2>2, <2>3
  <1>2. QED
    BY <1>1, Invariance, PTL

\* The "channel closed unexpectedly" answer is unreachable.
THEOREM NoClosedChannel == Spec => []ChannelNeverCloses
  <1>1. IInv => ChannelNeverCloses
    BY DEF IInv
  <1>2. QED
    BY <1>1, Invariance, PTL

\* A published outcome can be obtained, unless its session had expired or the request
\* that took its receiver had given up before.
LEMMA PublishedIsObtainable ==
  ASSUME IInv, [Next]_vars, NEW n \in NotaryReq, npc[n] = "publishing", npc'[n] = "published"
  PROVE  \/ Obtainable(nses[n])'
         \/ ttl[nses[n]] = "expired"
         \/ \E r \in ResultReq : GaveUp(r, nses[n])
  <1> DEFINE s == nses[n]
  <1> USE DEF IInv
  <1>1. s \in Session /\ post[s] = "open"
    BY DEF NotaryCoupled
  <1>2. NotaryStep(n)
    <2>1. npc' # npc
      OBVIOUS
    <2>2. PICK m \in NotaryReq : NotaryStep(m)
      BY <2>1, PostFrame, ResultFrame DEF Next, Quiescent, vars, notaryVars
    <2>3. m = n
      BY <2>2, NotaryOthers
    <2>4. QED
      BY <2>2, <2>3
  <1>3. /\ nses'[n] = s
        /\ chan' = IF s \in sender /\ ReceiverAlive(s) THEN [chan EXCEPT ![s] = n] ELSE chan
    BY <1>2, NotarySelf
  <1>4. chan[s] = None
    <2> SUFFICES ASSUME chan[s] # None PROVE FALSE
      OBVIOUS
    <2>5. chan[s] \in NotaryReq
      BY <1>1 DEF TypeOK
    <2>1. /\ nses[chan[s]] = s
          /\ npc[chan[s]] = "published" \/ nstat[chan[s]] = "finished"
      BY <1>1 DEF ChanInv
    <2>2. chan[s] = n
      BY <2>1, <2>5 DEF ClaimInv, OneVerifierPerSession, HasClaimed
    <2>3. nstat[n] = "none"
      BY DEF NotaryCoupled
    <2>4. QED
      BY <2>1, <2>2, <2>3
  <1>5. UNCHANGED <<sessions, receiver, rpc, rses>>
    BY <1>2, NotaryFrame
  <1>6. ASSUME NEW r \in ResultReq, rses[r] = s, rstat[r] \in {"200", "422", "500"}
        PROVE  FALSE
    <2>1. rgot[r] # None /\ rgot[r] = chan[s]
      BY <1>6 DEF ResultCoupled, ChannelNeverCloses
    <2>2. QED
      BY <1>4, <2>1
  <1>7. ASSUME ReceiverAlive(s)
        PROVE  chan'[s] # None
    <2>1. s \in sender
      BY <1>1, <1>4, <1>7 DEF ReceiverInv
    <2>2. n # None
      BY ConstantsAssumption
    <2>3. QED
      BY <1>1, <1>3, <1>7, <2>1, <2>2 DEF TypeOK
  <1>8. CASE s \in receiver
    <2>1. CASE s \in sessions
      <3>1. chan'[s] # None
        BY <1>7, <1>8 DEF ReceiverAlive
      <3>2. QED
        BY <1>3, <1>5, <1>8, <2>1, <3>1 DEF Obtainable
    <2>2. CASE s \notin sessions
      BY <1>1, <1>8, <2>2 DEF LeftInv
    <2>3. QED
      BY <2>1, <2>2
  <1>9. CASE s \notin receiver
    <2>1. PICK r \in ResultReq : rses[r] = s /\ TookReceiver(r)
      BY <1>1, <1>9 DEF TakenInv
    <2>2. CASE rpc[r] = "waiting"
      <3>1. chan'[s] # None
        BY <1>7, <2>1, <2>2 DEF ReceiverAlive
      <3>2. QED
        BY <1>3, <1>5, <2>1, <2>2, <3>1 DEF Obtainable
    <2>3. CASE rpc[r] # "waiting"
      <3>1. rstat[r] \in {"200", "422", "500", "504", "dropped"}
        BY <2>1, <2>3 DEF TookReceiver, ResultCoupled
      <3>2. GaveUp(r, s)
        BY <1>6, <2>1, <3>1 DEF GaveUp
      <3>3. QED
        BY <3>2
    <2>4. QED
      BY <2>2, <2>3
  <1>10. QED
    BY <1>8, <1>9

\* An outcome that can be obtained stays so until it is handed over, its client
\* disconnects or its session expires.
LEMMA ObtainableStays ==
  ASSUME IInv, [Next]_vars, NEW s \in Session, Obtainable(s), ~Obtainable(s)'
  PROVE  \/ ttl[s] = "armed" /\ ttl'[s] = "expired"
         \/ \E r \in ResultReq : HandedOver(r, s) \/ Disconnects(r, s)
  <1> DEFINE Goal == \/ ttl[s] = "armed" /\ ttl'[s] = "expired"
                     \/ \E r \in ResultReq : HandedOver(r, s) \/ Disconnects(r, s)
  <1> USE DEF IInv
  <1>1. chan[s] # None /\ chan'[s] = chan[s]
    BY ChanStable DEF Obtainable
  <1>2. ASSUME NEW t \in Session, PostStep(t)
        PROVE  Goal
    <2>1. UNCHANGED <<chan, receiver, rpc, rses>>
      BY <1>2, PostFrame
    <2>2. s \in sessions /\ s \notin sessions'
      BY <1>1, <2>1 DEF Obtainable
    <2>3. TtlFires(s)
      BY <1>2, <2>2 DEF PostStep, PostRefused, PostAtCapacity, PostInsert, PostRespond, TtlFires
    <2>4. QED
      BY <2>2, <2>3 DEF TtlFires, TypeOK
  <1>3. ASSUME NEW n \in NotaryReq, NotaryStep(n)
        PROVE  FALSE
    BY <1>1, <1>3, NotaryFrame DEF Obtainable
  <1>4. ASSUME NEW q \in ResultReq, ResultStep(q)
        PROVE  Goal
    <2>1. ASSUME NEW r \in ResultReq, r # q
          PROVE  rses'[r] = rses[r] /\ rpc'[r] = rpc[r]
      BY <1>4, <2>1, ResultOthers
    <2>2. CASE rses[q] # s \/ rpc[q] \notin {"found", "waiting"}
      <3>1. s \in receiver => s \in receiver'
        BY <1>4, <2>2, ResultSelf
      <3>2. s \in receiver /\ s \in sessions => s \in sessions'
        <4>1. rpc[q] = "woken" => rses[q] \notin receiver
          BY DEF TakeInv, TookReceiver
        <4>2. QED
          BY <1>4, <4>1, ResultSelf
      <3>3. ASSUME NEW r \in ResultReq, rses[r] = s, rpc[r] \in {"found", "waiting"}
            PROVE  rses'[r] = s /\ rpc'[r] = rpc[r]
        BY <2>1, <2>2, <3>3
      <3>4. Obtainable(s)'
        BY <1>1, <3>1, <3>2, <3>3 DEF Obtainable
      <3>5. QED
        BY <3>4
    <2>3. CASE rses[q] = s /\ rpc[q] = "waiting"
      <3>1. rgot[q] = None
        BY <2>3 DEF ResultCoupled
      <3>2. \/ rgot'[q] = chan[s]
            \/ rstat'[q] = "dropped"
        BY <1>1, <1>4, <2>3, ResultSelf
      <3>3. HandedOver(q, s) \/ Disconnects(q, s)
        BY <1>1, <2>3, <3>1, <3>2 DEF HandedOver, Disconnects
      <3>4. QED
        BY <3>3
    <2>4. CASE rses[q] = s /\ rpc[q] = "found"
      <3>1. CASE rpc'[q] = "waiting"
        <4>1. rses'[q] = s
          BY <1>4, <2>4, ResultSelf
        <4>2. Obtainable(s)'
          BY <1>1, <3>1, <4>1 DEF Obtainable
        <4>3. QED
          BY <4>2
      <3>2. CASE rstat'[q] = "gone"
        BY <2>4, <3>2 DEF Disconnects
      <3>3. CASE rses[q] \notin receiver
        <4>1. PICK r \in ResultReq : rses[r] = s /\ rpc[r] = "waiting"
          BY <2>4, <3>3 DEF Obtainable
        <4>2. r # q
          BY <2>4, <4>1
        <4>3. Obtainable(s)'
          BY <1>1, <2>1, <4>1, <4>2 DEF Obtainable
        <4>4. QED
          BY <4>3
      <3>4. QED
        BY <1>4, <2>4, <3>1, <3>2, <3>3, ResultSelf
    <2>5. QED
      BY <2>2, <2>3, <2>4
  <1>5. CASE UNCHANGED vars
    BY <1>5 DEF vars, postVars, cellVars, resultVars, Obtainable
  <1>6. QED
    BY <1>2, <1>3, <1>4, <1>5 DEF Next, Quiescent

\* An outcome is lost to the TTL of its session, to a client that disconnects and to a
\* timer that ran out before the outcome was sent, and to nothing else.
THEOREM LossIsExplained == Spec => OutcomeLossExplained
  <1>1. IInv /\ [Next]_vars =>
          [(\A n \in NotaryReq : PublishReaches(n)) /\ (\A s \in Session : LossHasCause(s))]_vars
    BY PublishedIsObtainable, ObtainableStays DEF PublishReaches, LossHasCause
  <1>2. QED
    BY <1>1, Invariance, PTL DEF Spec, OutcomeLossExplained

-----------------------------------------------------------------------------
(* Refinement *)

\* A step that changes none of the three abstract components is a stutter.
LEMMA AbsStutter ==
  ASSUME AbsLife' = AbsLife, AbsOutcome' = AbsOutcome, AbsDelivered' = AbsDelivered
  PROVE  [Promise!Next]_(Promise!absVars)
  BY DEF Promise!absVars

\* Every step of the service is a step of the one-time settlement, or a stutter.
THEOREM Refinement == Spec => OneTimePromise
  <1>1. Init => Promise!Init
    <2> SUFFICES ASSUME Init PROVE Promise!Init
      OBVIOUS
    <2>1. AbsLife = [s \in Session |-> "absent"]
      BY DEF Init, AbsLife
    <2>2. AbsOutcome = [s \in Session |-> "none"]
      BY DEF Init, AbsOutcome
    <2>3. AbsDelivered = [s \in Session |-> {}]
      BY DEF Init, AbsDelivered
    <2>4. QED
      BY <2>1, <2>2, <2>3 DEF Promise!Init
  <1>2. IInv /\ [Next]_vars => [Promise!Next]_(Promise!absVars)
    <2> SUFFICES ASSUME IInv, [Next]_vars
                 PROVE  [Promise!Next]_(Promise!absVars)
      OBVIOUS
    <2> USE DEF IInv
    <2>1. ASSUME NEW s \in Session, PostStep(s)
          PROVE  [Promise!Next]_(Promise!absVars)
      <3>1. AbsOutcome' = AbsOutcome /\ AbsDelivered' = AbsDelivered
        BY <2>1, PostFrame DEF AbsOutcome, AbsDelivered
      <3>2. CASE PostRefused(s) \/ PostAtCapacity(s) \/ PostRespond(s)
        <4>1. AbsLife' = AbsLife
          BY <3>2 DEF PostRefused, PostAtCapacity, PostRespond, AbsLife, TypeOK
        <4>2. QED
          BY <3>1, <4>1, AbsStutter
      <3>3. CASE PostInsert(s)
        <4>1. AbsLife[s] = "absent" /\ AbsLife' = [AbsLife EXCEPT ![s] = "open"]
          BY <3>3 DEF PostInsert, AbsLife, TypeOK
        <4>2. Promise!Open(s)
          BY <3>1, <4>1 DEF Promise!Open
        <4>3. QED
          BY <4>2 DEF Promise!Next
      <3>4. CASE TtlFires(s)
        <4>1. post[s] = "open" /\ UNCHANGED post /\ sessions' = sessions \ {s}
          BY <3>4 DEF TtlFires, PostInv
        <4>2. CASE s \in sessions
          <5>1. AbsLife[s] = "open" /\ AbsLife' = [AbsLife EXCEPT ![s] = "closed"]
            BY <4>1, <4>2 DEF AbsLife, TypeOK
          <5>2. Promise!Close(s)
            BY <3>1, <5>1 DEF Promise!Close
          <5>3. QED
            BY <5>2 DEF Promise!Next
        <4>3. CASE s \notin sessions
          <5>1. AbsLife' = AbsLife
            BY <4>1, <4>3 DEF AbsLife
          <5>2. QED
            BY <3>1, <5>1, AbsStutter
        <4>4. QED
          BY <4>2, <4>3
      <3>5. QED
        BY <2>1, <3>2, <3>3, <3>4 DEF PostStep
    <2>2. ASSUME NEW n \in NotaryReq, NotaryStep(n)
          PROVE  [Promise!Next]_(Promise!absVars)
      <3>1. AbsLife' = AbsLife /\ AbsDelivered' = AbsDelivered
        BY <2>2, NotaryFrame DEF AbsLife, AbsDelivered
      <3>2. ASSUME NEW s \in Session, chan[s] # None
            PROVE  chan'[s] = chan[s] /\ verdict'[chan[s]] = verdict[chan[s]]
        BY <3>2, ChanStable
      <3>3. CASE chan' = chan
        <4>1. AbsOutcome' = AbsOutcome
          BY <3>2, <3>3 DEF AbsOutcome
        <4>2. QED
          BY <3>1, <4>1, AbsStutter
      <3>4. CASE chan' # chan
        <4> DEFINE s == nses[n]
        <4>1. /\ npc[n] = "publishing" /\ verdict'[n] = verdict[n]
              /\ chan' = [chan EXCEPT ![s] = n] /\ s \in sender
          BY <2>2, <3>4, NotarySelf
        <4>2. s \in Session /\ post[s] = "open" /\ verdict[n] \in {"signed", "failed"}
          BY <4>1 DEF NotaryCoupled, TypeOK
        <4>3. chan[s] = None
          BY <4>1, <4>2 DEF ChanInv
        <4>4. AbsOutcome[s] = "none" /\ AbsLife[s] # "absent"
          BY <4>2, <4>3 DEF AbsOutcome, AbsLife
        <4>5. AbsOutcome' = [AbsOutcome EXCEPT ![s] = verdict[n]]
          <5>1. n # None
            BY ConstantsAssumption
          <5>2. chan'[s] = n /\ \A t \in Session : t # s => chan'[t] = chan[t]
            BY <4>1, <4>2 DEF TypeOK
          <5>3. QED
            BY <3>2, <4>1, <4>2, <5>1, <5>2 DEF AbsOutcome
        <4>6. Promise!Settle(s)
          BY <3>1, <4>2, <4>4, <4>5 DEF Promise!Settle
        <4>7. QED
          BY <4>2, <4>6 DEF Promise!Next
      <3>5. QED
        BY <3>3, <3>4
    <2>3. ASSUME NEW r \in ResultReq, ResultStep(r)
          PROVE  [Promise!Next]_(Promise!absVars)
      <3> DEFINE s == rses[r]
      <3>1. UNCHANGED <<post, chan, verdict>>
        BY <2>3, ResultFrame
      <3>2. AbsOutcome' = AbsOutcome
        BY <3>1 DEF AbsOutcome
      <3>3. ASSUME NEW q \in ResultReq, q # r
            PROVE  rses'[q] = rses[q] /\ rgot'[q] = rgot[q]
        BY <2>3, <3>3, ResultOthers
      <3>4. ASSUME sessions' = sessions, rgot'[r] = rgot[r],
                   rses'[r] = rses[r] \/ rgot[r] = None
            PROVE  [Promise!Next]_(Promise!absVars)
        <4>1. AbsLife' = AbsLife
          BY <3>1, <3>4 DEF AbsLife
        <4>2. AbsDelivered' = AbsDelivered
          BY <3>3, <3>4 DEF AbsDelivered
        <4>3. QED
          BY <3>2, <4>1, <4>2, AbsStutter
      <3>5. ASSUME rpc[r] = "woken", rses'[r] = s, rgot'[r] = rgot[r], sessions' = sessions \ {s}
            PROVE  [Promise!Next]_(Promise!absVars)
        <4>1. s \in Session /\ post[s] = "open"
          BY <3>5 DEF ResultCoupled
        <4>2. AbsDelivered' = AbsDelivered
          BY <3>3, <3>5 DEF AbsDelivered
        <4>3. CASE s \in sessions
          <5>1. AbsLife[s] = "open" /\ AbsLife' = [AbsLife EXCEPT ![s] = "closed"]
            BY <3>1, <3>5, <4>1, <4>3 DEF AbsLife, TypeOK
          <5>2. Promise!Close(s)
            BY <3>2, <4>2, <5>1 DEF Promise!Close
          <5>3. QED
            BY <4>1, <5>2 DEF Promise!Next
        <4>4. CASE s \notin sessions
          BY <3>4, <3>5, <4>4
        <4>5. QED
          BY <4>3, <4>4
      <3>6. ASSUME rpc[r] = "waiting", rses'[r] = s, rgot'[r] = chan[s], chan[s] # None,
                   sessions' = sessions
            PROVE  [Promise!Next]_(Promise!absVars)
        <4>1. s \in Session /\ TookReceiver(r)
          BY <3>6 DEF ResultCoupled, TookReceiver
        <4>2. rgot[r] = None
          BY <3>6 DEF ResultCoupled
        <4>3. AbsDelivered[s] = {}
          <5>1. ASSUME NEW q \in ResultReq, rses[q] = s, rgot[q] # None
                PROVE  FALSE
            <6>1. TookReceiver(q)
              BY <5>1 DEF ResultCoupled
            <6>2. q = r
              BY <4>1, <5>1, <6>1 DEF TakeInv
            <6>3. QED
              BY <4>2, <5>1, <6>2
          <5>2. QED
            BY <4>1, <5>1 DEF AbsDelivered
        <4>4. AbsDelivered' = [AbsDelivered EXCEPT ![s] = {r}]
          <5> DEFINE D(x) == {q \in ResultReq : rses[q] = x /\ rgot[q] # None}
                     E(x) == {q \in ResultReq : rses'[q] = x /\ rgot'[q] # None}
          <5>1. ASSUME NEW x \in Session, x # s PROVE E(x) = D(x)
            BY <3>3, <3>6, <5>1
          <5>2. D(s) = {}
            BY <4>1, <4>3 DEF AbsDelivered
          <5>3. E(s) = {r}
            BY <3>3, <3>6, <5>2
          <5>4. AbsDelivered = [x \in Session |-> D(x)] /\ AbsDelivered' = [x \in Session |-> E(x)]
            BY DEF AbsDelivered
          <5> HIDE DEF D, E
          <5>5. QED
            BY <4>1, <5>1, <5>3, <5>4
        <4>5. AbsOutcome[s] # "none"
          <5>1. chan[s] \in NotaryReq
            BY <3>6, <4>1 DEF TypeOK
          <5>4. npc[chan[s]] = "published" \/ nstat[chan[s]] = "finished"
            BY <3>6, <4>1 DEF ChanInv
          <5>2. verdict[chan[s]] # "none"
            BY <5>1, <5>4 DEF NotaryCoupled
          <5>3. QED
            BY <3>6, <4>1, <5>2 DEF AbsOutcome
        <4>6. AbsLife' = AbsLife
          BY <3>1, <3>6 DEF AbsLife
        <4>7. Promise!Deliver(s, r)
          BY <3>2, <4>3, <4>4, <4>5, <4>6 DEF Promise!Deliver
        <4>8. QED
          BY <4>1, <4>7 DEF Promise!Next
      <3>7. rpc[r] \in {"idle", "found", "waiting", "overdue"} => rgot[r] = None
        BY DEF ResultCoupled
      <3>8. QED
        BY <2>3, <3>4, <3>5, <3>6, <3>7, ResultSelf
    <2>4. CASE UNCHANGED vars
      <3>1. AbsLife' = AbsLife /\ AbsOutcome' = AbsOutcome /\ AbsDelivered' = AbsDelivered
        BY <2>4 DEF vars, postVars, cellVars, notaryVars, resultVars, AbsLife, AbsOutcome,
                    AbsDelivered
      <3>2. QED
        BY <3>1, AbsStutter
    <2>5. QED
      BY <2>1, <2>2, <2>3, <2>4 DEF Next, Quiescent
  <1>3. QED
    BY <1>1, <1>2, Invariance, PTL DEF Spec, OneTimePromise, Promise!Spec

=============================================================================
