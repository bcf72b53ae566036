------------------------- MODULE NotarizationProofs -------------------------
(***************************************************************************)
(* Proofs, for any number of tasks, any timeouts and any behaviour of      *)
(* Steam, of the timing properties of Notarization and of the finality of  *)
(* its decisions.                                                          *)
(***************************************************************************)
EXTENDS Notarization, TLAPS

-----------------------------------------------------------------------------
(* The inductive invariant, in parts *)

IsTaskFunction(f) == f = [t \in Task |-> f[t]]

\* The state is a set of functions on the tasks, a clock and a settlement time.
Shape ==
  /\ now \in Nat
  /\ settled \in OptTime
  /\ settled # None => settled <= now
  /\ IsTaskFunction(phase) /\ IsTaskFunction(started) /\ IsTaskFunction(timer)
  /\ IsTaskFunction(driver) /\ IsTaskFunction(prover) /\ IsTaskFunction(capture)
  /\ IsTaskFunction(seen) /\ IsTaskFunction(escrow) /\ IsTaskFunction(outcome)
  /\ IsTaskFunction(signed)

\* A task that runs awaits under a timer, which the clock has not passed: the
\* overall deadline in the protocol, the chain read and the settlement, at most
\* the grace more while the driver shuts down.
TimerInv(t) ==
  /\ phase[t] \in Protocol \cup {"idle", "drain", "teardown", "chain", "parties", "settle", "done"}
  /\ started[t] \in OptTime /\ timer[t] \in OptTime
  /\ phase[t] # "idle" => started[t] \in Nat /\ started[t] <= now
  /\ phase[t] \in Protocol \cup {"chain", "parties", "settle"} => timer[t] = started[t] + Timeout
  /\ phase[t] \in {"drain", "teardown"} =>
       timer[t] \in Nat /\ timer[t] <= started[t] + Timeout + Grace
  /\ timer[t] # None => now <= timer[t]

\* The driver is gone before the chain is read.
DriverInv(t) ==
  phase[t] \in {"chain", "parties", "settle", "done"} => driver[t] \in {"stopped", "aborted"}

\* A signature is made once, at the end, in time; a task that has read an active
\* purchase did so after it started.
SignInv(t) ==
  /\ signed[t] \in OptTime
  /\ signed[t] # None =>
       phase[t] = "done" /\ signed[t] <= now /\ signed[t] <= started[t] + Timeout
  /\ phase[t] \in {"parties", "settle"} /\ settled # None => started[t] <= settled
  /\ signed[t] # None /\ settled # None => signed[t] <= settled + Timeout

TaskInv(t) == TimerInv(t) /\ DriverInv(t) /\ SignInv(t)

IInv == Shape /\ \A t \in Task : TaskInv(t)

-----------------------------------------------------------------------------
(* Steps *)

\* A step of one task leaves the others, the clock and the purchase alone.
LEMMA TaskFrame ==
  ASSUME NEW t \in Task, ProtocolStep(t) \/ SettlementStep(t), Shape
  PROVE  /\ UNCHANGED <<now, settled>>
         /\ Shape'
         /\ \A u \in Task \ {t} :
              /\ phase'[u] = phase[u] /\ started'[u] = started[u] /\ timer'[u] = timer[u]
              /\ driver'[u] = driver[u] /\ signed'[u] = signed[u]
  <1>1. CASE ProtocolStep(t)
    BY <1>1 DEF ProtocolStep, Start, CommitAccepted, Observe, Verified, OutputAccepted, Advance,
                ProtocolSucceeds, ProtocolFails, ProtocolTimesOut, CloseHandle, world, Shape,
                IsTaskFunction
  <1>2. CASE SettlementStep(t)
    BY <1>2 DEF SettlementStep, DriverStops, DriverFails, DriverAborted, PurchaseRead, Advance,
                ChainRead, ChainReadFails, DeadlineExceeded, Sign, SettlementFails, Continue, Ends, world,
                Shape, IsTaskFunction
  <1>3. QED
    BY <1>1, <1>2

\* The protocol keeps the task's invariant.
LEMMA ProtocolKeeps ==
  ASSUME NEW t \in Task, Shape, TaskInv(t), ProtocolStep(t)
  PROVE  TaskInv(t)'
  <1> USE TimingAssumption, OffsetAssumption
      DEF Shape, IsTaskFunction, TaskInv, TimerInv, DriverInv, SignInv, OptTime, Protocol, world
  <1>1. CASE Start(t)
    BY <1>1 DEF Start
  <1>2. ASSUME NEW from \in Protocol, NEW to \in Protocol, Advance(t, from, to)
        PROVE  TaskInv(t)'
    BY <1>2 DEF Advance
  <1>3. CASE CommitAccepted(t) \/ Observe(t) \/ Verified(t) \/ OutputAccepted(t)
    BY <1>2, <1>3 DEF CommitAccepted, Observe, Verified, OutputAccepted
  <1>4. ASSUME NEW to \in {"drain", "teardown"}, phase[t] \in Protocol, CloseHandle(t, to)
        PROVE  TaskInv(t)'
    BY <1>4 DEF CloseHandle
  <1>5. CASE ProtocolSucceeds(t) \/ ProtocolFails(t) \/ ProtocolTimesOut(t)
    BY <1>4, <1>5 DEF ProtocolSucceeds, ProtocolFails, ProtocolTimesOut
  <1>6. QED
    BY <1>1, <1>3, <1>5 DEF ProtocolStep

\* So do the shutdown of the driver, the chain read and the settlement.
LEMMA SettlementKeeps ==
  ASSUME NEW t \in Task, Shape, TaskInv(t), SettlementStep(t)
  PROVE  TaskInv(t)'
  <1> USE TimingAssumption, OffsetAssumption
      DEF Shape, IsTaskFunction, TaskInv, TimerInv, DriverInv, SignInv, OptTime, Protocol, world
  <1>1. CASE DriverStops(t)
    BY <1>1 DEF DriverStops, Continue, Ends, overall_deadline
  <1>2. CASE DriverFails(t) \/ DriverAborted(t)
    BY <1>2 DEF DriverFails, DriverAborted, Ends
  <1>3. CASE PurchaseRead(t) \/ ChainRead(t)
    BY <1>3 DEF PurchaseRead, Advance, ChainRead, Continue, Ends, overall_deadline
  <1>4. CASE ChainReadFails(t) \/ DeadlineExceeded(t) \/ SettlementFails(t)
    BY <1>4 DEF ChainReadFails, DeadlineExceeded, SettlementFails, Ends
  <1>5. CASE Sign(t)
    BY <1>5 DEF Sign
  <1>6. QED
    BY <1>1, <1>2, <1>3, <1>4, <1>5 DEF SettlementStep

\* The invariant of handle_notarize_websocket holds in every state.
THEOREM Invariance == Spec => []IInv
  <1> USE TimingAssumption, OffsetAssumption
  <1>1. Init => IInv
    BY DEF Init, WorldInit, IInv, Shape, IsTaskFunction, TaskInv, TimerInv, DriverInv, SignInv,
           OptTime, Protocol
  <1>2. IInv /\ [Next]_vars => IInv'
    <2> SUFFICES ASSUME IInv, [Next]_vars
                 PROVE  IInv'
      OBVIOUS
    <2>1. ASSUME NEW t \in Task, ProtocolStep(t) \/ SettlementStep(t)
          PROVE  IInv'
      <3>1. TaskInv(t)'
        BY <2>1, ProtocolKeeps, SettlementKeeps DEF IInv
      <3>2. ASSUME NEW u \in Task \ {t}
            PROVE  TaskInv(u)'
        BY <2>1, <3>2, TaskFrame DEF IInv, TaskInv, TimerInv, DriverInv, SignInv
      <3>3. QED
        BY <2>1, <3>1, <3>2, TaskFrame DEF IInv
    <2>2. CASE WorldStep /\ UNCHANGED <<taskVars, settled>>
      <3>1. now' = now
        BY <2>2 DEF WorldStep, OfferMade, OfferConfirmed, OfferEnds, OfferAccepted, OfferMoves,
                    TradeCompletes, TradeRolledBack
      <3>2. QED
        BY <2>2, <3>1 DEF taskVars, IInv, Shape, IsTaskFunction, TaskInv, TimerInv, DriverInv,
                          SignInv
    <2>3. CASE PurchaseSettled
      BY <2>3 DEF PurchaseSettled, taskVars, world, IInv, Shape, IsTaskFunction, TaskInv,
                  TimerInv, DriverInv, SignInv, OptTime
    <2>4. CASE Tick
      BY <2>4 DEF Tick, Due, taskVars, IInv, Shape, IsTaskFunction, TaskInv, TimerInv, DriverInv,
                  SignInv, OptTime
    <2>5. CASE UNCHANGED vars
      BY <2>5 DEF vars, taskVars, world, IInv, Shape, IsTaskFunction, TaskInv, TimerInv,
                  DriverInv, SignInv
    <2>6. QED
      BY <2>1, <2>2, <2>3, <2>4, <2>5 DEF Next
  <1>3. QED
    BY <1>1, <1>2, PTL DEF Spec

-----------------------------------------------------------------------------
(* Timing *)

\* Nothing is signed after the overall deadline and no task lives longer than
\* the driver's grace beyond it, for any timeout and grace.
THEOREM DeadlineSafety == Spec => []DeadlineHolds
  <1>1. IInv => DeadlineHolds
    BY TimingAssumption, OffsetAssumption
    DEF IInv, Shape, TaskInv, TimerInv, SignInv, DeadlineHolds, overall_deadline, OptTime, Protocol
  <1>2. QED
    BY <1>1, Invariance, PTL

\* The session driver never outlives its task, nor overlaps the settlement.
THEOREM DriverSafety == Spec => []DriverNeverOutlives
  <1>1. IInv => DriverNeverOutlives
    BY DEF IInv, TaskInv, DriverInv, DriverNeverOutlives
  <1>2. QED
    BY <1>1, Invariance, PTL

\* Signatures for a purchase stop within one timeout of its settlement on chain.
THEOREM StaleSafety == Spec => []StaleSignatureBounded
  <1>1. IInv => StaleSignatureBounded
    BY DEF IInv, TaskInv, SignInv, StaleSignatureBounded
  <1>2. QED
    BY <1>1, Invariance, PTL
=============================================================================
