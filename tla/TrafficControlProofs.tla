------------------------ MODULE TrafficControlProofs ------------------------
(***************************************************************************)
(* What TLAPS proves of WaybillTrafficController, for every set of         *)
(* requests and every configuration: the types, the conservation of the    *)
(* semaphore's permits and with it the bound on concurrent attempts, that  *)
(* admissions respect gap and backoff, that the controller implements the  *)
(* abstract PacedPool, what the snapshot of its counters shows, in which   *)
(* order it serves, and that nobody waits for one that does not run.       *)
(***************************************************************************)
EXTENDS TrafficControl, FiniteSetTheorems, TLAPS

\* The number of permits is a positive integer whatever is configured.
LEMMA PermitsType == Permits \in Nat /\ Permits > 0
BY TrafficAssumption DEF Permits, Larger

\* Every pause after an admission is a natural number.
LEMMA GapsType == Gaps \subseteq Nat
BY TrafficAssumption DEF Gaps, Larger

\* So is every backoff.
LEMMA BackoffType == ASSUME NEW m \in Multipliers PROVE Backoff(m) \in Nat
<1> DEFINE base == Larger(0, WAYBILL_BLOCK_BACKOFF)
           factor == Larger(1, m)
           top == Larger(base, WAYBILL_BLOCK_BACKOFF_MAX)
<1>1. base \in Nat /\ factor \in Nat
  BY TrafficAssumption DEF Larger
<1>2. top \in Nat
  BY <1>1, TrafficAssumption DEF Larger
<1>3. base * factor \in Nat
  <2> HIDE DEF base, factor
  <2> QED BY <1>1
<1>4. Backoff(m) = Smaller(top, base * factor)
  BY DEF Backoff
<1> HIDE DEF base, factor, top
<1> QED BY <1>2, <1>3, <1>4 DEF Smaller

\* A step of pacing from any place leaves the lock's variables well typed.
LEMMA PacingType ==
    ASSUME TypeOK, NEW t \in Tasks, Pace(t)
    PROVE  /\ pc' \in [Tasks -> Places]
           /\ lockHolder' \in Tasks \cup {NoTask}
           /\ sleepLeft' \in Nat
           /\ nextIn' \in Nat
BY GapsType DEF TypeOK, Pace, Admit, Places, PacingDelay, Larger

LEMMA EnterPacingType ==
    ASSUME TypeOK, NEW t \in Tasks, EnterPacing(t)
    PROVE  /\ pc' \in [Tasks -> Places]
           /\ lockHolder' \in Tasks \cup {NoTask}
           /\ lockQueue' \in Seq(Tasks)
           /\ sleepLeft' \in Nat
           /\ nextIn' \in Nat
<1>1. CASE LockFree /\ Pace(t) /\ UNCHANGED lockQueue
  BY <1>1, PacingType DEF TypeOK
<1>2. CASE /\ ~LockFree
           /\ pc' = [pc EXCEPT ![t] = "lockWait"]
           /\ lockQueue' = Append(lockQueue, t)
           /\ UNCHANGED <<lockHolder, sleepLeft, nextIn>>
  BY <1>2 DEF TypeOK, Places
<1> QED BY <1>1, <1>2 DEF EnterPacing

\* Counting up or down keeps a counter by mode a counter.
LEMMA CountType ==
    ASSUME NEW c \in [Modes -> Nat], NEW m \in Modes
    PROVE  CountUp(c, m) \in [Modes -> Nat] /\ CountDown(c, m) \in [Modes -> Nat]
<1>1. c[m] + 1 \in Nat /\ Larger(0, c[m] - 1) \in Nat
  BY DEF Larger
<1> QED BY <1>1 DEF CountUp, CountDown

LEMMA CountersType ==
    ASSUME TypeOK, NEW t \in Tasks
    PROVE  /\ CountUp(active, ModeOf[t]) \in [Modes -> Nat]
           /\ CountUp(queued, ModeOf[t]) \in [Modes -> Nat]
           /\ CountDown(active, ModeOf[t]) \in [Modes -> Nat]
           /\ CountDown(queued, ModeOf[t]) \in [Modes -> Nat]
<1>1. ModeOf[t] \in Modes
  BY TrafficAssumption
<1> QED BY <1>1, CountType DEF TypeOK

\* The initial state is well typed.
LEMMA InitType == Init => TypeOK
BY PermitsType, TrafficAssumption DEF Init, TypeOK, Places

\* Every step keeps the types.
LEMMA NextType == TypeOK /\ [Next]_vars => TypeOK'
<1> SUFFICES ASSUME TypeOK, [Next]_vars PROVE TypeOK'
  OBVIOUS
<1>1. ASSUME NEW t \in Tasks, AcquireNow(t) PROVE TypeOK'
  BY <1>1, EnterPacingType, CountersType DEF AcquireNow, SemAvailable, TypeOK
<1>2. ASSUME NEW t \in Tasks, AcquireWait(t) PROVE TypeOK'
  BY <1>2, CountersType DEF AcquireWait, TypeOK, Places, lockVars
<1>3. ASSUME NEW t \in Tasks, Release(t) PROVE TypeOK'
  BY <1>3, CountersType DEF Release, SemRelease, TypeOK, Places, lockVars
<1>4. ASSUME NEW t \in Tasks, SemResume(t) PROVE TypeOK'
  <2>1. semQueue' \in Seq(Tasks)
    BY <1>4 DEF SemResume, TypeOK
  <2>2. semValue' \in Nat /\ semGranted' \in Nat
    BY <1>4 DEF SemResume, TypeOK
  <2> QED BY <1>4, <2>1, <2>2, EnterPacingType, CountersType DEF SemResume, TypeOK
<1>5. ASSUME NEW t \in Tasks, LockResume(t) PROVE TypeOK'
  BY <1>5, PacingType DEF LockResume, LockHandover, TypeOK, semVars
<1>6. ASSUME NEW t \in Tasks, Wake(t) PROVE TypeOK'
  BY <1>6, GapsType DEF Wake, Admit, TypeOK, Places, semVars
<1>7. ASSUME NEW t \in Tasks, MarkNow(t) PROVE TypeOK'
  BY <1>7, BackoffType DEF MarkNow, SetBlock, Larger, TypeOK, Places, semVars, lockVars
<1>8. ASSUME NEW t \in Tasks, MarkWait(t) PROVE TypeOK'
  BY <1>8 DEF MarkWait, TypeOK, Places, semVars
<1>9. ASSUME NEW t \in Tasks, MarkResume(t) PROVE TypeOK'
  BY <1>9, BackoffType DEF MarkResume, LockHandover, SetBlock, Larger, TypeOK, Places, semVars
<1>10. CASE Tick
  BY <1>10 DEF Tick, TypeOK, Larger, semVars
<1>11. CASE UNCHANGED vars
  BY <1>11 DEF vars, semVars, lockVars, TypeOK
<1> QED
  BY <1>1, <1>2, <1>3, <1>4, <1>5, <1>6, <1>7, <1>8, <1>9, <1>10, <1>11
  DEF Next, Proceed

\* Type correctness of the traffic controller for every configuration.
THEOREM TypeCorrect == Spec => []TypeOK
BY InitType, NextType, PTL DEF Spec

----------------------------------------------------------------------------
(* Permits and the sleeper                                                  *)

\* The permit holders can be counted.
LEMMA HoldersFinite ==
    IsFiniteSet(PermitHolders) /\ Cardinality(PermitHolders) \in Nat
<1>1. IsFiniteSet(PermitHolders)
  BY TrafficAssumption, FS_Subset, PermitHolders \subseteq Tasks DEF PermitHolders
<1> QED BY <1>1, FS_CardinalityType

\* How the number of permit holders follows one task.
LEMMA HoldersGrow ==
    ASSUME TypeOK, NEW t \in Tasks, NEW p \in HasPermit,
           pc[t] \notin HasPermit, pc' = [pc EXCEPT ![t] = p]
    PROVE  Cardinality(PermitHolders') = Cardinality(PermitHolders) + 1
<1>1. PermitHolders' = PermitHolders \cup {t} /\ t \notin PermitHolders
  BY DEF TypeOK, PermitHolders, HasPermit
<1> QED BY <1>1, HoldersFinite, FS_AddElement

LEMMA HoldersShrink ==
    ASSUME TypeOK, NEW t \in Tasks, NEW p, p \notin HasPermit,
           pc[t] \in HasPermit, pc' = [pc EXCEPT ![t] = p]
    PROVE  Cardinality(PermitHolders') = Cardinality(PermitHolders) - 1
<1>1. PermitHolders' = PermitHolders \ {t} /\ t \in PermitHolders
  BY DEF TypeOK, PermitHolders
<1> QED BY <1>1, HoldersFinite, FS_RemoveElement

LEMMA HoldersSame ==
    ASSUME TypeOK, NEW t \in Tasks, NEW p,
           pc[t] \in HasPermit <=> p \in HasPermit, pc' = [pc EXCEPT ![t] = p]
    PROVE  PermitHolders' = PermitHolders
BY DEF TypeOK, PermitHolders

\* Entering the pacing takes the permit with it, whichever way it goes.
LEMMA EnterPacingTakesPermit ==
    ASSUME NEW t \in Tasks, EnterPacing(t)
    PROVE  \E p \in HasPermit : pc' = [pc EXCEPT ![t] = p]
BY DEF EnterPacing, Pace, Admit, HasPermit

LEMMA PaceKeepsPermit ==
    ASSUME NEW t \in Tasks, Pace(t)
    PROVE  \E p \in HasPermit : pc' = [pc EXCEPT ![t] = p]
BY DEF Pace, Admit, HasPermit

LEMMA InitPermits == Init => PermitsConserved
<1> SUFFICES ASSUME Init PROVE PermitsConserved
  OBVIOUS
<1>1. PermitHolders = {}
  BY DEF Init, PermitHolders, HasPermit
<1> QED BY <1>1, FS_EmptySet, PermitsType DEF Init, PermitsConserved

\* Every step keeps the account of permits.
LEMMA NextPermits == TypeOK /\ PermitsConserved /\ [Next]_vars => PermitsConserved'
<1> SUFFICES ASSUME TypeOK, PermitsConserved, [Next]_vars PROVE PermitsConserved'
  OBVIOUS
<1>0. Permits' = Permits /\ Cardinality(PermitHolders) \in Nat
  BY HoldersFinite DEF Permits
<1>1. ASSUME NEW t \in Tasks, AcquireNow(t) PROVE PermitsConserved'
  <2>1. PICK p \in HasPermit : pc' = [pc EXCEPT ![t] = p]
    BY <1>1, EnterPacingTakesPermit DEF AcquireNow
  <2>2. Cardinality(PermitHolders') = Cardinality(PermitHolders) + 1
    BY <1>1, <2>1, HoldersGrow DEF AcquireNow, HasPermit
  <2> QED BY <1>0, <1>1, <2>2 DEF AcquireNow, PermitsConserved, TypeOK
<1>2. ASSUME NEW t \in Tasks, AcquireWait(t) PROVE PermitsConserved'
  <2>1. PermitHolders' = PermitHolders
    BY <1>2, HoldersSame DEF AcquireWait, HasPermit
  <2> QED BY <1>0, <1>2, <2>1 DEF AcquireWait, PermitsConserved
<1>3. ASSUME NEW t \in Tasks, Release(t) PROVE PermitsConserved'
  <2>1. PICK p \in {"idle", "failed"} : pc' = [pc EXCEPT ![t] = p]
    BY <1>3 DEF Release
  <2>2. Cardinality(PermitHolders') = Cardinality(PermitHolders) - 1
    BY <1>3, <2>1, HoldersShrink DEF Release, HasPermit
  <2>3. semValue' + semGranted' = semValue + semGranted + 1
    BY <1>3 DEF Release, SemRelease, TypeOK
  <2> QED BY <1>0, <2>2, <2>3 DEF PermitsConserved, TypeOK
<1>4. ASSUME NEW t \in Tasks, SemResume(t) PROVE PermitsConserved'
  <2>1. PICK p \in HasPermit : pc' = [pc EXCEPT ![t] = p]
    BY <1>4, EnterPacingTakesPermit DEF SemResume
  <2>2. Cardinality(PermitHolders') = Cardinality(PermitHolders) + 1
    BY <1>4, <2>1, HoldersGrow DEF SemResume, HasPermit
  <2>3. semValue' + semGranted' = semValue + semGranted - 1
    BY <1>4 DEF SemResume, TypeOK
  <2> QED BY <1>0, <2>2, <2>3 DEF PermitsConserved, TypeOK
<1>5. ASSUME NEW t \in Tasks, LockResume(t) PROVE PermitsConserved'
  <2>1. PICK p \in HasPermit : pc' = [pc EXCEPT ![t] = p]
    BY <1>5, PaceKeepsPermit DEF LockResume
  <2>2. PermitHolders' = PermitHolders
    BY <1>5, <2>1, HoldersSame DEF LockResume, HasPermit
  <2> QED BY <1>0, <1>5, <2>2 DEF LockResume, PermitsConserved, semVars
<1>6. ASSUME NEW t \in Tasks, Wake(t) PROVE PermitsConserved'
  <2>1. PermitHolders' = PermitHolders
    BY <1>6, HoldersSame DEF Wake, Admit, HasPermit
  <2> QED BY <1>0, <1>6, <2>1 DEF Wake, PermitsConserved, semVars
<1>7. ASSUME NEW t \in Tasks, MarkNow(t) \/ MarkWait(t) \/ MarkResume(t)
      PROVE PermitsConserved'
  <2>1. PermitHolders' = PermitHolders
    BY <1>7, HoldersSame DEF MarkNow, MarkWait, MarkResume, SetBlock, HasPermit
  <2> QED
    BY <1>0, <1>7, <2>1 DEF MarkNow, MarkWait, MarkResume, PermitsConserved, semVars
<1>8. CASE Tick \/ UNCHANGED vars
  BY <1>0, <1>8 DEF Tick, vars, semVars, PermitsConserved, PermitHolders
<1> QED
  BY <1>1, <1>2, <1>3, <1>4, <1>5, <1>6, <1>7, <1>8 DEF Next, Proceed

\* Every step keeps the sleeper's delay covering both deadlines.
LEMMA NextSleep == TypeOK /\ SleepCoversDelays /\ [Next]_vars => SleepCoversDelays'
<1> SUFFICES ASSUME TypeOK, SleepCoversDelays, [Next]_vars PROVE SleepCoversDelays'
  OBVIOUS
<1> USE TrafficAssumption DEF SleepCoversDelays, PacingDelay, Larger
<1>1. ASSUME NEW t \in Tasks, Pace(t), pc[t] # "sleeping", lockHolder = NoTask,
             UNCHANGED blockedFor
      PROVE SleepCoversDelays'
  <2>1. CASE PacingDelay > 0
    BY <1>1, <2>1 DEF Pace, TypeOK
  <2>2. CASE PacingDelay = 0
    BY <1>1, <2>2 DEF Pace, Admit, TypeOK
  <2> QED BY <1>1, <2>1, <2>2 DEF Pace
<1>2. ASSUME NEW t \in Tasks, EnterPacing(t), pc[t] # "sleeping", UNCHANGED blockedFor
      PROVE SleepCoversDelays'
  <2>1. CASE LockFree /\ Pace(t)
    BY <1>1, <1>2, <2>1 DEF LockFree
  <2>2. CASE ~LockFree /\ pc' = [pc EXCEPT ![t] = "lockWait"]
             /\ UNCHANGED <<lockHolder, sleepLeft, nextIn>>
    BY <1>2, <2>2 DEF TypeOK
  <2> QED BY <1>2, <2>1, <2>2 DEF EnterPacing
<1>3. ASSUME NEW t \in Tasks, AcquireNow(t) PROVE SleepCoversDelays'
  BY <1>2, <1>3 DEF AcquireNow
<1>4. ASSUME NEW t \in Tasks, SemResume(t) PROVE SleepCoversDelays'
  BY <1>2, <1>4 DEF SemResume
<1>5. ASSUME NEW t \in Tasks, LockResume(t) PROVE SleepCoversDelays'
  BY <1>1, <1>5 DEF LockResume, LockHandover
<1>6. ASSUME NEW t \in Tasks, Wake(t) PROVE SleepCoversDelays'
  BY <1>6 DEF Wake, Admit, TypeOK
<1>7. ASSUME NEW t \in Tasks, AcquireWait(t) \/ Release(t) PROVE SleepCoversDelays'
  BY <1>7 DEF AcquireWait, Release, lockVars, TypeOK
<1>8. ASSUME NEW t \in Tasks, MarkNow(t) \/ MarkWait(t) \/ MarkResume(t)
      PROVE SleepCoversDelays'
  BY <1>8 DEF MarkNow, MarkWait, MarkResume, LockHandover, LockFree, SetBlock, lockVars, TypeOK
<1>9. CASE Tick
  BY <1>9 DEF Tick, TypeOK
<1>10. CASE UNCHANGED vars
  BY <1>10 DEF vars, lockVars
<1> QED
  BY <1>3, <1>4, <1>5, <1>6, <1>7, <1>8, <1>9, <1>10 DEF Next, Proceed

LEMMA InitSleep == Init => SleepCoversDelays
BY TrafficAssumption DEF Init, SleepCoversDelays

\* The account of permits and the sleeper's delay hold in every reachable state.
THEOREM Invariance == Spec => []IInv
<1>1. Init => IInv
  BY InitType, InitPermits, InitSleep DEF IInv
<1>2. IInv /\ [Next]_vars => IInv'
  BY NextType, NextPermits, NextSleep DEF IInv
<1> QED BY <1>1, <1>2, PTL DEF Spec

----------------------------------------------------------------------------
(* Consequences                                                             *)

\* There are never more attempts in their slots than permits.
LEMMA IInvCapacity == IInv => CapacityRespected
<1> SUFFICES ASSUME IInv PROVE CapacityRespected
  OBVIOUS
<1>1. IsFiniteSet(PermitHolders) /\ Admitted \subseteq PermitHolders
  BY HoldersFinite DEF Admitted, PermitHolders, HasPermit
<1>2. Cardinality(Admitted) <= Cardinality(PermitHolders) /\ IsFiniteSet(Admitted)
  BY <1>1, FS_Subset
<1>3. Cardinality(Admitted) \in Nat /\ Cardinality(PermitHolders) \in Nat
  BY <1>1, <1>2, FS_CardinalityType
<1> QED BY <1>2, <1>3, PermitsType DEF CapacityRespected, IInv, TypeOK, PermitsConserved

\* WAYBILL_MAX_CONCURRENT bounds the attempts in their slots, whatever its value.
THEOREM Capacity == Spec => []CapacityRespected
BY Invariance, IInvCapacity, PTL

\* A permit freed while requests wait is never forgotten.
THEOREM NoWakeupLost == Spec => []NoLostWakeup
<1>1. Init => NoLostWakeup
  BY DEF Init, NoLostWakeup
<1>2. ASSUME TypeOK, NoLostWakeup, [Next]_vars PROVE NoLostWakeup'
  <2> USE DEF NoLostWakeup
  <2>1. ASSUME NEW t \in Tasks, AcquireNow(t) PROVE NoLostWakeup'
    BY <1>2, <2>1 DEF AcquireNow, SemAvailable
  <2>2. ASSUME NEW t \in Tasks, AcquireWait(t) PROVE NoLostWakeup'
    BY <1>2, <2>2 DEF AcquireWait, SemAvailable, TypeOK
  <2>3. ASSUME NEW t \in Tasks, Release(t) PROVE NoLostWakeup'
    <3>0. Len(semQueue) \in Nat /\ semGranted \in Nat
      BY <1>2 DEF TypeOK
    <3>1. CASE UngrantedWaiters > 0
      <4>1. semGranted' = semGranted + 1
        BY <2>3, <3>0, <3>1 DEF Release, SemRelease, UngrantedWaiters
      <4> QED BY <3>0, <4>1
    <3>2. CASE UngrantedWaiters <= 0
      <4>1. semQueue # <<>> => Len(semQueue) > 0
        BY <1>2 DEF TypeOK
      <4> QED BY <1>2, <2>3, <3>2, <4>1 DEF Release, SemRelease, UngrantedWaiters, TypeOK
    <3> QED BY <3>0, <3>1, <3>2 DEF UngrantedWaiters
  <2>4. ASSUME NEW t \in Tasks, SemResume(t) PROVE NoLostWakeup'
    <3>1. semQueue # <<>> /\ semQueue' = Tail(semQueue) /\ semGranted > 0
      BY <2>4 DEF SemResume
    <3>2. Len(semQueue') = Len(semQueue) - 1 /\ Len(semQueue) \in Nat
      BY <1>2, <3>1 DEF TypeOK
    <3>3. semQueue' # <<>> => Len(semQueue') > 0
      BY <1>2, <3>1 DEF TypeOK
    <3>4. \/ semGranted' = semGranted
          \/ /\ ~(semValue > 0 /\ UngrantedWaiters > 0)
             /\ semGranted' = semGranted - 1
             /\ semValue' = semValue
      BY <2>4 DEF SemResume
    <3> QED BY <1>2, <3>1, <3>2, <3>3, <3>4 DEF UngrantedWaiters, TypeOK
  <2>5. ASSUME NEW t \in Tasks,
               LockResume(t) \/ Wake(t) \/ MarkNow(t) \/ MarkWait(t) \/ MarkResume(t)
        PROVE NoLostWakeup'
    BY <1>2, <2>5 DEF LockResume, Wake, MarkNow, MarkWait, MarkResume, semVars
  <2>6. CASE Tick \/ UNCHANGED vars
    BY <1>2, <2>6 DEF Tick, vars, semVars
  <2> QED BY <1>2, <2>1, <2>2, <2>3, <2>4, <2>5, <2>6 DEF Next, Proceed
<1> QED BY <1>1, <1>2, TypeCorrect, PTL DEF Spec

----------------------------------------------------------------------------
(* Pacing                                                                   *)

\* A step of pacing admits t only when no delay is left.
LEMMA PaceAdmits ==
    ASSUME TypeOK, NEW t \in Tasks, Pace(t)
    PROVE  \/ /\ PacingDelay = 0
              /\ pc' = [pc EXCEPT ![t] = "holding"]
              /\ nextIn' \in Gaps
           \/ pc' = [pc EXCEPT ![t] = "sleeping"] /\ nextIn' = nextIn
BY DEF Pace, Admit

LEMMA EnterPacingAdmits ==
    ASSUME TypeOK, NEW t \in Tasks, EnterPacing(t)
    PROVE  \/ /\ PacingDelay = 0
              /\ pc' = [pc EXCEPT ![t] = "holding"]
              /\ nextIn' \in Gaps
           \/ /\ \E p \in {"sleeping", "lockWait"} : pc' = [pc EXCEPT ![t] = p]
              /\ nextIn' = nextIn
BY PaceAdmits DEF EnterPacing

\* acquire() returns to the body of slot() only when no delay is left.
THEOREM Pacing == Spec => AdmissionPaced
<1>1. ASSUME IInv, [Next]_vars, NEW t \in Tasks, pc[t] # "holding", pc'[t] = "holding"
      PROVE  PacingDelay = 0
  <2>0. TypeOK
    BY <1>1 DEF IInv
  <2>1. ASSUME NEW u \in Tasks, AcquireNow(u) \/ SemResume(u) PROVE PacingDelay = 0
    BY <1>1, <2>0, <2>1, EnterPacingAdmits DEF AcquireNow, SemResume, TypeOK
  <2>2. ASSUME NEW u \in Tasks, LockResume(u) PROVE PacingDelay = 0
    BY <1>1, <2>0, <2>2, PaceAdmits DEF LockResume, TypeOK
  <2>3. ASSUME NEW u \in Tasks, Wake(u) PROVE PacingDelay = 0
    BY <1>1, <2>0, <2>3, TrafficAssumption
    DEF IInv, SleepCoversDelays, Wake, TypeOK, PacingDelay, Larger
  <2>4. ASSUME NEW u \in Tasks,
               \/ AcquireWait(u) \/ Release(u)
               \/ MarkNow(u) \/ MarkWait(u) \/ MarkResume(u)
        PROVE FALSE
    BY <1>1, <2>0, <2>4
    DEF AcquireWait, Release, MarkNow, MarkWait, MarkResume, SetBlock, TypeOK
  <2>5. CASE Tick \/ UNCHANGED vars
    BY <1>1, <2>5 DEF Tick, vars
  <2> QED BY <1>1, <2>1, <2>2, <2>3, <2>4, <2>5 DEF Next, Proceed
<1>2. IInv /\ [Next]_vars
        => [\A t \in Tasks : pc[t] # "holding" /\ pc'[t] = "holding" => PacingDelay = 0]_vars
  BY <1>1
<1> QED BY <1>2, Invariance, PTL DEF Spec, AdmissionPaced

----------------------------------------------------------------------------
(* The controller implements the abstract pool                              *)

\* With a permit at hand or to be taken, the pool has room for one more.
LEMMA RoomForOne ==
    ASSUME IInv, NEW t \in Tasks, pc[t] # "holding",
           \/ pc[t] \in HasPermit
           \/ semValue + semGranted > 0
    PROVE  Cardinality(Admitted) < Permits
<1>0. IsFiniteSet(PermitHolders) /\ Cardinality(PermitHolders) \in Nat
  BY HoldersFinite
<1>1. CASE pc[t] \in HasPermit
  <2>1. Admitted \subseteq PermitHolders /\ t \in PermitHolders /\ t \notin Admitted
    BY <1>1 DEF Admitted, PermitHolders, HasPermit
  <2>2. /\ IsFiniteSet(Admitted)
        /\ Cardinality(Admitted) <= Cardinality(PermitHolders)
        /\ Cardinality(Admitted) = Cardinality(PermitHolders) => Admitted = PermitHolders
    BY <1>0, <2>1, FS_Subset
  <2>3. Cardinality(Admitted) \in Nat
    BY <2>2, FS_CardinalityType
  <2> QED
    BY <1>0, <2>1, <2>2, <2>3, PermitsType DEF IInv, TypeOK, PermitsConserved
<1>2. CASE semValue + semGranted > 0
  <2>1. Admitted \subseteq PermitHolders
    BY DEF Admitted, PermitHolders, HasPermit
  <2>2. Cardinality(Admitted) <= Cardinality(PermitHolders) /\ IsFiniteSet(Admitted)
    BY <1>0, <2>1, FS_Subset
  <2>3. Cardinality(Admitted) \in Nat
    BY <2>2, FS_CardinalityType
  <2> QED BY <1>0, <1>2, <2>2, <2>3, PermitsType DEF IInv, TypeOK, PermitsConserved
<1> QED BY <1>1, <1>2

\* The abstract phases follow the suspension points.
LEMMA InsideIsAdmitted == Pool!Inside = Admitted
BY DEF Pool!Inside, Admitted, PhaseOf

LEMMA PhaseFollows ==
    ASSUME TypeOK, NEW t \in Tasks, NEW p, pc' = [pc EXCEPT ![t] = p]
    PROVE  [u \in Tasks |-> PhaseOf(pc'[u])]
             = [[u \in Tasks |-> PhaseOf(pc[u])] EXCEPT ![t] = PhaseOf(p)]
BY DEF TypeOK

\* An admission is an admission of the pool.
LEMMA AdmissionMaps ==
    ASSUME IInv, NEW t \in Tasks, pc[t] # "holding",
           pc[t] \in HasPermit \/ semValue + semGranted > 0,
           PacingDelay = 0, pc' = [pc EXCEPT ![t] = "holding"],
           nextIn' \in Gaps, UNCHANGED blockedFor
    PROVE  Pool!Admit(t)
<1>1. Cardinality(Pool!Inside) < Permits
  BY RoomForOne, InsideIsAdmitted
<1>2. nextIn = 0 /\ blockedFor = 0
  BY DEF IInv, TypeOK, PacingDelay, Larger
<1>3. [u \in Tasks |-> PhaseOf(pc[u])][t] \in {"out", "waiting"}
  BY DEF IInv, TypeOK, Places, PhaseOf
<1>4. [u \in Tasks |-> PhaseOf(pc'[u])]
        = [[u \in Tasks |-> PhaseOf(pc[u])] EXCEPT ![t] = "in"]
  BY PhaseFollows DEF IInv, PhaseOf
<1>5. Pool!Cardinality(Pool!Inside) = Cardinality(Pool!Inside)
  BY DEF Pool!Cardinality, Cardinality
<1> QED BY <1>1, <1>2, <1>3, <1>4, <1>5 DEF Pool!Admit

\* A step of acquire() that does not admit enters the pool or stutters.
LEMMA WaitingMaps ==
    ASSUME TypeOK, NEW t \in Tasks, NEW p \in {"semWait", "lockWait", "sleeping"},
           pc[t] # "holding", pc' = [pc EXCEPT ![t] = p],
           UNCHANGED <<nextIn, blockedFor>>
    PROVE  Pool!Enter(t) \/ UNCHANGED Pool!poolVars
<1>1. [u \in Tasks |-> PhaseOf(pc'[u])]
        = [[u \in Tasks |-> PhaseOf(pc[u])] EXCEPT ![t] = "waiting"]
  BY PhaseFollows DEF PhaseOf
<1>2. CASE PhaseOf(pc[t]) = "out"
  BY <1>1, <1>2 DEF Pool!Enter
<1>3. CASE PhaseOf(pc[t]) = "waiting"
  BY <1>1, <1>3 DEF Pool!poolVars
<1> QED BY <1>2, <1>3 DEF TypeOK, Places, PhaseOf

LEMMA PacedStepMaps ==
    ASSUME IInv, NEW t \in Tasks, pc[t] # "holding", UNCHANGED blockedFor,
           pc[t] \in HasPermit \/ semValue + semGranted > 0,
           \/ /\ PacingDelay = 0
              /\ pc' = [pc EXCEPT ![t] = "holding"]
              /\ nextIn' \in Gaps
           \/ /\ \E p \in {"sleeping", "lockWait"} : pc' = [pc EXCEPT ![t] = p]
              /\ nextIn' = nextIn
    PROVE  [Pool!Next]_(Pool!poolVars)
BY AdmissionMaps, WaitingMaps DEF IInv, Pool!Next

LEMMA ReportMaps ==
    ASSUME TypeOK, NEW t \in Tasks, pc[t] \in {"failed", "markWait"},
           \E m \in Multipliers : SetBlock(t, m), UNCHANGED nextIn
    PROVE  Pool!Next
<1>1. PICK m \in Multipliers : SetBlock(t, m)
  OBVIOUS
<1>2. [u \in Tasks |-> PhaseOf(pc'[u])] = [u \in Tasks |-> PhaseOf(pc[u])]
  BY <1>1, PhaseFollows DEF SetBlock, TypeOK, PhaseOf
<1>3. Pool!ReportBlock(Backoff(m))
  BY <1>1, <1>2 DEF SetBlock, Pool!ReportBlock, Pool!Longest, Larger
<1> QED BY <1>3 DEF Pool!Next

\* Every behaviour of the controller is a behaviour of the abstract pool.
THEOREM Implementation == Spec => ImplementsPool
<1>1. Init => Pool!Init
  BY DEF Init, Pool!Init, PhaseOf
<1>2. ASSUME IInv, [Next]_vars PROVE [Pool!Next]_(Pool!poolVars)
  <2>0. TypeOK
    BY <1>2 DEF IInv
  <2>1. ASSUME NEW t \in Tasks, AcquireNow(t) PROVE [Pool!Next]_(Pool!poolVars)
    <3>1. pc[t] = "idle" /\ EnterPacing(t) /\ UNCHANGED blockedFor
      BY <2>1 DEF AcquireNow
    <3>2. semValue + semGranted > 0
      BY <2>0, <2>1 DEF AcquireNow, SemAvailable, TypeOK
    <3> QED BY <1>2, <2>0, <3>1, <3>2, EnterPacingAdmits, PacedStepMaps
  <2>2. ASSUME NEW t \in Tasks, AcquireWait(t) PROVE [Pool!Next]_(Pool!poolVars)
    BY <2>0, <2>2, WaitingMaps DEF AcquireWait, Pool!Next
  <2>3. ASSUME NEW t \in Tasks, Release(t) PROVE [Pool!Next]_(Pool!poolVars)
    <3>1. PICK p \in {"idle", "failed"} : pc' = [pc EXCEPT ![t] = p]
      BY <2>3 DEF Release
    <3>2. [u \in Tasks |-> PhaseOf(pc'[u])]
            = [[u \in Tasks |-> PhaseOf(pc[u])] EXCEPT ![t] = "out"]
      BY <2>0, <3>1, PhaseFollows DEF PhaseOf
    <3>3. PhaseOf(pc[t]) = "in" /\ UNCHANGED <<nextIn, blockedFor>>
      BY <2>3 DEF Release, PhaseOf
    <3> QED BY <3>2, <3>3 DEF Pool!Leave, Pool!Next
  <2>4. ASSUME NEW t \in Tasks, SemResume(t) PROVE [Pool!Next]_(Pool!poolVars)
    <3>1. pc[t] = "semWait" /\ EnterPacing(t) /\ UNCHANGED blockedFor
      BY <2>4 DEF SemResume
    <3>2. semValue + semGranted > 0
      BY <2>0, <2>4 DEF SemResume, TypeOK
    <3> QED BY <1>2, <2>0, <3>1, <3>2, EnterPacingAdmits, PacedStepMaps
  <2>5. ASSUME NEW t \in Tasks, LockResume(t) PROVE [Pool!Next]_(Pool!poolVars)
    BY <1>2, <2>0, <2>5, PaceAdmits, PacedStepMaps DEF LockResume, HasPermit
  <2>6. ASSUME NEW t \in Tasks, Wake(t) PROVE [Pool!Next]_(Pool!poolVars)
    <3>1. PacingDelay = 0
      BY <1>2, <2>0, <2>6, TrafficAssumption
      DEF IInv, SleepCoversDelays, Wake, TypeOK, PacingDelay, Larger
    <3> QED BY <1>2, <2>6, <3>1, PacedStepMaps DEF Wake, Admit, HasPermit
  <2>7. ASSUME NEW t \in Tasks, MarkNow(t) \/ MarkResume(t)
        PROVE [Pool!Next]_(Pool!poolVars)
    BY <2>0, <2>7, ReportMaps DEF MarkNow, MarkResume
  <2>8. ASSUME NEW t \in Tasks, MarkWait(t) PROVE [Pool!Next]_(Pool!poolVars)
    <3>1. [u \in Tasks |-> PhaseOf(pc'[u])] = [u \in Tasks |-> PhaseOf(pc[u])]
      BY <2>0, <2>8, PhaseFollows DEF MarkWait, TypeOK, PhaseOf
    <3> QED BY <2>8, <3>1 DEF MarkWait, Pool!poolVars
  <2>9. CASE Tick
    BY <2>9 DEF Tick, Pool!Tick, Pool!Longest, Larger, Pool!Next
  <2>10. CASE UNCHANGED vars
    BY <2>10 DEF vars, Pool!poolVars
  <2> QED
    BY <1>2, <2>1, <2>2, <2>3, <2>4, <2>5, <2>6, <2>7, <2>8, <2>9, <2>10 DEF Next, Proceed
<1> QED BY <1>1, <1>2, Invariance, PTL DEF Spec, ImplementsPool, Pool!Spec

----------------------------------------------------------------------------
(* The counters of snapshot()                                               *)

\* The tasks of a mode that are in one of the places P.
Among(where, P, m) == {t \in Tasks : where[t] \in P /\ ModeOf[t] = m}

\* They can be counted.
LEMMA AmongFinite ==
    ASSUME NEW where, NEW P, NEW m
    PROVE  /\ IsFiniteSet(Among(where, P, m))
           /\ Cardinality(Among(where, P, m)) \in Nat
<1>1. IsFiniteSet(Among(where, P, m))
  BY TrafficAssumption, FS_Subset, Among(where, P, m) \subseteq Tasks DEF Among
<1> QED BY <1>1, FS_CardinalityType

\* Only t moves, to p.
Moves(t, p) == pc'[t] = p /\ \A u \in Tasks \ {t} : pc'[u] = pc[u]

LEMMA MovesOne ==
    ASSUME TypeOK, NEW t \in Tasks, NEW p, pc' = [pc EXCEPT ![t] = p]
    PROVE  Moves(t, p)
BY DEF TypeOK, Moves

\* If t goes from a place in P to one that is not, or the other way, that changes the
\* number of its mode by one, and no other.
LEMMA MoveCounted ==
    ASSUME NEW t \in Tasks, NEW p, Moves(t, p), NEW P, NEW m
    PROVE  Cardinality(Among(pc', P, m)) =
               IF ModeOf[t] # m \/ (pc[t] \in P /\ p \in P) \/ (pc[t] \notin P /\ p \notin P)
               THEN Cardinality(Among(pc, P, m))
               ELSE IF p \in P THEN Cardinality(Among(pc, P, m)) + 1
               ELSE Cardinality(Among(pc, P, m)) - 1
<1>1. CASE ModeOf[t] = m /\ pc[t] \notin P /\ p \in P
  <2>1. Among(pc', P, m) = Among(pc, P, m) \cup {t} /\ t \notin Among(pc, P, m)
    BY <1>1 DEF Moves, Among
  <2> QED BY <1>1, <2>1, AmongFinite, FS_AddElement
<1>2. CASE ModeOf[t] = m /\ pc[t] \in P /\ p \notin P
  <2>1. Among(pc', P, m) = Among(pc, P, m) \ {t} /\ t \in Among(pc, P, m)
    BY <1>2 DEF Moves, Among
  <2> QED BY <1>2, <2>1, AmongFinite, FS_RemoveElement
<1>3. CASE ModeOf[t] # m \/ (pc[t] \in P /\ p \in P) \/ (pc[t] \notin P /\ p \notin P)
  <2>1. Among(pc', P, m) = Among(pc, P, m)
    BY <1>3 DEF Moves, Among
  <2> QED BY <1>3, <2>1
<1> QED BY <1>1, <1>2, <1>3

\* The tasks past the semaphore, and those that wait for it.
Active(m) == Cardinality(Among(pc, HasPermit, m))
Queued(m) == Cardinality(Among(pc, {"semWait"}, m))

\* The two numbers are naturals, and follow the one that moves.
LEMMA NumbersMove ==
    ASSUME NEW t \in Tasks, NEW p, Moves(t, p), NEW m
    PROVE  /\ Active(m) \in Nat /\ Queued(m) \in Nat
           /\ ModeOf[t] = m /\ pc[t] \in HasPermit => Active(m) # 0
           /\ ModeOf[t] = m /\ pc[t] = "semWait" => Queued(m) # 0
           /\ Active(m)' = IF ModeOf[t] # m \/ (pc[t] \in HasPermit <=> p \in HasPermit)
                           THEN Active(m)
                           ELSE IF p \in HasPermit THEN Active(m) + 1 ELSE Active(m) - 1
           /\ Queued(m)' = IF ModeOf[t] # m \/ (pc[t] = "semWait" <=> p = "semWait")
                           THEN Queued(m)
                           ELSE IF p = "semWait" THEN Queued(m) + 1 ELSE Queued(m) - 1
<1>1. /\ Active(m)' = Cardinality(Among(pc', HasPermit, m))
      /\ Queued(m)' = Cardinality(Among(pc', {"semWait"}, m))
  BY DEF Active, Queued
<1>2. /\ Active(m) \in Nat /\ Queued(m) \in Nat
      /\ Active(m) = 0 => Among(pc, HasPermit, m) = {}
      /\ Queued(m) = 0 => Among(pc, {"semWait"}, m) = {}
  BY AmongFinite, FS_EmptySet DEF Active, Queued
<1>3. /\ ModeOf[t] = m /\ pc[t] \in HasPermit => t \in Among(pc, HasPermit, m)
      /\ ModeOf[t] = m /\ pc[t] = "semWait" => t \in Among(pc, {"semWait"}, m)
  BY DEF Among
<1>4. Active(m)' = IF ModeOf[t] # m \/ (pc[t] \in HasPermit <=> p \in HasPermit)
                   THEN Active(m)
                   ELSE IF p \in HasPermit THEN Active(m) + 1 ELSE Active(m) - 1
  BY <1>1, MoveCounted DEF Active
<1>5. Queued(m)' = IF ModeOf[t] # m \/ (pc[t] = "semWait" <=> p = "semWait")
                   THEN Queued(m)
                   ELSE IF p = "semWait" THEN Queued(m) + 1 ELSE Queued(m) - 1
  BY <1>1, MoveCounted DEF Queued
<1> QED BY <1>2, <1>3, <1>4, <1>5

\* CountersExact, by these numbers.
Exact(m) == active[m] = Active(m) /\ queued[m] = Queued(m)

LEMMA CountersAre == CountersExact <=> \A m \in Modes : Exact(m)
<1>1. ASSUME NEW m \in Modes
      PROVE  /\ {t \in PermitHolders : ModeOf[t] = m} = Among(pc, HasPermit, m)
             /\ {t \in Tasks : pc[t] = "semWait" /\ ModeOf[t] = m} = Among(pc, {"semWait"}, m)
  BY DEF PermitHolders, Among
<1> QED BY <1>1 DEF CountersExact, Exact, Active, Queued

\* Counting changes the counter of one mode.
LEMMA CountsOne ==
    ASSUME NEW c \in [Modes -> Nat], NEW t \in Tasks, NEW m \in Modes
    PROVE  /\ CountUp(c, ModeOf[t])[m] = IF ModeOf[t] = m THEN c[m] + 1 ELSE c[m]
           /\ CountDown(c, ModeOf[t])[m] =
                  IF ModeOf[t] = m THEN Larger(0, c[m] - 1) ELSE c[m]
BY TrafficAssumption DEF CountUp, CountDown

\* A permit is taken, from the queue or not.
LEMMA TakeExact ==
    ASSUME TypeOK, NEW m \in Modes, Exact(m), NEW t \in Tasks,
           NEW p \in HasPermit, pc' = [pc EXCEPT ![t] = p],
           active' = CountUp(active, ModeOf[t]),
           \/ pc[t] = "idle" /\ UNCHANGED queued
           \/ pc[t] = "semWait" /\ queued' = CountDown(queued, ModeOf[t])
    PROVE  Exact(m)'
<1>1. active \in [Modes -> Nat] /\ queued \in [Modes -> Nat] /\ Moves(t, p)
  BY MovesOne DEF TypeOK
<1>2. p # "semWait" /\ pc[t] \notin HasPermit
  BY DEF HasPermit
<1>3. active'[m] = Active(m)'
  BY <1>1, <1>2, NumbersMove, CountsOne DEF Exact
<1>4. queued'[m] = Queued(m)'
  BY <1>1, <1>2, NumbersMove, CountsOne DEF Exact, Larger
<1> QED BY <1>3, <1>4 DEF Exact

\* A permit is given back.
LEMMA GiveBackExact ==
    ASSUME TypeOK, NEW m \in Modes, Exact(m), NEW t \in Tasks,
           NEW p \in {"idle", "failed"}, pc' = [pc EXCEPT ![t] = p],
           pc[t] = "holding", active' = CountDown(active, ModeOf[t]), UNCHANGED queued
    PROVE  Exact(m)'
<1>1. active \in [Modes -> Nat] /\ queued \in [Modes -> Nat] /\ Moves(t, p)
  BY MovesOne DEF TypeOK
<1>2. pc[t] \in HasPermit /\ p \notin HasPermit /\ pc[t] # "semWait" /\ p # "semWait"
  BY DEF HasPermit
<1>3. active'[m] = Active(m)'
  BY <1>1, <1>2, NumbersMove, CountsOne DEF Exact, Larger
<1>4. queued'[m] = Queued(m)'
  BY <1>1, <1>2, NumbersMove DEF Exact
<1> QED BY <1>3, <1>4 DEF Exact

\* Every step keeps the counters exact.
LEMMA NextExact ==
    ASSUME TypeOK, [Next]_vars, NEW m \in Modes, Exact(m)
    PROVE  Exact(m)'
<1>1. ASSUME NEW t \in Tasks, AcquireNow(t) \/ SemResume(t) PROVE Exact(m)'
  <2>1. PICK p \in HasPermit : pc' = [pc EXCEPT ![t] = p]
    BY <1>1, EnterPacingTakesPermit DEF AcquireNow, SemResume
  <2> QED BY <1>1, <2>1, TakeExact DEF AcquireNow, SemResume
<1>2. ASSUME NEW t \in Tasks, AcquireWait(t) PROVE Exact(m)'
  <2>1. /\ Moves(t, "semWait") /\ pc[t] = "idle"
        /\ UNCHANGED active /\ queued' = CountUp(queued, ModeOf[t])
        /\ queued \in [Modes -> Nat]
    BY <1>2, MovesOne DEF AcquireWait, TypeOK
  <2>2. pc[t] \notin HasPermit /\ "semWait" \notin HasPermit
    BY <2>1 DEF HasPermit
  <2> QED BY <2>1, <2>2, NumbersMove, CountsOne DEF Exact
<1>3. ASSUME NEW t \in Tasks, Release(t) PROVE Exact(m)'
  BY <1>3, GiveBackExact DEF Release
<1>4. ASSUME NEW t \in Tasks,
             \/ LockResume(t) \/ Wake(t)
             \/ MarkNow(t) \/ MarkWait(t) \/ MarkResume(t)
      PROVE  Exact(m)'
  <2>1. /\ UNCHANGED <<active, queued>>
        /\ \/ pc[t] \in HasPermit /\ \E p \in HasPermit : pc' = [pc EXCEPT ![t] = p]
           \/ /\ pc[t] \in {"failed", "markWait"}
              /\ \E p \in {"idle", "markWait"} : pc' = [pc EXCEPT ![t] = p]
    <3>1. CASE LockResume(t)
      BY <3>1, PaceKeepsPermit DEF LockResume, HasPermit
    <3>2. CASE Wake(t)
      BY <3>2 DEF Wake, Admit, HasPermit
    <3>3. CASE MarkNow(t) \/ MarkWait(t) \/ MarkResume(t)
      BY <3>3 DEF MarkNow, MarkWait, MarkResume, SetBlock
    <3> QED BY <1>4, <3>1, <3>2, <3>3
  <2>2. PICK p : /\ pc' = [pc EXCEPT ![t] = p]
                 /\ pc[t] \in HasPermit <=> p \in HasPermit
                 /\ pc[t] # "semWait" /\ p # "semWait"
    BY <2>1 DEF HasPermit
  <2>3. Moves(t, p)
    BY <2>2, MovesOne
  <2> QED BY <2>1, <2>2, <2>3, NumbersMove DEF Exact
<1>5. CASE Tick \/ UNCHANGED vars
  BY <1>5 DEF Tick, vars, Exact, Active, Queued
<1> QED BY <1>1, <1>2, <1>3, <1>4, <1>5 DEF Next, Proceed

\* snapshot() reports for each mode as many active and queued requests as there are,
\* and max(0, ...) never hides a count that went wrong.
THEOREM SnapshotExact == Spec => []CountersExact
<1>1. Init => CountersExact
  <2> SUFFICES ASSUME Init, NEW m \in Modes PROVE Exact(m)
    BY CountersAre
  <2>1. Among(pc, HasPermit, m) = {} /\ Among(pc, {"semWait"}, m) = {}
    BY DEF Init, Among, HasPermit
  <2> QED BY <2>1, FS_EmptySet DEF Init, Exact, Active, Queued
<1>2. CountersExact <=> \A m \in Modes : Exact(m)
  BY CountersAre
<1>3. TypeOK /\ (\A m \in Modes : Exact(m)) /\ [Next]_vars => (\A m \in Modes : Exact(m))'
  BY NextExact
<1> QED BY <1>1, <1>2, <1>3, TypeCorrect, PTL DEF Spec

----------------------------------------------------------------------------
(* The order of the queues                                                  *)

\* Whoever is served is the oldest, and whoever comes is the youngest.
Serves(queue, next) ==
    \/ next = queue
    \/ queue # <<>> /\ next = Tail(queue)
    \/ \E t \in Tasks : next = Append(queue, t)

\* So nobody who has somebody ahead of him leaves before him.
LEMMA ServesInOrder ==
    ASSUME NEW queue \in Seq(Tasks), NEW next, Serves(queue, next),
           NEW t \in Tasks, NEW u \in Tasks, Ahead(queue, t, u)
    PROVE  Waits(next, u)
<1>1. PICK j \in 2..Len(queue) : queue[j] = u
  BY DEF Ahead
<1>2. CASE next = queue
  BY <1>1, <1>2 DEF Waits
<1>3. CASE queue # <<>> /\ next = Tail(queue)
  <2>1. next \in Seq(Tasks) /\ Len(next) = Len(queue) - 1 /\ j - 1 \in 1..Len(next)
    BY <1>1, <1>3
  <2>2. next[j - 1] = queue[j]
    BY <1>1, <1>3
  <2> QED BY <1>1, <2>1, <2>2 DEF Waits
<1>4. CASE \E v \in Tasks : next = Append(queue, v)
  <2>1. j \in DOMAIN next /\ next[j] = queue[j]
    BY <1>1, <1>4
  <2> QED BY <1>1, <2>1 DEF Waits
<1> QED BY <1>2, <1>3, <1>4 DEF Serves

\* asyncio's queues, the lock's and the semaphore's, are served in order of arrival.
THEOREM InOrderServed == Spec => ServedInOrder
<1>1. ASSUME TypeOK, [Next]_vars
      PROVE  Serves(lockQueue, lockQueue') /\ Serves(semQueue, semQueue')
  <2>1. ASSUME NEW t \in Tasks, EnterPacing(t) PROVE Serves(lockQueue, lockQueue')
    BY <2>1 DEF EnterPacing, Serves
  <2>2. ASSUME NEW t \in Tasks, AcquireNow(t) PROVE Serves(lockQueue, lockQueue') /\ Serves(semQueue, semQueue')
    BY <2>1, <2>2 DEF AcquireNow, Serves
  <2>3. ASSUME NEW t \in Tasks, SemResume(t) PROVE Serves(lockQueue, lockQueue') /\ Serves(semQueue, semQueue')
    BY <2>1, <2>3 DEF SemResume, Serves
  <2>4. ASSUME NEW t \in Tasks, AcquireWait(t) \/ Release(t)
        PROVE  Serves(lockQueue, lockQueue') /\ Serves(semQueue, semQueue')
    BY <2>4 DEF AcquireWait, Release, lockVars, Serves
  <2>5. ASSUME NEW t \in Tasks, LockResume(t) \/ Wake(t)
        PROVE  Serves(lockQueue, lockQueue') /\ Serves(semQueue, semQueue')
    BY <2>5 DEF LockResume, LockHandover, Wake, semVars, Serves
  <2>6. ASSUME NEW t \in Tasks, MarkNow(t) \/ MarkWait(t) \/ MarkResume(t)
        PROVE  Serves(lockQueue, lockQueue') /\ Serves(semQueue, semQueue')
    BY <2>6 DEF MarkNow, MarkWait, MarkResume, LockHandover, semVars, lockVars, Serves
  <2>7. CASE Tick \/ UNCHANGED vars
    BY <2>7 DEF Tick, vars, semVars, lockVars, Serves
  <2> QED BY <1>1, <2>2, <2>3, <2>4, <2>5, <2>6, <2>7 DEF Next, Proceed
<1>2. TypeOK /\ [Next]_vars
        => [\A t, u \in Tasks :
              /\ Ahead(lockQueue, t, u) /\ Waits(lockQueue', t) => Waits(lockQueue', u)
              /\ Ahead(semQueue, t, u) /\ Waits(semQueue', t) => Waits(semQueue', u)]_vars
  BY <1>1, ServesInOrder DEF TypeOK
<1> QED BY <1>2, TypeCorrect, PTL DEF Spec, ServedInOrder

----------------------------------------------------------------------------
(* Nobody is stuck                                                          *)

\* The queues hold those who wait in them, each of them once, and no more permits were
\* handed over than there are waiters.
EachOnce(queue) == \A i, j \in DOMAIN queue : queue[i] = queue[j] => i = j

QueuesExact ==
    /\ EachOnce(semQueue) /\ EachOnce(lockQueue)
    /\ \A t \in Tasks :
          /\ pc[t] = "semWait" <=> Waits(semQueue, t)
          /\ pc[t] \in {"lockWait", "markWait"} <=> Waits(lockQueue, t)
    /\ semGranted <= Len(semQueue)

\* t waits for nothing but its attempt, its sleep or the event loop.
Runs(t) ==
    \/ pc[t] \in {"holding", "failed", "sleeping"}
    \/ pc[t] = "semWait" /\ semGranted > 0 /\ semQueue # <<>> /\ t = Head(semQueue)
    \/ /\ pc[t] \in {"lockWait", "markWait"}
       /\ lockHolder = NoTask /\ lockQueue # <<>> /\ t = Head(lockQueue)

\* Whoever waits for the lock has one who sleeps with it or is to be given it; whoever
\* waits for a permit, one who has a permit or was handed one.  So there always is
\* one that runs.
NobodyStuck ==
    /\ \A t \in Tasks : pc[t] \in {"lockWait", "markWait"} =>
          \E u \in Tasks :
              /\ Runs(u)
              /\ pc[u] = "sleeping" \/ u = Head(lockQueue)
    /\ \A t \in Tasks : pc[t] = "semWait" =>
          \E u \in Tasks : pc[u] \in HasPermit \/ (Runs(u) /\ u = Head(semQueue))
    /\ (\E t \in Tasks : pc[t] # "idle") => \E u \in Tasks : Runs(u)

\* The queue holds exactly those at the places P, each of them once.
InQueue(where, queue, P) ==
    EachOnce(queue) /\ \A t \in Tasks : where[t] \in P <=> Waits(queue, t)

\* Who comes to one of these places joins the queue.
LEMMA JoinsQueue ==
    ASSUME NEW queue \in Seq(Tasks), NEW P, NEW t \in Tasks, NEW p,
           InQueue(pc, queue, P), Moves(t, p), pc[t] \notin P, p \in P
    PROVE  InQueue(pc', Append(queue, t), P)
<1> DEFINE next == Append(queue, t)
<1>1. /\ Len(queue) \in Nat /\ DOMAIN queue = 1..Len(queue)
      /\ DOMAIN next = 1..(Len(queue) + 1)
      /\ next[Len(queue) + 1] = t /\ \A i \in 1..Len(queue) : next[i] = queue[i]
  OBVIOUS
<1>2. \A i \in DOMAIN queue : queue[i] # t
  BY DEF InQueue, Waits
<1> HIDE DEF next
<1>3. EachOnce(next)
  BY <1>1, <1>2 DEF InQueue, EachOnce
<1>4. \A u \in Tasks : Waits(next, u) <=> u = t \/ Waits(queue, u)
  BY <1>1 DEF Waits
<1>5. \A u \in Tasks : pc'[u] \in P <=> Waits(next, u)
  BY <1>4 DEF InQueue, Moves
<1> QED BY <1>3, <1>5 DEF InQueue, next

\* The head of the queue leaves it when it leaves these places.
LEMMA LeavesQueue ==
    ASSUME NEW queue \in Seq(Tasks), queue # <<>>, NEW P, NEW t \in Tasks, NEW p,
           InQueue(pc, queue, P), Moves(t, p), t = Head(queue), p \notin P
    PROVE  InQueue(pc', Tail(queue), P)
<1> DEFINE next == Tail(queue)
<1>1. /\ Len(queue) \in Nat /\ Len(queue) > 0 /\ DOMAIN queue = 1..Len(queue)
      /\ DOMAIN next = 1..(Len(queue) - 1)
      /\ queue[1] = t /\ \A i \in 1..(Len(queue) - 1) : next[i] = queue[i + 1]
  OBVIOUS
<1> HIDE DEF next
<1>2. EachOnce(next)
  <2> SUFFICES ASSUME NEW i \in DOMAIN next, NEW j \in DOMAIN next, next[i] = next[j]
               PROVE  i = j
    BY DEF EachOnce
  <2>1. i \in Int /\ j \in Int /\ i + 1 \in DOMAIN queue /\ j + 1 \in DOMAIN queue
        /\ queue[i + 1] = queue[j + 1]
    BY <1>1
  <2>2. i + 1 = j + 1
    BY <2>1 DEF InQueue, EachOnce
  <2> QED BY <2>1, <2>2
<1>3. ~Waits(next, t)
  <2> SUFFICES ASSUME NEW i \in DOMAIN next, next[i] = t PROVE FALSE
    BY DEF Waits
  <2>1. i \in Int /\ i >= 1 /\ i + 1 \in DOMAIN queue /\ 1 \in DOMAIN queue
        /\ queue[i + 1] = queue[1]
    BY <1>1
  <2>2. i + 1 = 1
    BY <2>1 DEF InQueue, EachOnce
  <2> QED BY <2>1, <2>2
<1>4. \A u \in Tasks \ {t} : Waits(next, u) <=> Waits(queue, u)
  <2> SUFFICES ASSUME NEW u \in Tasks \ {t} PROVE Waits(next, u) <=> Waits(queue, u)
    OBVIOUS
  <2>1. ASSUME NEW i \in DOMAIN next, next[i] = u PROVE Waits(queue, u)
    <3>1. i + 1 \in DOMAIN queue /\ queue[i + 1] = u
      BY <1>1, <2>1
    <3> QED BY <3>1 DEF Waits
  <2>2. ASSUME NEW i \in DOMAIN queue, queue[i] = u PROVE Waits(next, u)
    <3>1. i # 1 /\ i \in 1..Len(queue)
      BY <1>1, <2>2
    <3>2. i - 1 \in DOMAIN next /\ next[i - 1] = queue[(i - 1) + 1] /\ (i - 1) + 1 = i
      BY <1>1, <3>1
    <3> QED BY <2>2, <3>2 DEF Waits
  <2> QED BY <2>1, <2>2 DEF Waits
<1>5. \A u \in Tasks : pc'[u] \in P <=> Waits(next, u)
  BY <1>3, <1>4 DEF InQueue, Moves
<1> QED BY <1>2, <1>5 DEF InQueue, next

\* A move within these places, or outside of them, leaves the queue right.
LEMMA KeepsQueue ==
    ASSUME NEW queue, NEW P, NEW t \in Tasks, NEW p,
           InQueue(pc, queue, P), Moves(t, p), pc[t] \in P <=> p \in P
    PROVE  InQueue(pc', queue, P)
BY DEF InQueue, Moves

\* Pacing lets a task sleep or go on, or sends it to the lock's queue.
LEMMA EnterPacingMoves ==
    ASSUME TypeOK, NEW t \in Tasks, EnterPacing(t)
    PROVE  \/ (\E p \in {"holding", "sleeping"} : Moves(t, p)) /\ lockQueue' = lockQueue
           \/ Moves(t, "lockWait") /\ lockQueue' = Append(lockQueue, t)
<1>1. CASE LockFree /\ Pace(t) /\ UNCHANGED lockQueue
  <2>1. PICK p \in {"holding", "sleeping"} : pc' = [pc EXCEPT ![t] = p]
    BY <1>1 DEF Pace, Admit
  <2> QED BY <1>1, <2>1, MovesOne
<1>2. CASE /\ ~LockFree
           /\ pc' = [pc EXCEPT ![t] = "lockWait"]
           /\ lockQueue' = Append(lockQueue, t)
  BY <1>2, MovesOne
<1> QED BY <1>1, <1>2 DEF EnterPacing

AtLock == {"lockWait", "markWait"}
AtSem == {"semWait"}

\* QueuesExact, queue by queue.
LEMMA QueuesAre ==
    QueuesExact <=> /\ InQueue(pc, semQueue, AtSem) /\ InQueue(pc, lockQueue, AtLock)
                    /\ semGranted <= Len(semQueue)
BY DEF QueuesExact, InQueue, AtSem, AtLock

\* Whoever enters pacing from outside the lock's queue leaves that queue right.
LEMMA PacingKeepsLock ==
    ASSUME TypeOK, NEW t \in Tasks, EnterPacing(t), InQueue(pc, lockQueue, AtLock),
           pc[t] \notin AtLock
    PROVE  InQueue(pc', lockQueue', AtLock)
<1>1. lockQueue \in Seq(Tasks)
  BY DEF TypeOK
<1>2. "lockWait" \in AtLock /\ "holding" \notin AtLock /\ "sleeping" \notin AtLock
  BY DEF AtLock
<1> QED BY <1>1, <1>2, EnterPacingMoves, JoinsQueue, KeepsQueue

\* Every step leaves both queues right.
LEMMA NextQueues ==
    ASSUME TypeOK, QueuesExact, [Next]_vars
    PROVE  QueuesExact'
<1>0. /\ InQueue(pc, semQueue, AtSem) /\ InQueue(pc, lockQueue, AtLock)
      /\ semGranted <= Len(semQueue)
      /\ semQueue \in Seq(Tasks) /\ lockQueue \in Seq(Tasks)
      /\ semGranted \in Nat /\ Len(semQueue) \in Nat
  BY QueuesAre DEF TypeOK
<1>s. SUFFICES /\ InQueue(pc', semQueue', AtSem) /\ InQueue(pc', lockQueue', AtLock)
               /\ semGranted' <= Len(semQueue')
  BY DEF QueuesExact, InQueue, AtSem, AtLock
<1> USE DEF AtSem, AtLock
<1>1. ASSUME NEW t \in Tasks, AcquireNow(t)
      PROVE  /\ InQueue(pc', semQueue', AtSem) /\ InQueue(pc', lockQueue', AtLock)
             /\ semGranted' <= Len(semQueue')
  <2>1. /\ pc[t] = "idle" /\ EnterPacing(t)
        /\ semQueue' = semQueue /\ semGranted' = semGranted
    BY <1>1 DEF AcquireNow
  <2>2. InQueue(pc', lockQueue', AtLock)
    BY <1>0, <2>1, PacingKeepsLock
  <2>3. PICK p \in {"holding", "sleeping", "lockWait"} : Moves(t, p)
    BY <2>1, EnterPacingMoves
  <2>4. InQueue(pc', semQueue, AtSem)
    BY <1>0, <2>1, <2>3, KeepsQueue
  <2> QED BY <1>0, <2>1, <2>2, <2>4
<1>2. ASSUME NEW t \in Tasks, AcquireWait(t)
      PROVE  /\ InQueue(pc', semQueue', AtSem) /\ InQueue(pc', lockQueue', AtLock)
             /\ semGranted' <= Len(semQueue')
  <2>1. /\ pc[t] = "idle" /\ Moves(t, "semWait") /\ lockQueue' = lockQueue
        /\ semQueue' = Append(semQueue, t) /\ semGranted' = semGranted
    BY <1>2, MovesOne DEF AcquireWait, lockVars
  <2>2. InQueue(pc', semQueue', AtSem)
    BY <1>0, <2>1, JoinsQueue
  <2>3. InQueue(pc', lockQueue, AtLock)
    BY <1>0, <2>1, KeepsQueue
  <2>4. Len(semQueue') = Len(semQueue) + 1
    BY <1>0, <2>1
  <2> QED BY <1>0, <2>1, <2>2, <2>3, <2>4
<1>3. ASSUME NEW t \in Tasks, Release(t)
      PROVE  /\ InQueue(pc', semQueue', AtSem) /\ InQueue(pc', lockQueue', AtLock)
             /\ semGranted' <= Len(semQueue')
  <2>1. /\ pc[t] = "holding" /\ lockQueue' = lockQueue /\ semQueue' = semQueue /\ SemRelease
    BY <1>3 DEF Release, lockVars
  <2>2. PICK p \in {"idle", "failed"} : Moves(t, p)
    BY <1>3, MovesOne DEF Release
  <2>3. InQueue(pc', semQueue, AtSem) /\ InQueue(pc', lockQueue, AtLock)
    BY <1>0, <2>1, <2>2, KeepsQueue
  <2>4. semGranted' <= Len(semQueue)
    BY <1>0, <2>1 DEF SemRelease, UngrantedWaiters
  <2> QED BY <2>1, <2>3, <2>4
<1>4. ASSUME NEW t \in Tasks, SemResume(t)
      PROVE  /\ InQueue(pc', semQueue', AtSem) /\ InQueue(pc', lockQueue', AtLock)
             /\ semGranted' <= Len(semQueue')
  <2>1. /\ pc[t] = "semWait" /\ EnterPacing(t) /\ semQueue # <<>> /\ t = Head(semQueue)
        /\ semQueue' = Tail(semQueue) /\ semGranted > 0
        /\ \/ UngrantedWaiters > 0 /\ semGranted' = semGranted
           \/ semGranted' = semGranted - 1
    BY <1>4 DEF SemResume
  <2>2. InQueue(pc', lockQueue', AtLock)
    BY <1>0, <2>1, PacingKeepsLock
  <2>3. PICK p \in {"holding", "sleeping", "lockWait"} : Moves(t, p)
    BY <2>1, EnterPacingMoves
  <2>4. InQueue(pc', semQueue', AtSem)
    BY <1>0, <2>1, <2>3, LeavesQueue
  <2>5. Len(semQueue') = Len(semQueue) - 1
    BY <1>0, <2>1
  <2>6. semGranted' <= Len(semQueue')
    BY <1>0, <2>1, <2>5 DEF UngrantedWaiters
  <2> QED BY <2>2, <2>4, <2>6
<1>5. ASSUME NEW t \in Tasks, LockResume(t) \/ MarkResume(t)
      PROVE  /\ InQueue(pc', semQueue', AtSem) /\ InQueue(pc', lockQueue', AtLock)
             /\ semGranted' <= Len(semQueue')
  <2>1. /\ pc[t] \in {"lockWait", "markWait"} /\ lockQueue # <<>> /\ t = Head(lockQueue)
        /\ lockQueue' = Tail(lockQueue) /\ semQueue' = semQueue /\ semGranted' = semGranted
    BY <1>5 DEF LockResume, MarkResume, LockHandover, semVars
  <2>2. PICK p \in {"holding", "sleeping", "idle"} : Moves(t, p)
    BY <1>5, MovesOne DEF LockResume, MarkResume, Pace, Admit, SetBlock
  <2>3. InQueue(pc', lockQueue', AtLock)
    BY <1>0, <2>1, <2>2, LeavesQueue
  <2>4. InQueue(pc', semQueue, AtSem)
    BY <1>0, <2>1, <2>2, KeepsQueue
  <2> QED BY <1>0, <2>1, <2>3, <2>4
<1>6. ASSUME NEW t \in Tasks, Wake(t) \/ MarkNow(t)
      PROVE  /\ InQueue(pc', semQueue', AtSem) /\ InQueue(pc', lockQueue', AtLock)
             /\ semGranted' <= Len(semQueue')
  <2>1. /\ pc[t] \in {"sleeping", "failed"}
        /\ lockQueue' = lockQueue /\ semQueue' = semQueue /\ semGranted' = semGranted
    BY <1>6 DEF Wake, MarkNow, semVars, lockVars
  <2>2. PICK p \in {"holding", "idle"} : Moves(t, p)
    BY <1>6, MovesOne DEF Wake, MarkNow, Admit, SetBlock
  <2>3. InQueue(pc', semQueue, AtSem) /\ InQueue(pc', lockQueue, AtLock)
    BY <1>0, <2>1, <2>2, KeepsQueue
  <2> QED BY <1>0, <2>1, <2>3
<1>7. ASSUME NEW t \in Tasks, MarkWait(t)
      PROVE  /\ InQueue(pc', semQueue', AtSem) /\ InQueue(pc', lockQueue', AtLock)
             /\ semGranted' <= Len(semQueue')
  <2>1. /\ pc[t] = "failed" /\ Moves(t, "markWait") /\ lockQueue' = Append(lockQueue, t)
        /\ semQueue' = semQueue /\ semGranted' = semGranted
    BY <1>7, MovesOne DEF MarkWait, semVars
  <2>2. InQueue(pc', lockQueue', AtLock)
    BY <1>0, <2>1, JoinsQueue
  <2>3. InQueue(pc', semQueue, AtSem)
    BY <1>0, <2>1, KeepsQueue
  <2> QED BY <1>0, <2>1, <2>2, <2>3
<1>8. CASE Tick \/ UNCHANGED vars
  <2>1. UNCHANGED <<pc, semQueue, semGranted, lockQueue>>
    BY <1>8 DEF Tick, vars, semVars, lockVars
  <2> QED BY <1>0, <2>1
<1> QED BY <1>1, <1>2, <1>3, <1>4, <1>5, <1>6, <1>7, <1>8 DEF Next, Proceed

\* The waiters of asyncio's semaphore and lock are exactly the coroutines suspended in
\* acquire() and mark_temporary_block() (traffic_control.py:46-81), none of them twice.
THEOREM QueuesKept == Spec => []QueuesExact
<1>1. Init => QueuesExact
  BY DEF Init, QueuesExact, EachOnce, Waits
<1>2. TypeOK /\ QueuesExact /\ [Next]_vars => QueuesExact'
  BY NextQueues
<1> QED BY <1>1, <1>2, TypeCorrect, PTL DEF Spec

\* Who waits for the lock waits for a sleeper, or for the head of the queue to run.
LEMMA LockGetsOn ==
    ASSUME TypeOK, SleepCoversDelays, QueuesExact,
           NEW t \in Tasks, pc[t] \in {"lockWait", "markWait"}
    PROVE  \E u \in Tasks : Runs(u) /\ (pc[u] = "sleeping" \/ u = Head(lockQueue))
<1>1. lockQueue \in Seq(Tasks) /\ lockQueue # <<>>
  BY DEF TypeOK, QueuesExact, Waits
<1>2. CASE lockHolder = NoTask
  <2>1. Head(lockQueue) \in Tasks /\ Waits(lockQueue, Head(lockQueue))
    BY <1>1 DEF Waits
  <2>2. Runs(Head(lockQueue))
    BY <1>1, <1>2, <2>1 DEF QueuesExact, Runs
  <2> QED BY <2>1, <2>2
<1>3. CASE lockHolder # NoTask
  BY <1>3 DEF TypeOK, SleepCoversDelays, Runs
<1> QED BY <1>2, <1>3

\* Who waits for a permit waits for one who has it, or for the head of the queue to run.
LEMMA PermitGetsOn ==
    ASSUME TypeOK, PermitsConserved, QueuesExact, NoLostWakeup,
           NEW t \in Tasks, pc[t] = "semWait"
    PROVE  \E u \in Tasks : pc[u] \in HasPermit \/ (Runs(u) /\ u = Head(semQueue))
<1>1. semQueue \in Seq(Tasks) /\ semQueue # <<>> /\ semGranted \in Nat /\ semValue \in Nat
  BY DEF TypeOK, QueuesExact, Waits
<1>2. CASE semGranted > 0
  <2>1. Head(semQueue) \in Tasks /\ Waits(semQueue, Head(semQueue))
    BY <1>1 DEF Waits
  <2>2. Runs(Head(semQueue))
    BY <1>1, <1>2, <2>1 DEF QueuesExact, Runs
  <2> QED BY <2>1, <2>2
<1>3. CASE semGranted = 0
  <2>1. semValue = 0
    BY <1>1, <1>3 DEF NoLostWakeup
  <2>2. Cardinality(PermitHolders) # 0
    BY <1>3, <2>1, PermitsType, HoldersFinite DEF PermitsConserved
  <2>3. PermitHolders # {}
    BY <2>2, FS_EmptySet
  <2> QED BY <2>3 DEF PermitHolders
<1> QED BY <1>1, <1>2, <1>3

\* No set of requests waits for itself, whatever is reported and in whichever order the
\* tasks come: the lock is never held by one who waits, a permit that is free never
\* stays unnoticed, and who waits for the lock with a permit does not wait for one
\* without.
THEOREM SomebodyRuns == Spec => []NobodyStuck
<1>1. IInv /\ QueuesExact /\ NoLostWakeup => NobodyStuck
  <2> SUFFICES ASSUME TypeOK, PermitsConserved, SleepCoversDelays, QueuesExact, NoLostWakeup
               PROVE  NobodyStuck
    BY DEF IInv
  <2>1. ASSUME NEW t \in Tasks, pc[t] # "idle" PROVE \E u \in Tasks : Runs(u)
    <3>1. ASSUME NEW v \in Tasks, pc[v] # "idle", pc[v] # "semWait"
          PROVE  \E u \in Tasks : Runs(u)
      <4>1. pc[v] \in {"lockWait", "markWait"} \/ pc[v] \in {"holding", "failed", "sleeping"}
        BY <3>1 DEF TypeOK, Places
      <4> QED BY <4>1, LockGetsOn DEF Runs
    <3>2. CASE pc[t] = "semWait"
      <4>1. PICK u \in Tasks : pc[u] \in HasPermit \/ Runs(u)
        BY <3>2, PermitGetsOn
      <4> QED BY <3>1, <4>1 DEF HasPermit
    <3> QED BY <2>1, <3>1, <3>2
  <2> QED BY <2>1, LockGetsOn, PermitGetsOn DEF NobodyStuck
<1> QED BY <1>1, Invariance, QueuesKept, NoWakeupLost, PTL
=============================================================================
