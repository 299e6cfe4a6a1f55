--------------------------- MODULE TrafficControl ---------------------------
(***************************************************************************)
(* WaybillTrafficController, app/automation/traffic_control.py: a FIFO     *)
(* semaphore bounds the attempts that run at once, and a FIFO lock, held   *)
(* DURING the pacing sleep, spaces their admissions and makes them wait    *)
(* for the backoff that failed attempts report.                            *)
(*                                                                         *)
(* All clients are coroutines of one event loop, so what lies between two  *)
(* suspension points is one step: an acquire() that finds a permit, the    *)
(* lock and no delay runs to its end in the step that starts it.           *)
(*                                                                         *)
(* loop.time() is modelled by what is left of each deadline, as snapshot() *)
(* computes it: nextIn is max(0, _next_allowed_at - now), blockedFor is    *)
(* max(0, _blocked_until - now).  The code reads the two deadlines through *)
(* such a max only, so nothing is lost, and no bound on time is needed.    *)
(***************************************************************************)
EXTENDS Integers, Sequences, FiniteSets

CONSTANTS
    Tasks,                    \* the requests of WaybillService
    NoTask,
    ModeOf,                   \* ModeOf[t]: the operation mode t passes to slot()
    WAYBILL_MAX_CONCURRENT,
    WAYBILL_MIN_GAP,          \* the configuration, in whole units of time
    WAYBILL_JITTER,
    WAYBILL_BLOCK_BACKOFF,
    WAYBILL_BLOCK_BACKOFF_MAX,
    Multipliers               \* the multipliers callers pass

Modes == {"safe", "full"}

ASSUME TrafficAssumption ==
    /\ IsFiniteSet(Tasks)
    /\ NoTask \notin Tasks
    /\ ModeOf \in [Tasks -> Modes]
    /\ WAYBILL_MAX_CONCURRENT \in Int
    /\ WAYBILL_MIN_GAP \in Int
    /\ WAYBILL_JITTER \in Int
    /\ WAYBILL_BLOCK_BACKOFF \in Int
    /\ WAYBILL_BLOCK_BACKOFF_MAX \in Int
    /\ Multipliers \subseteq Int

Larger(a, b) == IF a >= b THEN a ELSE b
Smaller(a, b) == IF a <= b THEN a ELSE b

Permits == Larger(1, WAYBILL_MAX_CONCURRENT)

\* The pause after an admission: the configured gap and a random jitter.
Gaps == {Larger(0, WAYBILL_MIN_GAP) + j : j \in 0..Larger(0, WAYBILL_JITTER)}

Backoff(multiplier) ==
    LET base == Larger(0, WAYBILL_BLOCK_BACKOFF)
    IN  Smaller(Larger(base, WAYBILL_BLOCK_BACKOFF_MAX), base * Larger(1, multiplier))

VARIABLES
    pc,            \* pc[t]: the suspension point of t
    semValue,      \* _semaphore: its counter,
    semQueue,      \*   the coroutines suspended in acquire(), oldest first,
    semGranted,    \*   and how many of the oldest were handed a permit already
    lockHolder,    \* _lock: who holds it across a suspension (the sleeper)
    lockQueue,     \*   and who waits for it, oldest first
    sleepLeft,     \* what is left of the pacing sleep
    nextIn,        \* _next_allowed_at, as time left
    blockedFor,    \* _blocked_until, as time left
    active,        \* _active_by_mode; _active_requests is the sum
    queued         \* _queued_by_mode; _queued_requests is the sum

semVars  == <<semValue, semQueue, semGranted>>
lockVars == <<lockHolder, lockQueue, sleepLeft>>
vars == <<pc, semVars, lockVars, nextIn, blockedFor, active, queued>>

\* Where a coroutine can be suspended: "semWait" and "lockWait" inside acquire,
\* "sleeping" inside _wait_for_pacing, "holding" in the body of slot(),
\* "failed" between the release after a failed attempt and its report,
\* "markWait" inside mark_temporary_block.
Places == {"idle", "semWait", "lockWait", "sleeping", "holding", "failed", "markWait"}

HasPermit == {"lockWait", "sleeping", "holding"}
PermitHolders == {t \in Tasks : pc[t] \in HasPermit}
Admitted == {t \in Tasks : pc[t] = "holding"}

Init ==
    /\ pc = [t \in Tasks |-> "idle"]
    /\ semValue = Permits
    /\ semQueue = <<>>
    /\ semGranted = 0
    /\ lockHolder = NoTask
    /\ lockQueue = <<>>
    /\ sleepLeft = 0
    /\ nextIn = 0
    /\ blockedFor = 0
    /\ active = [m \in Modes |-> 0]
    /\ queued = [m \in Modes |-> 0]

----------------------------------------------------------------------------
(* _wait_for_pacing                                                         *)

\* A newcomer takes an asyncio.Lock at once only if nobody waits for it.
LockFree == lockHolder = NoTask /\ lockQueue = <<>>

PacingDelay == Larger(nextIn, blockedFor)

\* The end of _wait_for_pacing: the next admission is put off, the lock is
\* given back, and acquire() returns to the body of slot().
Admit(t) ==
    /\ pc' = [pc EXCEPT ![t] = "holding"]
    /\ lockHolder' = NoTask
    /\ nextIn' \in Gaps

\* Mutant of Pace: the sleep is taken outside of the lock.
PaceUnlocked(t) ==
    \/ /\ PacingDelay > 0
       /\ pc' = [pc EXCEPT ![t] = "sleeping"]
       /\ lockHolder' = NoTask
       /\ sleepLeft' = PacingDelay
       /\ UNCHANGED nextIn
    \/ /\ PacingDelay = 0
       /\ Admit(t)
       /\ UNCHANGED sleepLeft

\* t has the lock: it sleeps with it, or has nothing to wait for.
Pace(t) ==
    \/ /\ PacingDelay > 0
       /\ pc' = [pc EXCEPT ![t] = "sleeping"]
       /\ lockHolder' = t
       /\ sleepLeft' = PacingDelay
       /\ UNCHANGED nextIn
    \/ /\ PacingDelay = 0
       /\ Admit(t)
       /\ UNCHANGED sleepLeft

EnterPacing(t) ==
    \/ /\ LockFree
       /\ Pace(t)
       /\ UNCHANGED lockQueue
    \/ /\ ~LockFree
       /\ pc' = [pc EXCEPT ![t] = "lockWait"]
       /\ lockQueue' = Append(lockQueue, t)
       /\ UNCHANGED <<lockHolder, sleepLeft, nextIn>>

Wake(t) ==
    /\ pc[t] = "sleeping"
    /\ sleepLeft = 0
    /\ Admit(t)
    /\ UNCHANGED <<semVars, lockQueue, sleepLeft, blockedFor, active, queued>>

\* Mutant of LockHandover: any waiter may take the lock that was released.
LockScramble(t) ==
    /\ lockHolder = NoTask
    /\ \E i \in DOMAIN lockQueue : lockQueue[i] = t
    /\ lockQueue' = SelectSeq(lockQueue, LAMBDA u : u # t)

\* The head of the lock's queue runs again after the lock was released.
LockHandover(t) ==
    /\ lockHolder = NoTask
    /\ lockQueue # <<>>
    /\ t = Head(lockQueue)
    /\ lockQueue' = Tail(lockQueue)

LockResume(t) ==
    /\ pc[t] = "lockWait"
    /\ LockHandover(t)
    /\ Pace(t)
    /\ UNCHANGED <<semVars, blockedFor, active, queued>>

----------------------------------------------------------------------------
(* acquire and release                                                      *)

\* Mutant of CountDown: the mode is not passed on, its default is counted.
CountDownDefault(counter, m) == [counter EXCEPT !["safe"] = Larger(0, @ - 1)]

CountDown(counter, m) == [counter EXCEPT ![m] = Larger(0, @ - 1)]
CountUp(counter, m) == [counter EXCEPT ![m] = @ + 1]

\* A newcomer takes a permit at once only if nobody waits for one.
SemAvailable == semValue > 0 /\ semQueue = <<>>

AcquireNow(t) ==
    /\ pc[t] = "idle"
    /\ SemAvailable
    /\ semValue' = semValue - 1
    /\ active' = CountUp(active, ModeOf[t])
    /\ EnterPacing(t)
    /\ UNCHANGED <<semQueue, semGranted, blockedFor, queued>>

\* Mutant of AcquireWait: the newest waiter gets the permit first.
AcquireFront(t) ==
    /\ pc[t] = "idle"
    /\ ~SemAvailable
    /\ pc' = [pc EXCEPT ![t] = "semWait"]
    /\ semQueue' = <<t>> \o semQueue
    /\ queued' = CountUp(queued, ModeOf[t])
    /\ UNCHANGED <<semValue, semGranted, lockVars, nextIn, blockedFor, active>>

AcquireWait(t) ==
    /\ pc[t] = "idle"
    /\ ~SemAvailable
    /\ pc' = [pc EXCEPT ![t] = "semWait"]
    /\ semQueue' = Append(semQueue, t)
    /\ queued' = CountUp(queued, ModeOf[t])
    /\ UNCHANGED <<semValue, semGranted, lockVars, nextIn, blockedFor, active>>

\* Waiters that were not handed a permit yet.
UngrantedWaiters == Len(semQueue) - semGranted

\* Mutant of SemResume: the waiter does not pass on a permit freed meanwhile.
SemResumeAlone(t) ==
    /\ pc[t] = "semWait"
    /\ semGranted > 0
    /\ semQueue # <<>>
    /\ t = Head(semQueue)
    /\ semQueue' = Tail(semQueue)
    /\ semGranted' = semGranted - 1
    /\ queued' = CountDown(queued, ModeOf[t])
    /\ active' = CountUp(active, ModeOf[t])
    /\ EnterPacing(t)
    /\ UNCHANGED <<semValue, blockedFor>>

\* The waiter that was handed a permit runs again; as asyncio.Semaphore.acquire
\* does, it first passes a permit on that was freed in the meantime.
SemResume(t) ==
    /\ pc[t] = "semWait"
    /\ semGranted > 0
    /\ semQueue # <<>>
    /\ t = Head(semQueue)
    /\ semQueue' = Tail(semQueue)
    /\ \/ /\ semValue > 0 /\ UngrantedWaiters > 0
          /\ semValue' = semValue - 1
          /\ UNCHANGED semGranted
       \/ /\ ~(semValue > 0 /\ UngrantedWaiters > 0)
          /\ semGranted' = semGranted - 1
          /\ UNCHANGED semValue
    /\ queued' = CountDown(queued, ModeOf[t])
    /\ active' = CountUp(active, ModeOf[t])
    /\ EnterPacing(t)
    /\ UNCHANGED blockedFor

\* asyncio.Semaphore.release: hand the permit to the oldest waiter without one.
SemRelease ==
    \/ /\ UngrantedWaiters > 0
       /\ semGranted' = semGranted + 1
       /\ UNCHANGED semValue
    \/ /\ UngrantedWaiters <= 0
       /\ semValue' = semValue + 1
       /\ UNCHANGED semGranted

\* slot() is left: the attempt is over ("idle"), or failed in a way that its
\* caller goes on to report ("failed").  The caller is not suspended in between;
\* that others may run there only adds behaviours, and keeps a step of the
\* controller one step of PacedPool.
Release(t) ==
    /\ pc[t] = "holding"
    /\ \E after \in {"idle", "failed"} : pc' = [pc EXCEPT ![t] = after]
    /\ active' = CountDown(active, ModeOf[t])
    /\ SemRelease
    /\ UNCHANGED <<semQueue, lockVars, nextIn, blockedFor, queued>>

----------------------------------------------------------------------------
(* mark_temporary_block                                                     *)

\* Mutant of SetBlock: a later, shorter backoff replaces a longer one.
SetBlockAnew(t, multiplier) ==
    /\ blockedFor' = Backoff(multiplier)
    /\ pc' = [pc EXCEPT ![t] = "idle"]

SetBlock(t, multiplier) ==
    /\ blockedFor' = Larger(blockedFor, Backoff(multiplier))
    /\ pc' = [pc EXCEPT ![t] = "idle"]

\* Mutant of MarkNow: the report does not take the lock.
MarkUnlocked(t) ==
    /\ pc[t] = "failed"
    /\ \E m \in Multipliers : SetBlock(t, m)
    /\ UNCHANGED <<semVars, lockVars, nextIn, active, queued>>

MarkNow(t) ==
    /\ pc[t] = "failed"
    /\ LockFree
    /\ \E m \in Multipliers : SetBlock(t, m)
    /\ UNCHANGED <<semVars, lockVars, nextIn, active, queued>>

MarkWait(t) ==
    /\ pc[t] = "failed"
    /\ ~LockFree
    /\ pc' = [pc EXCEPT ![t] = "markWait"]
    /\ lockQueue' = Append(lockQueue, t)
    /\ UNCHANGED <<semVars, lockHolder, sleepLeft, nextIn, blockedFor, active, queued>>

MarkResume(t) ==
    /\ pc[t] = "markWait"
    /\ LockHandover(t)
    /\ \E m \in Multipliers : SetBlock(t, m)
    /\ UNCHANGED <<semVars, lockHolder, sleepLeft, nextIn, active, queued>>

----------------------------------------------------------------------------
Tick ==
    /\ Larger(sleepLeft, PacingDelay) > 0
    /\ sleepLeft' = Larger(0, sleepLeft - 1)
    /\ nextIn' = Larger(0, nextIn - 1)
    /\ blockedFor' = Larger(0, blockedFor - 1)
    /\ UNCHANGED <<pc, semVars, lockHolder, lockQueue, active, queued>>

Proceed(t) ==
    \/ SemResume(t) \/ LockResume(t) \/ Wake(t)
    \/ MarkNow(t) \/ MarkWait(t) \/ MarkResume(t)

Next ==
    \/ \E t \in Tasks : AcquireNow(t) \/ AcquireWait(t) \/ Release(t) \/ Proceed(t)
    \/ Tick

Spec == Init /\ [][Next]_vars

\* The event loop runs every ready coroutine, the clock advances, and every
\* attempt leaves its slot: the browser calls in its body carry timeouts.
Fairness ==
    /\ \A t \in Tasks : WF_vars(Proceed(t)) /\ WF_vars(Release(t))
    /\ WF_vars(Tick)

FairSpec == Spec /\ Fairness

----------------------------------------------------------------------------
(* Properties                                                               *)

\* Every variable has its type (the fields set up in __init__, lines 23-32).
TypeOK ==
    /\ pc \in [Tasks -> Places]
    /\ semValue \in Nat
    /\ semQueue \in Seq(Tasks)
    /\ semGranted \in Nat
    /\ lockHolder \in Tasks \cup {NoTask}
    /\ lockQueue \in Seq(Tasks)
    /\ sleepLeft \in Nat
    /\ nextIn \in Nat
    /\ blockedFor \in Nat
    /\ active \in [Modes -> Nat]
    /\ queued \in [Modes -> Nat]

\* No permit of the semaphore is lost or made: those left, those handed to a
\* waiter that has not run yet and those of the tasks past the semaphore
\* (waiting for pacing included) always add up to the configured number.
PermitsConserved ==
    semValue + semGranted + Cardinality(PermitHolders) = Permits

\* What WAYBILL_MAX_CONCURRENT is for: never more attempts in their slots.
CapacityRespected == Cardinality(Admitted) <= Permits

\* Exactly the sleeper holds the lock across a suspension, and its sleep,
\* computed once, still covers both deadlines: none moves while it sleeps.
SleepCoversDelays ==
    /\ \A t \in Tasks : pc[t] = "sleeping" <=> lockHolder = t
    /\ lockHolder # NoTask => sleepLeft >= PacingDelay

\* The inductive invariant of the proofs: the bound on admitted tasks needs the
\* exact account of permits, and pacing needs that no deadline moves under the
\* sleeper.
IInv == TypeOK /\ PermitsConserved /\ SleepCoversDelays

\* The counters that snapshot() reports agree with where the tasks are,
\* mode by mode: max(0, ...) never hides a count that went wrong.
CountersExact ==
    \A m \in Modes :
        /\ active[m] = Cardinality({t \in PermitHolders : ModeOf[t] = m})
        /\ queued[m] = Cardinality({t \in Tasks : pc[t] = "semWait" /\ ModeOf[t] = m})

\* No lost wakeup: while a permit is free and somebody waits for one, some
\* waiter has been handed a permit and will pass the free one on.
NoLostWakeup == semValue > 0 /\ semQueue # <<>> => semGranted > 0

\* acquire() returns only when both the gap after the previous admission and
\* the reported backoff have run out, at the moment of the admission and not
\* only at the moment the delay was computed.
AdmissionPaced ==
    [][\A t \in Tasks : pc[t] # "holding" /\ pc'[t] = "holding" => PacingDelay = 0]_vars

\* Both queues are served in order of arrival.  A report of a temporary block
\* is therefore overtaken by those only who queued for the lock before it.
Ahead(queue, t, u) == \E i, j \in DOMAIN queue : i < j /\ queue[i] = t /\ queue[j] = u
Waits(queue, t) == \E i \in DOMAIN queue : queue[i] = t

ServedInOrder ==
    [][\A t, u \in Tasks :
         /\ Ahead(lockQueue, t, u) /\ Waits(lockQueue', t) => Waits(lockQueue', u)
         /\ Ahead(semQueue, t, u) /\ Waits(semQueue', t) => Waits(semQueue', u)]_vars

\* The controller is a pool of Permits places with paced admissions.
PhaseOf(place) ==
    CASE place = "holding" -> "in"
      [] place \in {"semWait", "lockWait", "sleeping"} -> "waiting"
      [] OTHER -> "out"

Pool == INSTANCE PacedPool WITH
    Clients <- Tasks,
    Capacity <- Permits,
    Backoffs <- {Backoff(m) : m \in Multipliers},
    phase <- [t \in Tasks |-> PhaseOf(pc[t])],
    gapLeft <- nextIn,
    blockLeft <- blockedFor

\* Every behaviour of the controller is one of the abstract pool.
ImplementsPool == Pool!Spec

\* A queued request gets its slot, whatever the others report meanwhile, and a
\* report of a temporary block is recorded in the end, although it queues for
\* the lock behind a sleeper.
NobodyWaitsForever ==
    \A t \in Tasks :
        /\ pc[t] \in {"semWait", "lockWait", "sleeping"} ~> pc[t] = "holding"
        /\ pc[t] \in {"failed", "markWait"} ~> pc[t] = "idle"
=============================================================================
