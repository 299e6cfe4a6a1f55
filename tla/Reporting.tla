----------------------------- MODULE Reporting -----------------------------
(***************************************************************************)
(* ReportService, app/automation/reporting.py: every event is counted in   *)
(* the memory of the process and then in the row of the day in the         *)
(* database.  The row is read, changed in Python and written back as an    *)
(* absolute value, under an asyncio.Lock that excludes the coroutines of   *)
(* the same process only; other processes are held off by nothing but the  *)
(* unique index on report_date.                                            *)
(*                                                                         *)
(* A step ends at an await: the lock, the SELECT, the COMMIT (which sends  *)
(* the INSERT or UPDATE), the second SELECT.  The six map columns are one  *)
(* event here, and the two operation modes share their in-memory counters. *)
(***************************************************************************)
EXTENDS Integers, FiniteSets, Functions

CONSTANTS
    Tasks,         \* coroutines that report events
    Workers,       \* server processes that share the database
    None,
    Events,        \* among "requests", "success", "failure", "map"
    Settings,      \* deployments: the process each coroutine runs in, and which
                   \*   of "db" (a statement raises) and "kill" may happen
    MaxDay,        \* bound: days
    MaxCalls       \* bound: calls of record_... in one behaviour

ASSUME ReportingAssumption ==
    /\ IsFiniteSet(Tasks) /\ IsFiniteSet(Workers)
    /\ None \notin Tasks
    /\ Events \subseteq {"requests", "success", "failure", "map"}
    /\ Settings \subseteq [workerOf : [Tasks -> Workers], faults : SUBSET {"db", "kill"}]
    /\ MaxDay \in Nat \ {0}
    /\ MaxCalls \in Nat

Days == 1..MaxDay
NoRow == [e \in Events |-> -1]          \* BotStats has no row for the day
NewRow == [e \in Events |-> 0]

\* The events that _record_mode_event counts; record_map_usage skips it.
InMemory == Events \ {"map"}

VARIABLES
    setting,       \* one of Settings
    day,           \* date.today()
    rows,          \* rows[d]: the row of day d, by event, or NoRow
    mem,           \* mem[w]: _mode_counters of process w
    lock,          \* lock[w]: who holds _lock of process w
    pc,            \* pc[t]: where t is suspended
    event,         \* event[t]: what t reports
    began,         \* began[t]: `today' of _update_today_stats
    target,        \* target[t]: the day of the row t works on
    seen,          \* seen[t]: the count t read there, -1 if there was no row
    calls,         \* calls made so far (for the bound)
    done           \* history: committed reports, by day and event

locals == <<pc, event, began, target, seen>>
vars == <<setting, day, rows, mem, lock, locals, calls, done>>

Places == {"idle", "lockWait", "select", "commit", "reselect"}

W(t) == setting.workerOf[t]

Init ==
    /\ setting \in Settings
    /\ day = 1
    /\ rows = [d \in Days |-> NoRow]
    /\ mem = [w \in Workers |-> [e \in InMemory |-> 0]]
    /\ lock = [w \in Workers |-> None]
    /\ pc = [t \in Tasks |-> "idle"]
    /\ event = [t \in Tasks |-> None]
    /\ began = [t \in Tasks |-> 1]
    /\ target = [t \in Tasks |-> 1]
    /\ seen = [t \in Tasks |-> -1]
    /\ calls = 0
    /\ done = [d \in Days |-> [e \in Events |-> 0]]

\* Mutant of LockFree: the lock excludes nobody.
LockFreeAlways(w) == TRUE

LockFree(w) == lock[w] = None

\* Mutant of Unlock: the lock is not given back when the call ends.
UnlockNever(t) == UNCHANGED lock

Unlock(t) == lock' = [lock EXCEPT ![W(t)] = None]

\* Leaving _update_today_stats gives the lock back and forgets the session.
Leave(t) ==
    /\ pc' = [pc EXCEPT ![t] = "idle"]
    /\ Unlock(t)
    /\ event' = [event EXCEPT ![t] = None]
    /\ began' = [began EXCEPT ![t] = 1]
    /\ target' = [target EXCEPT ![t] = 1]
    /\ seen' = [seen EXCEPT ![t] = -1]

Committed(t) ==
    /\ Leave(t)
    /\ done' = [done EXCEPT ![target[t]][event[t]] = @ + 1]

\* Mutant of CountInMemory: the memory is counted only if the lock is free.
CountIfFree(w, e) ==
    mem' = IF e \in InMemory /\ LockFree(w) THEN [mem EXCEPT ![w][e] = @ + 1] ELSE mem

\* _record_mode_event; _op_lock is never held across an await.
CountInMemory(w, e) ==
    mem' = IF e \in InMemory THEN [mem EXCEPT ![w][e] = @ + 1] ELSE mem

\* Mutant of Today: the day is asked for once, when the process starts.
FirstDay == 1

\* _get_today_stats asks for the day anew, once the lock is there and before its
\* SELECT: it may not be `today' any more, nor the day when the SELECT is answered.
Today == day

Enter(t) ==
    /\ lock' = [lock EXCEPT ![W(t)] = t]
    /\ pc' = [pc EXCEPT ![t] = "select"]
    /\ target' = [target EXCEPT ![t] = Today]

\* record_request, record_success, record_failure, record_map_usage: the count
\* in memory, `today', and the lock.
Record(t, e) ==
    /\ pc[t] = "idle"
    /\ calls < MaxCalls
    /\ calls' = calls + 1
    /\ CountInMemory(W(t), e)
    /\ event' = [event EXCEPT ![t] = e]
    /\ began' = [began EXCEPT ![t] = day]
    /\ \/ LockFree(W(t)) /\ Enter(t)
       \/ /\ ~LockFree(W(t))
          /\ pc' = [pc EXCEPT ![t] = "lockWait"]
          /\ UNCHANGED <<lock, target>>
    /\ UNCHANGED <<setting, day, rows, seen, done>>

LockAcquired(t) ==
    /\ pc[t] = "lockWait"
    /\ LockFree(W(t))
    /\ Enter(t)
    /\ UNCHANGED <<setting, day, rows, mem, event, began, seen, calls, done>>

\* The row that a SELECT for day d shows, and what the updater will add to.
Look(t, d) ==
    /\ target' = [target EXCEPT ![t] = d]
    /\ seen' = [seen EXCEPT ![t] = rows[d][event[t]]]
    /\ pc' = [pc EXCEPT ![t] = "commit"]

Select(t) ==
    /\ pc[t] = "select"
    /\ Look(t, target[t])
    /\ UNCHANGED <<setting, day, rows, mem, lock, event, began, calls, done>>

\* The UPDATE names the changed column only, with the value computed in Python.
CommitUpdate(t) ==
    /\ pc[t] = "commit"
    /\ seen[t] # -1
    /\ rows' = [rows EXCEPT ![target[t]][event[t]] = seen[t] + 1]
    /\ Committed(t)
    /\ UNCHANGED <<setting, day, mem, calls>>

\* Mutant of Insertable: without the unique index a second row hides the first.
InsertableAlways(d) == TRUE

\* The unique index on report_date.
Insertable(d) == rows[d] = NoRow

CommitInsert(t) ==
    /\ pc[t] = "commit"
    /\ seen[t] = -1
    /\ Insertable(target[t])
    /\ rows' = [rows EXCEPT ![target[t]] = [NewRow EXCEPT ![event[t]] = 1]]
    /\ Committed(t)
    /\ UNCHANGED <<setting, day, mem, calls>>

\* Another process inserted the row first: IntegrityError, rollback.
CommitCollides(t) ==
    /\ pc[t] = "commit"
    /\ seen[t] = -1
    /\ ~Insertable(target[t])
    /\ pc' = [pc EXCEPT ![t] = "reselect"]
    /\ UNCHANGED <<setting, day, rows, mem, lock, event, began, target, seen, calls, done>>

\* The second SELECT uses `today', the day of the call; without a row there the
\* bare raise ends the call.
Reselect(t) ==
    /\ pc[t] = "reselect"
    /\ rows[began[t]] # NoRow
    /\ Look(t, began[t])
    /\ UNCHANGED <<setting, day, rows, mem, lock, event, began, calls, done>>

ReselectFindsNothing(t) ==
    /\ pc[t] = "reselect"
    /\ rows[began[t]] = NoRow
    /\ Leave(t)
    /\ UNCHANGED <<setting, day, rows, mem, calls, done>>

StatementFails(t) ==
    /\ "db" \in setting.faults
    /\ pc[t] \in {"select", "commit", "reselect"}
    /\ Leave(t)
    /\ UNCHANGED <<setting, day, rows, mem, calls, done>>

Midnight ==
    /\ day < MaxDay
    /\ day' = day + 1
    /\ UNCHANGED <<setting, rows, mem, lock, locals, calls, done>>

\* Process w dies and is started again: its memory is gone, the rows are not.
Kill(w) ==
    /\ "kill" \in setting.faults
    /\ LET gone == {t \in Tasks : W(t) = w}
           reset(f, v) == [t \in Tasks |-> IF t \in gone THEN v ELSE f[t]]
       IN  /\ pc' = reset(pc, "idle")
           /\ event' = reset(event, None)
           /\ began' = reset(began, 1)
           /\ target' = reset(target, 1)
           /\ seen' = reset(seen, -1)
    /\ lock' = [lock EXCEPT ![w] = None]
    /\ mem' = [mem EXCEPT ![w] = [e \in InMemory |-> 0]]
    /\ UNCHANGED <<setting, day, rows, calls, done>>

Proceed(t) ==
    \/ LockAcquired(t) \/ Select(t) \/ CommitUpdate(t) \/ CommitInsert(t)
    \/ CommitCollides(t) \/ Reselect(t) \/ ReselectFindsNothing(t) \/ StatementFails(t)

Next ==
    \/ \E t \in Tasks : Proceed(t) \/ \E e \in Events : Record(t, e)
    \/ Midnight
    \/ \E w \in Workers : Kill(w)

Spec == Init /\ [][Next]_vars

\* The event loop and the database get on.  asyncio.Lock serves its waiters in
\* order; the model leaves the order open and asks for strong fairness instead.
Fairness == \A t \in Tasks : WF_vars(Proceed(t)) /\ SF_vars(LockAcquired(t))

FairSpec == Spec /\ Fairness

----------------------------------------------------------------------------
(* What the reports show                                                    *)

Shown(d, e) == IF rows[d] = NoRow THEN 0 ELSE rows[d][e]

\* get_summary adds a column up over all the days; get_daily_report shows them.
Total(e) == SumFunction([d \in Days |-> Shown(d, e)])

----------------------------------------------------------------------------
(* Properties                                                               *)

\* Every variable has its type.
TypeOK ==
    /\ setting \in Settings
    /\ day \in Days
    /\ rows \in [Days -> {NoRow} \cup [Events -> Nat]]
    /\ mem \in [Workers -> [InMemory -> Nat]]
    /\ lock \in [Workers -> Tasks \cup {None}]
    /\ pc \in [Tasks -> Places]
    /\ event \in [Tasks -> Events \cup {None}]
    /\ began \in [Tasks -> Days]
    /\ target \in [Tasks -> Days]
    /\ seen \in [Tasks -> Nat \cup {-1}]
    /\ calls \in 0..MaxCalls
    /\ done \in [Days -> [Events -> Nat]]

OneProcess == Cardinality({W(t) : t \in Tasks}) = 1

\* Each report writes back a value read earlier.  With one process no update is
\* lost all the same: the row of a day shows exactly the reports committed to
\* it.  With several, updates can be lost, but none is counted twice.
RowsTruthful ==
    \A d \in Days, e \in Events :
        /\ Shown(d, e) <= done[d][e]
        /\ OneProcess => Shown(d, e) = done[d][e]

\* The lock of a process is held by the one of its calls that has a session.
LockHeld ==
    /\ \A w \in Workers : lock[w] # None => W(lock[w]) = w
    /\ \A t \in Tasks : lock[W(t)] = t <=> pc[t] \in {"select", "commit", "reselect"}

\* What a call read is not newer than the row, and with one process is the row.
ReadIsCurrent(t) ==
    /\ pc[t] # "idle" => event[t] \in Events /\ began[t] <= day
    /\ pc[t] \in {"select", "commit", "reselect"} => began[t] <= target[t] /\ target[t] <= day
    /\ pc[t] = "commit" =>
          /\ seen[t] <= done[target[t]][event[t]]
          /\ seen[t] # -1 => rows[target[t]] # NoRow
          /\ OneProcess => seen[t] = rows[target[t]][event[t]]

ReadsCurrent == \A t \in Tasks : ReadIsCurrent(t)

\* The inductive invariant: no update is lost (RowsTruthful) because a value read
\* stays current for as long as the lock is held.
IInv == TypeOK /\ LockHeld /\ ReadsCurrent /\ RowsTruthful

\* /reports/operational reads the memory, /reports/summary the rows.  With one
\* process that never failed to reach the database the two agree whenever no
\* report is being made.
ReportsAgree ==
    OneProcess /\ setting.faults = {} /\ (\A t \in Tasks : pc[t] = "idle") =>
        \A e \in InMemory : SumFunction([w \in Workers |-> mem[w][e]]) = Total(e)

\* A report is committed to the row of a day in which it was being made, also
\* when midnight passes while it waits, and by a row that has only one writer
\* in the process: the holder of its lock.
CommitsInTime ==
    [][\A d \in Days : rows'[d] # rows[d] =>
         \E t \in Tasks :
             /\ pc[t] = "commit" /\ pc'[t] = "idle"
             /\ d \in began[t]..day
             /\ lock[W(t)] = t]_vars

\* Whatever interleaves and fails on the way, the reports of the API behave like
\* the Ledger: one count of one day moves at a time, by one with one process; two
\* processes that insert the first row of a day collide on the unique index, and
\* the loser adds to the winner's row.
Abstract == INSTANCE Ledger WITH
    exclusive <- OneProcess,
    committed <- done,
    shown <- [d \in Days |-> [e \in Events |-> Shown(d, e)]]

ImplementsLedger == Abstract!Spec

\* Every call of record_... returns or raises, whatever the others meet.
EveryReportEnds == \A t \in Tasks : pc[t] # "idle" ~> pc[t] = "idle"
=============================================================================
