-------------------------- MODULE ReportingProofs --------------------------
(***************************************************************************)
(* What TLAPS proves of ReportService, for any number of coroutines,       *)
(* processes and days and whatever fails: the invariant by which one       *)
(* process loses no update, that reports are committed to the right day,   *)
(* that the rows implement the abstract Ledger, with what it takes to      *)
(* speak of sums, that memory and rows show the same totals, and that a    *)
(* report only goes on and its lock is never kept by one that waits for    *)
(* it.                                                                     *)
(***************************************************************************)
EXTENDS Reporting, FiniteSetTheorems, WellFoundedInduction, TLAPS

----------------------------------------------------------------------------
(* Processes                                                                *)

\* The process of a coroutine is one of Workers.
LEMMA WorkerType ==
    ASSUME setting \in Settings, NEW t \in Tasks
    PROVE  W(t) \in Workers
BY ReportingAssumption DEF W

\* With one process every coroutine runs in the same one.
LEMMA SameProcess ==
    ASSUME setting \in Settings, OneProcess, NEW t \in Tasks, NEW u \in Tasks
    PROVE  W(t) = W(u)
<1> DEFINE used == {W(v) : v \in Tasks}
<1>1. used \subseteq Workers
  BY WorkerType
<1>2. IsFiniteSet(used)
  BY <1>1, ReportingAssumption, FS_Subset
<1>3. PICK w : used = {w}
  BY <1>2, FS_Singleton DEF OneProcess
<1> QED BY <1>3

\* No step moves a coroutine to another process.
LEMMA SettingStays ==
    ASSUME setting' = setting
    PROVE  /\ OneProcess' <=> OneProcess
           /\ OneProcess' = OneProcess
           /\ \A t \in Tasks : W(t)' = W(t)
BY DEF OneProcess, W

----------------------------------------------------------------------------
(* Types                                                                    *)

\* The initial state is well typed.
LEMMA InitType == Init => TypeOK
BY ReportingAssumption DEF Init, TypeOK, Days, Places

\* Leaving a call keeps the types of what belongs to it.
LEMMA LeaveType ==
    ASSUME TypeOK, NEW t \in Tasks, Leave(t)
    PROVE  /\ lock' \in [Workers -> Tasks \cup {None}]
           /\ pc' \in [Tasks -> Places]
           /\ event' \in [Tasks -> Events \cup {None}]
           /\ began' \in [Tasks -> Days]
           /\ target' \in [Tasks -> Days]
           /\ seen' \in [Tasks -> Nat \cup {-1}]
<1>1. 1 \in Days /\ -1 \in Nat \cup {-1} /\ "idle" \in Places
  BY ReportingAssumption DEF Days, Places
<1> QED BY <1>1 DEF TypeOK, Leave, Unlock

\* So does taking the lock.
LEMMA EnterType ==
    ASSUME TypeOK, NEW t \in Tasks, Enter(t)
    PROVE  /\ lock' \in [Workers -> Tasks \cup {None}]
           /\ pc' \in [Tasks -> Places]
           /\ target' \in [Tasks -> Days]
BY DEF TypeOK, Enter, Today, Places

\* So does a SELECT.
LEMMA LookType ==
    ASSUME TypeOK, NEW t \in Tasks, NEW d \in Days, event[t] \in Events, Look(t, d)
    PROVE  /\ pc' \in [Tasks -> Places]
           /\ target' \in [Tasks -> Days]
           /\ seen' \in [Tasks -> Nat \cup {-1}]
<1>1. rows[d][event[t]] \in Nat \cup {-1}
  <2>1. CASE rows[d] = NoRow
    BY <2>1 DEF NoRow
  <2>2. CASE rows[d] \in [Events -> Nat]
    BY <2>2
  <2> QED BY <2>1, <2>2 DEF TypeOK
<1> QED BY <1>1 DEF TypeOK, Look, Places

\* Every step keeps the types, if who is in a call knows what it reports.
LEMMA NextType ==
    ASSUME TypeOK, ReadsCurrent, [Next]_vars
    PROVE  TypeOK'
<1>1. ASSUME NEW t \in Tasks, NEW e \in Events, Record(t, e) PROVE TypeOK'
  <2>1. mem' \in [Workers -> [InMemory -> Nat]]
    <3>1. CASE e \in InMemory
      <4>1. mem' = [mem EXCEPT ![W(t)][e] = @ + 1]
        BY <1>1, <3>1 DEF Record, CountInMemory
      <4>2. mem[W(t)] \in [InMemory -> Nat]
        BY WorkerType DEF TypeOK
      <4>3. [mem[W(t)] EXCEPT ![e] = @ + 1] \in [InMemory -> Nat]
        BY <3>1, <4>2
      <4> QED BY <4>1, <4>3 DEF TypeOK
    <3>2. CASE e \notin InMemory
      BY <1>1, <3>2 DEF Record, CountInMemory, TypeOK
    <3> QED BY <3>1, <3>2
  <2>2. /\ lock' \in [Workers -> Tasks \cup {None}]
        /\ pc' \in [Tasks -> Places]
        /\ target' \in [Tasks -> Days]
    <3>1. CASE Enter(t)
      BY <3>1, EnterType
    <3>2. CASE pc' = [pc EXCEPT ![t] = "lockWait"] /\ UNCHANGED <<lock, target>>
      BY <3>2 DEF TypeOK, Places
    <3> QED BY <1>1, <3>1, <3>2 DEF Record
  <2>3. /\ event' \in [Tasks -> Events \cup {None}] /\ began' \in [Tasks -> Days]
        /\ calls' \in 0..MaxCalls
    BY <1>1, ReportingAssumption DEF Record, TypeOK
  <2> QED BY <1>1, <2>1, <2>2, <2>3 DEF Record, TypeOK
<1>2. ASSUME NEW t \in Tasks, LockAcquired(t) PROVE TypeOK'
  BY <1>2, EnterType DEF LockAcquired, TypeOK
<1>3. ASSUME NEW t \in Tasks, Select(t) PROVE TypeOK'
  <2>1. event[t] \in Events /\ target[t] \in Days
    BY <1>3 DEF Select, ReadsCurrent, ReadIsCurrent, TypeOK
  <2> QED BY <1>3, <2>1, LookType DEF Select, TypeOK
<1>4. ASSUME NEW t \in Tasks, CommitUpdate(t) PROVE TypeOK'
  <2>1. /\ event[t] \in Events /\ target[t] \in Days
        /\ rows[target[t]] \in [Events -> Nat]
        /\ seen[t] \in Nat
    BY <1>4 DEF CommitUpdate, ReadsCurrent, ReadIsCurrent, TypeOK
  <2>2. rows' \in [Days -> {NoRow} \cup [Events -> Nat]]
    BY <1>4, <2>1 DEF CommitUpdate, TypeOK
  <2>3. done' \in [Days -> [Events -> Nat]]
    BY <1>4, <2>1 DEF CommitUpdate, Committed, TypeOK
  <2> QED BY <1>4, <2>2, <2>3, LeaveType DEF CommitUpdate, Committed, TypeOK
<1>5. ASSUME NEW t \in Tasks, CommitInsert(t) PROVE TypeOK'
  <2>1. event[t] \in Events /\ target[t] \in Days
    BY <1>5 DEF CommitInsert, ReadsCurrent, ReadIsCurrent, TypeOK
  <2>2. rows' \in [Days -> {NoRow} \cup [Events -> Nat]]
    BY <1>5, <2>1 DEF CommitInsert, NewRow, TypeOK
  <2>3. done' \in [Days -> [Events -> Nat]]
    BY <1>5, <2>1 DEF CommitInsert, Committed, TypeOK
  <2> QED BY <1>5, <2>2, <2>3, LeaveType DEF CommitInsert, Committed, TypeOK
<1>6. ASSUME NEW t \in Tasks, CommitCollides(t) PROVE TypeOK'
  BY <1>6 DEF CommitCollides, TypeOK, Places
<1>7. ASSUME NEW t \in Tasks, Reselect(t) PROVE TypeOK'
  <2>1. event[t] \in Events /\ began[t] \in Days
    BY <1>7 DEF Reselect, ReadsCurrent, ReadIsCurrent, TypeOK
  <2> QED BY <1>7, <2>1, LookType DEF Reselect, TypeOK
<1>8. ASSUME NEW t \in Tasks, ReselectFindsNothing(t) \/ StatementFails(t) PROVE TypeOK'
  BY <1>8, LeaveType DEF ReselectFindsNothing, StatementFails, TypeOK
<1>9. CASE Midnight
  BY <1>9, ReportingAssumption DEF Midnight, TypeOK, Days, locals
<1>10. ASSUME NEW w \in Workers, Kill(w) PROVE TypeOK'
  BY <1>10, ReportingAssumption DEF Kill, TypeOK, Places, Days
<1>11. CASE UNCHANGED vars
  BY <1>11 DEF vars, locals, TypeOK
<1> QED
  BY <1>1, <1>2, <1>3, <1>4, <1>5, <1>6, <1>7, <1>8, <1>9, <1>10, <1>11
  DEF Next, Proceed

----------------------------------------------------------------------------
(* The invariant                                                            *)

\* A call takes the free lock of its process.
LEMMA TakingKeepsLockHeld ==
    ASSUME TypeOK, LockHeld, setting' = setting, NEW t \in Tasks,
           LockFree(W(t)), lock' = [lock EXCEPT ![W(t)] = t],
           pc' = [pc EXCEPT ![t] = "select"]
    PROVE  LockHeld'
<1>1. \A u \in Tasks : W(u)' = W(u) /\ W(u) \in Workers
  BY SettingStays, WorkerType DEF TypeOK
<1>2. \A u \in Tasks : W(u) = W(t) => pc[u] \notin {"select", "commit", "reselect"}
  BY ReportingAssumption DEF LockHeld, LockFree
<1>3. \A w \in Workers : lock'[w] = IF w = W(t) THEN t ELSE lock[w]
  BY <1>1 DEF TypeOK
<1>4. \A u \in Tasks : pc'[u] = IF u = t THEN "select" ELSE pc[u]
  BY DEF TypeOK
<1>5. \A w \in Workers : lock'[w] # None => W(lock[w])' = w
  <2> SUFFICES ASSUME NEW w \in Workers, lock'[w] # None
               PROVE  W(lock[w])' = w
    OBVIOUS
  <2>1. CASE w = W(t)
    BY <1>1, <1>3, <2>1, SettingStays DEF W
  <2>2. CASE w # W(t)
    BY <1>3, <2>2 DEF LockHeld, W
  <2> QED BY <2>1, <2>2
<1>6. \A u \in Tasks : lock'[W(u)] = u <=> pc'[u] \in {"select", "commit", "reselect"}
  BY <1>1, <1>2, <1>3, <1>4 DEF LockHeld
<1> QED BY <1>1, <1>5, <1>6 DEF LockHeld

\* It goes on with the lock, or without it.
LEMMA KeepingKeepsLockHeld ==
    ASSUME TypeOK, LockHeld, setting' = setting, lock' = lock, NEW t \in Tasks, NEW place,
           pc' = [pc EXCEPT ![t] = place],
           pc[t] \in {"select", "commit", "reselect"}
               <=> place \in {"select", "commit", "reselect"}
    PROVE  LockHeld'
<1>1. \A u \in Tasks : W(u)' = W(u) /\ W(u) \in Workers
  BY SettingStays, WorkerType DEF TypeOK
<1>2. \A u \in Workers : lock[u] # None => W(lock[u])' = W(lock[u])
  BY <1>1 DEF TypeOK
<1> QED BY <1>1, <1>2 DEF TypeOK, LockHeld

\* It ends and gives the lock back.
LEMMA LeavingKeepsLockHeld ==
    ASSUME TypeOK, LockHeld, setting' = setting, NEW t \in Tasks, Leave(t),
           pc[t] \in {"select", "commit", "reselect"}
    PROVE  LockHeld'
<1>1. \A u \in Tasks : W(u)' = W(u) /\ W(u) \in Workers
  BY SettingStays, WorkerType DEF TypeOK
<1>2. \A w \in Workers : lock'[w] = IF w = W(t) THEN None ELSE lock[w]
  BY <1>1 DEF TypeOK, Leave, Unlock
<1>3. \A u \in Tasks : pc'[u] = IF u = t THEN "idle" ELSE pc[u]
  BY DEF TypeOK, Leave
<1>4. lock[W(t)] = t
  BY DEF LockHeld
<1>5. \A w \in Workers : lock'[w] # None => W(lock[w])' = w
  BY <1>2 DEF LockHeld, W
<1>6. \A u \in Tasks : lock'[W(u)] = u <=> pc'[u] \in {"select", "commit", "reselect"}
  BY <1>1, <1>2, <1>3, <1>4, ReportingAssumption DEF LockHeld
<1> QED BY <1>1, <1>5, <1>6 DEF LockHeld

\* In each process the coroutine with the session, and no other, holds the lock.
LEMMA NextLockHeld ==
    ASSUME TypeOK, LockHeld, [Next]_vars
    PROVE  LockHeld'
<1>1. ASSUME NEW t \in Tasks, NEW e \in Events, Record(t, e) PROVE LockHeld'
  BY <1>1, TakingKeepsLockHeld, KeepingKeepsLockHeld DEF Record, Enter
<1>2. ASSUME NEW t \in Tasks, LockAcquired(t) PROVE LockHeld'
  BY <1>2, TakingKeepsLockHeld DEF LockAcquired, Enter
<1>3. ASSUME NEW t \in Tasks, Select(t) \/ CommitCollides(t) \/ Reselect(t) PROVE LockHeld'
  BY <1>3, KeepingKeepsLockHeld DEF Select, CommitCollides, Reselect, Look
<1>4. ASSUME NEW t \in Tasks,
             \/ CommitUpdate(t) \/ CommitInsert(t)
             \/ ReselectFindsNothing(t) \/ StatementFails(t)
      PROVE  LockHeld'
  BY <1>4, LeavingKeepsLockHeld
  DEF CommitUpdate, CommitInsert, ReselectFindsNothing, StatementFails, Committed
<1>5. CASE Midnight \/ UNCHANGED vars
  <2>1. UNCHANGED <<setting, lock, pc>>
    BY <1>5 DEF Midnight, vars, locals
  <2>2. \A u \in Tasks : W(u)' = W(u)
    BY <2>1, SettingStays
  <2> QED BY <2>1, <2>2 DEF TypeOK, LockHeld
<1>6. ASSUME NEW w \in Workers, Kill(w) PROVE LockHeld'
  <2>1. \A u \in Tasks : W(u)' = W(u) /\ W(u) \in Workers
    BY <1>6, SettingStays, WorkerType DEF Kill, TypeOK
  <2>2. \A u \in Tasks : pc'[u] = IF W(u) = w THEN "idle" ELSE pc[u]
    BY <1>6 DEF Kill
  <2>3. \A v \in Workers : lock'[v] = IF v = w THEN None ELSE lock[v]
    BY <1>6 DEF Kill, TypeOK
  <2>4. \A v \in Workers : lock'[v] # None => W(lock[v])' = v
    BY <1>6, <2>3 DEF LockHeld, W, Kill
  <2>5. \A u \in Tasks : lock'[W(u)] = u <=> pc'[u] \in {"select", "commit", "reselect"}
    BY <2>1, <2>2, <2>3, ReportingAssumption DEF LockHeld
  <2> QED BY <2>1, <2>4, <2>5 DEF LockHeld
<1> QED BY <1>1, <1>2, <1>3, <1>4, <1>5, <1>6 DEF Next, Proceed

\* Of two coroutines with a session, one process has at most one.
LEMMA OneSession ==
    ASSUME TypeOK, LockHeld, OneProcess, NEW t \in Tasks, NEW u \in Tasks,
           pc[t] = "commit", pc[u] = "commit"
    PROVE  t = u
<1>1. lock[W(t)] = t /\ lock[W(u)] = u
  BY DEF LockHeld
<1> QED BY <1>1, SameProcess DEF TypeOK

\* What the API shows is a count.
LEMMA ShownType ==
    ASSUME TypeOK, NEW d \in Days, NEW e \in Events
    PROVE  /\ Shown(d, e) \in Nat
           /\ rows[d] # NoRow => rows[d] \in [Events -> Nat] /\ rows[d][e] = Shown(d, e)
           /\ rows[d] = NoRow => rows[d][e] = -1 /\ Shown(d, e) = 0
<1>1. CASE rows[d] = NoRow
  BY <1>1 DEF Shown, NoRow
<1>2. CASE rows[d] # NoRow /\ rows[d] \in [Events -> Nat]
  BY <1>2 DEF Shown
<1> QED BY <1>1, <1>2 DEF TypeOK

\* A commit changes one count of one day; an UPDATE to what was read and one.
LEMMA UpdateShows ==
    ASSUME TypeOK, ReadsCurrent, NEW t \in Tasks, CommitUpdate(t)
    PROVE  /\ event[t] \in Events /\ target[t] \in Days /\ seen[t] \in Nat
           /\ \A d \in Days, e \in Events :
                 Shown(d, e)' = IF d = target[t] /\ e = event[t] THEN seen[t] + 1
                                ELSE Shown(d, e)
           /\ \A d \in Days : rows'[d] = NoRow => rows[d] = NoRow
<1>1. /\ event[t] \in Events /\ target[t] \in Days /\ seen[t] \in Nat
      /\ rows[target[t]] \in [Events -> Nat]
      /\ rows[target[t]] # NoRow
  BY DEF CommitUpdate, ReadsCurrent, ReadIsCurrent, TypeOK
<1>2. \A d \in Days : rows'[d] = IF d = target[t] THEN [rows[d] EXCEPT ![event[t]] = seen[t] + 1]
                                 ELSE rows[d]
  BY DEF CommitUpdate, TypeOK
<1>3. rows'[target[t]][event[t]] = seen[t] + 1
  BY <1>1, <1>2
<1>4. rows'[target[t]] # NoRow
  BY <1>1, <1>3 DEF NoRow
<1> QED BY <1>1, <1>2, <1>4 DEF Shown

\* A commit that inserts the row of its day.
LEMMA InsertShows ==
    ASSUME TypeOK, ReadsCurrent, NEW t \in Tasks, CommitInsert(t)
    PROVE  /\ event[t] \in Events /\ target[t] \in Days
           /\ \A e \in Events : Shown(target[t], e) = 0
           /\ \A d \in Days, e \in Events :
                 Shown(d, e)' = IF d = target[t] /\ e = event[t] THEN 1 ELSE Shown(d, e)
           /\ \A d \in Days : rows'[d] = NoRow => rows[d] = NoRow
<1>1. event[t] \in Events /\ target[t] \in Days /\ rows[target[t]] = NoRow
  BY DEF CommitInsert, Insertable, ReadsCurrent, ReadIsCurrent, TypeOK
<1>2. \A d \in Days : rows'[d] = IF d = target[t] THEN [NewRow EXCEPT ![event[t]] = 1] ELSE rows[d]
  BY DEF CommitInsert, TypeOK
<1>3. rows'[target[t]] = [e \in Events |-> IF e = event[t] THEN 1 ELSE 0]
  BY <1>1, <1>2 DEF NewRow
<1>4. rows'[target[t]] # NoRow
  BY <1>1, <1>3 DEF NoRow
<1> QED BY <1>1, <1>2, <1>3, <1>4 DEF Shown

\* A commit is recorded once, in the count it changes.
LEMMA CommitDone ==
    ASSUME TypeOK, NEW t \in Tasks, event[t] \in Events, target[t] \in Days, Committed(t)
    PROVE  \A d \in Days, e \in Events :
               done'[d][e] = IF d = target[t] /\ e = event[t] THEN done[d][e] + 1 ELSE done[d][e]
BY DEF TypeOK, Committed

\* One process loses no update and several count none twice.
LEMMA NextRowsTruthful ==
    ASSUME TypeOK, LockHeld, ReadsCurrent, RowsTruthful, [Next]_vars
    PROVE  RowsTruthful'
<1> USE DEF RowsTruthful
<1>1. ASSUME NEW t \in Tasks, CommitUpdate(t) PROVE RowsTruthful'
  <2>1. OneProcess' <=> OneProcess
    BY <1>1, SettingStays DEF CommitUpdate
  <2>2. /\ seen[t] <= done[target[t]][event[t]]
        /\ OneProcess => seen[t] = done[target[t]][event[t]]
    <3>1. seen[t] <= done[target[t]][event[t]]
      BY <1>1 DEF CommitUpdate, ReadsCurrent, ReadIsCurrent
    <3>2. OneProcess => seen[t] = rows[target[t]][event[t]]
      BY <1>1 DEF CommitUpdate, ReadsCurrent, ReadIsCurrent
    <3>3. rows[target[t]] # NoRow
      BY <1>1 DEF CommitUpdate, ReadsCurrent, ReadIsCurrent
    <3> QED BY <1>1, <3>1, <3>2, <3>3, UpdateShows, ShownType
  <2>3. \A d \in Days, e \in Events :
            done'[d][e] = IF d = target[t] /\ e = event[t] THEN done[d][e] + 1 ELSE done[d][e]
    BY <1>1, UpdateShows, CommitDone DEF CommitUpdate
  <2>4. \A d \in Days, e \in Events : done[d][e] \in Nat
    BY DEF TypeOK
  <2> QED BY <1>1, <2>1, <2>2, <2>3, <2>4, UpdateShows
<1>2. ASSUME NEW t \in Tasks, CommitInsert(t) PROVE RowsTruthful'
  <2>1. OneProcess' <=> OneProcess
    BY <1>2, SettingStays DEF CommitInsert
  <2>2. \A d \in Days, e \in Events :
            done'[d][e] = IF d = target[t] /\ e = event[t] THEN done[d][e] + 1 ELSE done[d][e]
    BY <1>2, InsertShows, CommitDone DEF CommitInsert
  <2>3. \A d \in Days, e \in Events : done[d][e] \in Nat
    BY DEF TypeOK
  <2> QED BY <1>2, <2>1, <2>2, <2>3, InsertShows
<1>3. ASSUME UNCHANGED <<setting, rows, done>> PROVE RowsTruthful'
  BY <1>3, SettingStays DEF Shown
<1>4. ASSUME NEW t \in Tasks,
             \/ LockAcquired(t) \/ Select(t) \/ CommitCollides(t) \/ Reselect(t)
             \/ ReselectFindsNothing(t) \/ StatementFails(t) \/ \E e \in Events : Record(t, e)
      PROVE  RowsTruthful'
  BY <1>3, <1>4
  DEF LockAcquired, Select, CommitCollides, Reselect, ReselectFindsNothing, StatementFails, Record
<1>5. CASE Midnight \/ (\E w \in Workers : Kill(w)) \/ UNCHANGED vars
  BY <1>3, <1>5 DEF Midnight, Kill, vars
<1> QED BY <1>1, <1>2, <1>4, <1>5 DEF Next, Proceed

\* A step of t leaves what the others read current, if it neither moves their row
\* while they are the only process nor takes a count back.
LEMMA OthersStayCurrent ==
    ASSUME TypeOK, ReadsCurrent, setting' = setting, NEW u \in Tasks,
           UNCHANGED <<pc[u], event[u], began[u], target[u], seen[u]>>,
           day <= day', day' \in Days,
           \A d \in Days : rows'[d] = NoRow => rows[d] = NoRow,
           \A d \in Days, e \in Events : done[d][e] <= done'[d][e] /\ done'[d][e] \in Nat,
           pc[u] = "commit" /\ OneProcess => rows' = rows
    PROVE  ReadIsCurrent(u)'
<1>1. ReadIsCurrent(u) /\ (OneProcess' <=> OneProcess)
  BY SettingStays DEF ReadsCurrent
<1>2. pc'[u] # "idle" => event'[u] \in Events /\ began'[u] <= day'
  BY <1>1 DEF ReadIsCurrent, TypeOK, Days
<1>3. pc'[u] \in {"select", "commit", "reselect"} => began'[u] <= target'[u] /\ target'[u] <= day'
  BY <1>1 DEF ReadIsCurrent, TypeOK, Days
<1>4. ASSUME pc'[u] = "commit"
      PROVE  /\ seen'[u] <= done'[target'[u]][event'[u]]
             /\ seen'[u] # -1 => rows'[target'[u]] # NoRow
             /\ OneProcess' => seen'[u] = rows'[target'[u]][event'[u]]
  <2>1. event[u] \in Events /\ target[u] \in Days
    BY <1>1, <1>4 DEF ReadIsCurrent, TypeOK
  <2>2. done[target[u]][event[u]] \in Nat /\ seen[u] \in Int
    BY <2>1 DEF TypeOK
  <2>3. seen[u] <= done'[target[u]][event[u]]
    BY <1>1, <1>4, <2>1, <2>2 DEF ReadIsCurrent
  <2> QED BY <1>1, <1>4, <2>1, <2>3 DEF ReadIsCurrent
<1> QED BY <1>2, <1>3, <1>4 DEF ReadIsCurrent

\* In particular a step that writes nothing to the database.
LEMMA UntouchedStaysCurrent ==
    ASSUME TypeOK, ReadsCurrent, NEW u \in Tasks,
           UNCHANGED <<setting, day, rows, done>>,
           UNCHANGED <<pc[u], event[u], began[u], target[u], seen[u]>>
    PROVE  ReadIsCurrent(u)'
<1>1. day <= day' /\ day' \in Days
  BY DEF TypeOK, Days
<1>2. \A d \in Days, e \in Events : done[d][e] <= done'[d][e] /\ done'[d][e] \in Nat
  BY DEF TypeOK
<1> QED BY <1>1, <1>2, OthersStayCurrent

\* A SELECT of a day that is not over reads a count that is current.
LEMMA LookIsCurrent ==
    ASSUME TypeOK, RowsTruthful, UNCHANGED <<setting, day, rows, done, event, began>>,
           NEW t \in Tasks, NEW d \in Days, event[t] \in Events,
           began[t] <= d, d <= day, Look(t, d)
    PROVE  ReadIsCurrent(t)'
<1>1. /\ pc'[t] = "commit" /\ target'[t] = d
      /\ seen'[t] = rows[d][event[t]]
  BY DEF Look, TypeOK
<1>2. rows[d][event[t]] <= done[d][event[t]] /\ (rows[d][event[t]] # -1 => rows[d] # NoRow)
  BY ShownType DEF RowsTruthful, TypeOK
<1>3. began[t] <= day
  BY DEF TypeOK, Days
<1> QED BY <1>1, <1>2, <1>3 DEF ReadIsCurrent

\* While the lock is held, what its holder read stays current.
LEMMA NextReadsCurrent ==
    ASSUME TypeOK, LockHeld, ReadsCurrent, RowsTruthful, [Next]_vars, TypeOK'
    PROVE  ReadsCurrent'
<1>0. /\ \A t \in Tasks : ReadIsCurrent(t)
      /\ \A d \in Days, e \in Events : done[d][e] \in Nat
  BY DEF ReadsCurrent, TypeOK
<1>1. ASSUME NEW t \in Tasks, NEW e \in Events, Record(t, e) PROVE ReadsCurrent'
  <2>1. \A u \in Tasks \ {t} : UNCHANGED <<pc[u], event[u], began[u], target[u], seen[u]>>
    BY <1>1 DEF Record, Enter, TypeOK
  <2>2. /\ pc'[t] = "lockWait" \/ (pc'[t] = "select" /\ target'[t] = day)
        /\ event'[t] = e /\ began'[t] = day
    BY <1>1 DEF Record, Enter, Today, TypeOK
  <2>3. ReadIsCurrent(t)'
    BY <1>1, <2>2 DEF Record, ReadIsCurrent, TypeOK, Days
  <2>4. UNCHANGED <<setting, day, rows, done>>
    BY <1>1 DEF Record
  <2>5. \A u \in Tasks \ {t} : ReadIsCurrent(u)'
    BY <2>1, <2>4, UntouchedStaysCurrent
  <2> QED BY <2>3, <2>5 DEF ReadsCurrent
<1>2. ASSUME NEW t \in Tasks, LockAcquired(t) \/ CommitCollides(t) PROVE ReadsCurrent'
  <2>1. /\ \A u \in Tasks \ {t} : UNCHANGED <<pc[u], event[u], began[u], target[u], seen[u]>>
        /\ UNCHANGED <<event[t], began[t], seen[t], setting, day, rows, done>>
    BY <1>2 DEF LockAcquired, Enter, CommitCollides, TypeOK
  <2>2. \/ pc[t] = "lockWait" /\ pc'[t] = "select" /\ target'[t] = day
        \/ pc[t] = "commit" /\ pc'[t] = "reselect" /\ target'[t] = target[t]
    BY <1>2 DEF LockAcquired, Enter, Today, CommitCollides, TypeOK
  <2>3. ReadIsCurrent(t)'
    BY <1>0, <2>1, <2>2 DEF ReadIsCurrent, TypeOK, Days
  <2>4. \A u \in Tasks \ {t} : ReadIsCurrent(u)'
    BY <2>1, UntouchedStaysCurrent
  <2> QED BY <2>3, <2>4 DEF ReadsCurrent
<1>3. ASSUME NEW t \in Tasks, Select(t) \/ Reselect(t) PROVE ReadsCurrent'
  <2>1. /\ \A u \in Tasks \ {t} : UNCHANGED <<pc[u], event[u], began[u], target[u], seen[u]>>
        /\ UNCHANGED <<event, began, setting, day, rows, done>>
    BY <1>3 DEF Select, Reselect, Look, TypeOK
  <2>2. PICK d \in {target[t], began[t]} : Look(t, d)
    BY <1>3 DEF Select, Reselect
  <2>3. event[t] \in Events /\ began[t] <= d /\ d <= day /\ d \in Days
    BY <1>0, <1>3, <2>2 DEF Select, Reselect, ReadIsCurrent, TypeOK, Days
  <2>4. ReadIsCurrent(t)'
    BY <2>1, <2>2, <2>3, LookIsCurrent
  <2>5. \A u \in Tasks \ {t} : ReadIsCurrent(u)'
    BY <2>1, UntouchedStaysCurrent
  <2> QED BY <2>4, <2>5 DEF ReadsCurrent
<1>4. ASSUME NEW t \in Tasks, CommitUpdate(t) \/ CommitInsert(t) PROVE ReadsCurrent'
  <2>1. /\ \A u \in Tasks \ {t} : UNCHANGED <<pc[u], event[u], began[u], target[u], seen[u]>>
        /\ pc[t] = "commit" /\ pc'[t] = "idle" /\ UNCHANGED <<setting, day>>
    BY <1>4 DEF CommitUpdate, CommitInsert, Committed, Leave, TypeOK
  <2>2. \A d \in Days : rows'[d] = NoRow => rows[d] = NoRow
    BY <1>4, UpdateShows, InsertShows
  <2>3. \A d \in Days, e \in Events : done[d][e] <= done'[d][e] /\ done'[d][e] \in Nat
    <3>1. event[t] \in Events /\ target[t] \in Days /\ Committed(t)
      BY <1>4, UpdateShows, InsertShows DEF CommitUpdate, CommitInsert
    <3> QED BY <1>0, <3>1, CommitDone
  <2>4. \A u \in Tasks \ {t} : ~(pc[u] = "commit" /\ OneProcess)
    BY <2>1, OneSession
  <2>5. \A u \in Tasks \ {t} : ReadIsCurrent(u)'
    BY <1>0, <2>1, <2>2, <2>3, <2>4, OthersStayCurrent DEF TypeOK, Days
  <2> QED BY <2>1, <2>5 DEF ReadsCurrent, ReadIsCurrent
<1>5. ASSUME NEW t \in Tasks, ReselectFindsNothing(t) \/ StatementFails(t) PROVE ReadsCurrent'
  <2>1. /\ \A u \in Tasks \ {t} : UNCHANGED <<pc[u], event[u], began[u], target[u], seen[u]>>
        /\ pc'[t] = "idle" /\ UNCHANGED <<setting, day, rows, done>>
    BY <1>5 DEF ReselectFindsNothing, StatementFails, Leave, TypeOK
  <2>2. \A u \in Tasks \ {t} : ReadIsCurrent(u)'
    BY <2>1, UntouchedStaysCurrent
  <2> QED BY <2>1, <2>2 DEF ReadsCurrent, ReadIsCurrent
<1>6. CASE Midnight \/ UNCHANGED vars
  <2>1. UNCHANGED <<setting, rows, done, pc, event, began, target, seen>> /\ day <= day'
    BY <1>6 DEF Midnight, vars, locals, TypeOK, Days
  <2> QED BY <1>0, <2>1, OthersStayCurrent DEF ReadsCurrent, TypeOK
<1>7. ASSUME NEW w \in Workers, Kill(w) PROVE ReadsCurrent'
  <2>1. UNCHANGED <<setting, day, rows, done>>
    BY <1>7 DEF Kill
  <2>2. \A u \in Tasks : \/ pc'[u] = "idle"
                         \/ UNCHANGED <<pc[u], event[u], began[u], target[u], seen[u]>>
    BY <1>7 DEF Kill
  <2>3. \A u \in Tasks : ReadIsCurrent(u)'
    <3> TAKE u \in Tasks
    <3>1. CASE pc'[u] = "idle"
      BY <3>1 DEF ReadIsCurrent
    <3>2. CASE UNCHANGED <<pc[u], event[u], began[u], target[u], seen[u]>>
      BY <2>1, <3>2, UntouchedStaysCurrent
    <3> QED BY <2>2, <3>1, <3>2
  <2> QED BY <2>3 DEF ReadsCurrent
<1> QED BY <1>1, <1>2, <1>3, <1>4, <1>5, <1>6, <1>7 DEF Next, Proceed

\* The initial state satisfies the invariant.
LEMMA InitInv == Init => IInv
<1> SUFFICES ASSUME Init PROVE IInv
  OBVIOUS
<1>1. TypeOK
  BY InitType
<1>2. LockHeld
  BY ReportingAssumption, WorkerType DEF Init, LockHeld, TypeOK
<1>3. ReadsCurrent
  BY DEF Init, ReadsCurrent, ReadIsCurrent
<1>4. RowsTruthful
  BY DEF Init, RowsTruthful, Shown
<1> QED BY <1>1, <1>2, <1>3, <1>4 DEF IInv

\* Every step keeps it.
LEMMA NextInv == IInv /\ [Next]_vars => IInv'
BY NextType, NextLockHeld, NextReadsCurrent, NextRowsTruthful DEF IInv

\* One process loses no update and several count none twice (RowsTruthful),
\* because what the holder of the lock has read stays current until it commits,
\* whatever the database and the processes do meanwhile.
THEOREM Invariance == Spec => []IInv
<1>1. Init => IInv
  BY InitInv
<1>2. IInv /\ [Next]_vars => IInv'
  BY NextInv
<1> QED BY <1>1, <1>2, PTL DEF Spec

----------------------------------------------------------------------------
(* The commits                                                              *)

\* A step that changes the row of a day is a commit, by the holder of the lock,
\* of a report that was being made on that day.
LEMMA CommitStep ==
    ASSUME IInv, [Next]_vars, NEW d \in Days, rows'[d] # rows[d]
    PROVE  \E t \in Tasks :
             /\ pc[t] = "commit" /\ pc'[t] = "idle"
             /\ d \in began[t]..day
             /\ lock[W(t)] = t
<1>1. PICK t \in Tasks : CommitUpdate(t) \/ CommitInsert(t)
  <2>1. rows' # rows
    OBVIOUS
  <2> QED BY <2>1
    DEF Next, Proceed, Record, LockAcquired, Select, CommitCollides, Reselect,
        ReselectFindsNothing, StatementFails, Midnight, Kill, vars
<1>2. pc[t] = "commit" /\ pc'[t] = "idle"
  BY <1>1 DEF CommitUpdate, CommitInsert, Committed, Leave, IInv, TypeOK
<1>3. d = target[t]
  BY <1>1 DEF CommitUpdate, CommitInsert, IInv, TypeOK
<1>4. began[t] <= target[t] /\ target[t] <= day
  BY <1>2 DEF IInv, ReadsCurrent, ReadIsCurrent
<1>5. lock[W(t)] = t
  BY <1>2 DEF IInv, LockHeld
<1> QED BY <1>2, <1>3, <1>4, <1>5 DEF IInv, TypeOK, Days

\* A report is committed to the row of a day on which it was being made, by the
\* holder of the lock of its process, also when midnight passes on the way.
THEOREM InTime == Spec => CommitsInTime
<1>1. IInv /\ [Next]_vars =>
        [\A d \in Days : rows'[d] # rows[d] =>
           \E t \in Tasks :
             /\ pc[t] = "commit" /\ pc'[t] = "idle"
             /\ d \in began[t]..day
             /\ lock[W(t)] = t]_vars
  BY CommitStep
<1> QED BY <1>1, Invariance, PTL DEF Spec, CommitsInTime

----------------------------------------------------------------------------
(* The rows implement the Ledger                                            *)

\* The counts as the Ledger sees them.
LEMMA ShownStep ==
    ASSUME NEW D \in Days, NEW E \in Events, NEW n
    PROVE  (\A d \in Days, e \in Events :
               Shown(d, e)' = IF d = D /\ e = E THEN n ELSE Shown(d, e))
           => [d \in Days |-> [e \in Events |-> Shown(d, e)']]
                = [[d \in Days |-> [e \in Events |-> Shown(d, e)]] EXCEPT ![D][E] = n]
OBVIOUS

\* The initial rows are an initial Ledger.
LEMMA InitLedger == Init => Abstract!Init
BY DEF Init, Abstract!Init, Shown, OneProcess

\* A commit is a Report of the Ledger.
LEMMA CommitReports ==
    ASSUME IInv, NEW t \in Tasks, CommitUpdate(t) \/ CommitInsert(t)
    PROVE  Abstract!Next
<1> DEFINE D == target[t]
           E == event[t]
           n == IF CommitUpdate(t) THEN seen[t] + 1 ELSE 1
<1>1. D \in Days /\ E \in Events /\ Committed(t) /\ setting' = setting
  BY UpdateShows, InsertShows DEF IInv, CommitUpdate, CommitInsert
<1>2. done[D][E] \in Nat /\ Shown(D, E) \in Nat
  BY <1>1, ShownType DEF IInv, TypeOK
<1>3. \A d \in Days, e \in Events :
         Shown(d, e)' = IF d = D /\ e = E THEN n ELSE Shown(d, e)
  BY UpdateShows, InsertShows DEF IInv
<1>4. n \in 1..done[D][E] + 1 /\ (OneProcess => n = Shown(D, E) + 1)
  <2>1. CASE CommitUpdate(t)
    <3>1. seen[t] \in Nat /\ seen[t] <= done[D][E] /\ rows[D] # NoRow
      BY <2>1, UpdateShows DEF IInv, CommitUpdate, ReadsCurrent, ReadIsCurrent
    <3>2. OneProcess => seen[t] = Shown(D, E)
      BY <1>1, <2>1, <3>1, ShownType DEF IInv, CommitUpdate, ReadsCurrent, ReadIsCurrent
    <3> QED BY <1>2, <2>1, <3>1, <3>2
  <2>2. CASE ~CommitUpdate(t)
    <3>1. Shown(D, E) = 0
      BY <1>1, <2>2, InsertShows DEF IInv
    <3> QED BY <1>2, <2>2, <3>1
  <2> QED BY <2>1, <2>2
<1>5. done' = [done EXCEPT ![D][E] = @ + 1]
  BY <1>1 DEF Committed
<1>6. OneProcess' = OneProcess
  BY <1>1, SettingStays
<1> HIDE DEF D, E, n
<1>7. [d \in Days |-> [e \in Events |-> Shown(d, e)']]
        = [[d \in Days |-> [e \in Events |-> Shown(d, e)]] EXCEPT ![D][E] = n]
  BY <1>1, <1>3, ShownStep
<1>8. [d \in Days |-> [e \in Events |-> Shown(d, e)]][D][E] = Shown(D, E)
  BY <1>1
<1>9. Abstract!Report(D, E)
  BY <1>4, <1>5, <1>6, <1>7, <1>8 DEF Abstract!Report
<1> QED BY <1>1, <1>9 DEF Abstract!Next

\* Every step of the rows is a step of the Ledger or leaves it alone.
LEMMA NextLedger ==
    ASSUME IInv, [Next]_vars
    PROVE  [Abstract!Next]_(Abstract!ledgerVars)
<1>1. CASE \E t \in Tasks : CommitUpdate(t) \/ CommitInsert(t)
  BY <1>1, CommitReports
<1>2. CASE ~\E t \in Tasks : CommitUpdate(t) \/ CommitInsert(t)
  <2>1. UNCHANGED <<setting, rows, done>>
    BY <1>2
    DEF Next, Proceed, Record, LockAcquired, Select, CommitCollides, Reselect,
        ReselectFindsNothing, StatementFails, Midnight, Kill, vars
  <2>2. OneProcess' = OneProcess
    BY <2>1, SettingStays
  <2>3. \A d \in Days, e \in Events : Shown(d, e)' = Shown(d, e)
    BY <2>1 DEF Shown
  <2> QED BY <2>1, <2>2, <2>3 DEF Abstract!ledgerVars
<1> QED BY <1>1, <1>2

\* The reports of the API behave like the Ledger: with one process a commit
\* moves one count by one; several may hide each other's reports and no more.
THEOREM LedgerImplemented == Spec => ImplementsLedger
<1>1. Init => Abstract!Init
  BY InitLedger
<1>2. IInv /\ [Next]_vars => [Abstract!Next]_(Abstract!ledgerVars)
  BY NextLedger
<1> QED BY <1>1, <1>2, Invariance, PTL DEF Spec, ImplementsLedger, Abstract!Spec

----------------------------------------------------------------------------
(* Sums                                                                     *)

\* Some numbers have a least one.
LEMMA LeastNumber ==
    ASSUME NEW I \in SUBSET Nat, I # {}
    PROVE  \E n \in I : \A m \in I : n <= m
<1> DEFINE Less == {ss \in Nat \X Nat : ss[1] < ss[2]}
<1>1. IsWellFoundedOn(Less, Nat)
  BY NatLessThanWellFounded DEF OpToRel
<1>2. PICK n \in I : \A m \in I : <<m, n>> \notin Less
  BY <1>1, WFMin
<1>3. ASSUME NEW m \in I PROVE n <= m
  <2>1. n \in Nat /\ m \in Nat /\ <<m, n>> \in Nat \X Nat
    OBVIOUS
  <2>2. ~(m < n)
    BY <1>2, <2>1
  <2> QED BY <2>1, <2>2
<1> QED BY <1>3

\* What is left of a finite set without one of its elements.
LEMMA OneLess ==
    ASSUME NEW S, IsFiniteSet(S), NEW s \in SUBSET S, NEW x \in s
    PROVE  /\ IsFiniteSet(s) /\ Cardinality(s) \in Nat
           /\ Cardinality(s \ {x}) \in Nat
           /\ Cardinality(s) = Cardinality(s \ {x}) + 1
<1>1. IsFiniteSet(s) /\ Cardinality(s) \in Nat
  BY FS_Subset, FS_CardinalityType
<1>2. IsFiniteSet(s \ {x}) /\ Cardinality(s \ {x}) = Cardinality(s) - 1
  BY <1>1, FS_RemoveElement
<1> QED BY <1>1, <1>2, FS_CardinalityType

\* Some subsets of a finite set have one that has none of them below it.
LEMMA LeastSet ==
    ASSUME NEW S, IsFiniteSet(S), NEW B \in SUBSET SUBSET S, B # {}
    PROVE  \E s \in B : \A x \in s : s \ {x} \notin B
<1> DEFINE sizes == {Cardinality(s) : s \in B}
<1>1. \A s \in B : Cardinality(s) \in Nat
  BY FS_Subset, FS_CardinalityType
<1>2. PICK n \in sizes : \A m \in sizes : n <= m
  <2>1. sizes \in SUBSET Nat /\ sizes # {}
    BY <1>1
  <2> HIDE DEF sizes
  <2> QED BY <2>1, LeastNumber
<1>3. PICK s \in B : n = Cardinality(s)
  OBVIOUS
<1>4. ASSUME NEW x \in s, s \ {x} \in B PROVE FALSE
  <2>1. Cardinality(s) <= Cardinality(s \ {x})
    BY <1>2, <1>3, <1>4
  <2> QED BY <2>1, OneLess
<1> QED BY <1>4

\* The element that is added last.
Pick(s) == CHOOSE x \in s : TRUE

\* g adds up F over the sets on which it is defined, element by element.
Adds(F, g, D) ==
    g = [s \in D |-> IF s = {} THEN 0 ELSE F[Pick(s)] + g[s \ {Pick(s)}]]

\* Its value at a set is a number, and any element may be the one added last.
Totals(F, g, S) ==
    /\ g[{}] = 0
    /\ \A s \in SUBSET S : g[s] \in Nat
    /\ \A s \in SUBSET S : \A x \in s : g[s] = F[x] + g[s \ {x}]

\* It picks one of its elements.
LEMMA PickIsIn == ASSUME NEW s, s # {} PROVE Pick(s) \in s
BY DEF Pick

\* SumFunction adds up a function over its domain.
LEMMA SumUnfolds ==
    ASSUME NEW F
    PROVE  SumFunction(F) = (CHOOSE g : Adds(F, g, SUBSET DOMAIN F))[DOMAIN F]
BY DEF SumFunction, SumFunctionOnSet, FoldFunctionOnSet, MapThenFoldSet, Adds, Pick

\* There is such a g for the subsets of a finite set.
LEMMA AddsExists ==
    ASSUME NEW F, NEW S, IsFiniteSet(S)
    PROVE  \E g : Adds(F, g, SUBSET S)
<1> DEFINE Small(n) == {s \in SUBSET S : Cardinality(s) <= n}
           Bad == {n \in Nat : ~\E g : Adds(F, g, Small(n))}
<1>1. Bad = {}
  <2> SUFFICES ASSUME Bad # {} PROVE FALSE
    OBVIOUS
  <2>1. PICK n \in Bad : \A m \in Bad : n <= m
    <3>1. Bad \in SUBSET Nat
      OBVIOUS
    <3> HIDE DEF Bad
    <3> QED BY <3>1, LeastNumber
  <2>2. \A s \in SUBSET S : Cardinality(s) \in Nat /\ (Cardinality(s) = 0 <=> s = {})
    BY FS_Subset, FS_CardinalityType, FS_EmptySet
  <2>3. CASE n = 0
    <3>1. Small(n) = {{}}
      BY <2>2, <2>3
    <3> DEFINE g == [s \in {{}} |-> 0]
    <3>2. g = [s \in {{}} |-> IF s = {} THEN 0 ELSE F[Pick(s)] + g[s \ {Pick(s)}]]
      OBVIOUS
    <3>3. Adds(F, g, {{}})
      BY <3>2 DEF Adds
    <3> QED BY <2>1, <3>1, <3>3
  <2>4. CASE n # 0
    <3>1. n - 1 \in Nat /\ n - 1 \notin Bad
      <4>1. n \in Nat
        OBVIOUS
      <4> HIDE DEF Bad
      <4> QED BY <2>1, <2>4, <4>1
    <3>2. PICK h : Adds(F, h, Small(n - 1))
      BY <3>1
    <3> DEFINE g == [s \in Small(n) |->
                        IF s = {} THEN 0 ELSE F[Pick(s)] + h[s \ {Pick(s)}]]
    <3>3. ASSUME NEW s \in Small(n), s # {}
          PROVE  g[s \ {Pick(s)}] = h[s \ {Pick(s)}]
      <4> DEFINE r == s \ {Pick(s)}
      <4>1. r \in Small(n - 1) /\ r \in Small(n)
        BY <2>2, <3>1, <3>3, PickIsIn, OneLess
      <4>2. h[r] = IF r = {} THEN 0 ELSE F[Pick(r)] + h[r \ {Pick(r)}]
        BY <3>2, <4>1 DEF Adds
      <4>3. g[r] = IF r = {} THEN 0 ELSE F[Pick(r)] + h[r \ {Pick(r)}]
        BY <4>1
      <4> QED BY <4>2, <4>3
    <3>4. g = [s \in Small(n) |-> IF s = {} THEN 0 ELSE F[Pick(s)] + g[s \ {Pick(s)}]]
      BY <3>3
    <3> HIDE DEF g
    <3>5. Adds(F, g, Small(n))
      BY <3>4 DEF Adds
    <3> QED BY <2>1, <3>5
  <2> QED BY <2>3, <2>4
<1>2. Cardinality(S) \in Nat /\ \A s \in SUBSET S : Cardinality(s) <= Cardinality(S)
  BY FS_Subset, FS_CardinalityType
<1>3. Small(Cardinality(S)) = SUBSET S
  BY <1>2
<1> QED BY <1>1, <1>2, <1>3

\* It is a number, and any element may be the one added last.
LEMMA AddsInAnyOrder ==
    ASSUME NEW S, IsFiniteSet(S), NEW F \in [S -> Nat], NEW g, Adds(F, g, SUBSET S)
    PROVE  Totals(F, g, S)
<1>1. g[{}] = 0
  BY DEF Adds
<1>2. ASSUME NEW s \in SUBSET S, s # {}
      PROVE  /\ Pick(s) \in s /\ F[Pick(s)] \in Nat
             /\ g[s] = F[Pick(s)] + g[s \ {Pick(s)}]
  BY <1>2, PickIsIn DEF Adds
<1>3. \A s \in SUBSET S : g[s] \in Nat
  <2> DEFINE B == {s \in SUBSET S : g[s] \notin Nat}
  <2> SUFFICES ASSUME B # {} PROVE FALSE
    OBVIOUS
  <2>1. B \in SUBSET SUBSET S
    OBVIOUS
  <2>2. PICK s \in B : \A x \in s : s \ {x} \notin B
    <3> HIDE DEF B
    <3> QED BY <2>1, LeastSet
  <2>3. s # {} /\ s \in SUBSET S
    <3>1. s \in SUBSET S /\ g[s] \notin Nat
      OBVIOUS
    <3> HIDE DEF B
    <3>2. ASSUME s = {} PROVE g[s] = 0
      BY <1>1, <3>2
    <3> QED BY <3>1, <3>2
  <2>4. s \ {Pick(s)} \in SUBSET S /\ s \ {Pick(s)} \notin B
    BY <1>2, <2>2, <2>3
  <2> QED BY <1>2, <2>3, <2>4
<1>4. \A s \in SUBSET S : \A x \in s : g[s] = F[x] + g[s \ {x}]
  <2> DEFINE B == {s \in SUBSET S : \E x \in s : g[s] # F[x] + g[s \ {x}]}
  <2> SUFFICES ASSUME B # {} PROVE FALSE
    OBVIOUS
  <2>1. B \in SUBSET SUBSET S
    OBVIOUS
  <2>2. PICK s \in B : \A x \in s : s \ {x} \notin B
    <3> HIDE DEF B
    <3> QED BY <2>1, LeastSet
  <2>3. PICK x \in s : g[s] # F[x] + g[s \ {x}]
    OBVIOUS
  <2> DEFINE y == Pick(s)
             r == (s \ {x}) \ {y}
  <2>4. s \in SUBSET S /\ s # {} /\ y \in s /\ g[s] = F[y] + g[s \ {y}]
    BY <1>2, <2>3
  <2>5. x # y
    BY <2>3, <2>4
  <2>6. g[s \ {y}] = F[x] + g[r]
    <3>1. s \ {y} \notin B /\ s \ {y} \in SUBSET S /\ x \in s \ {y}
      BY <2>2, <2>4, <2>5
    <3>2. r = (s \ {y}) \ {x}
      OBVIOUS
    <3> QED BY <3>1, <3>2
  <2>7. g[s \ {x}] = F[y] + g[r]
    <3>1. s \ {x} \notin B /\ s \ {x} \in SUBSET S /\ y \in s \ {x}
      BY <2>2, <2>4, <2>5
    <3> QED BY <3>1
  <2>8. F[x] \in Nat /\ F[y] \in Nat /\ g[r] \in Nat
    BY <1>3, <2>4
  <2> HIDE DEF y, r, B
  <2> QED BY <2>3, <2>4, <2>6, <2>7, <2>8
<1> QED BY <1>1, <1>3, <1>4 DEF Totals

\* The sum is what some such g adds up.
LEMMA SumAdds ==
    ASSUME NEW S, IsFiniteSet(S), NEW F \in [S -> Nat]
    PROVE  \E g : SumFunction(F) = g[S] /\ Totals(F, g, S)
<1> DEFINE g == CHOOSE h : Adds(F, h, SUBSET S)
<1>1. Adds(F, g, SUBSET S)
  BY AddsExists
<1>2. SumFunction(F) = g[S]
  <2>1. DOMAIN F = S
    OBVIOUS
  <2> QED BY <2>1, SumUnfolds
<1> HIDE DEF g
<1>3. Totals(F, g, S)
  BY <1>1, AddsInAnyOrder
<1> QED BY <1>2, <1>3

\* The sum of numbers is a number.
LEMMA SumType ==
    ASSUME NEW S, IsFiniteSet(S), NEW F \in [S -> Nat]
    PROVE  SumFunction(F) \in Nat
<1>1. PICK g : SumFunction(F) = g[S] /\ Totals(F, g, S)
  BY SumAdds
<1> QED BY <1>1 DEF Totals

\* What one summand gains the sum gains, the others being as before.
LEMMA SumGains ==
    ASSUME NEW S, IsFiniteSet(S), NEW F \in [S -> Nat], NEW G \in [S -> Nat], NEW a \in S,
           NEW n \in Nat, G[a] = F[a] + n, \A x \in S \ {a} : G[x] = F[x]
    PROVE  SumFunction(G) = SumFunction(F) + n
<1>1. PICK f : SumFunction(F) = f[S] /\ Totals(F, f, S)
  BY SumAdds
<1>2. PICK g : SumFunction(G) = g[S] /\ Totals(G, g, S)
  BY SumAdds
<1> USE DEF Totals
<1>5. \A s \in SUBSET (S \ {a}) : g[s] = f[s]
  <2> DEFINE B == {s \in SUBSET (S \ {a}) : g[s] # f[s]}
  <2> SUFFICES ASSUME B # {} PROVE FALSE
    OBVIOUS
  <2>1. B \in SUBSET SUBSET S
    OBVIOUS
  <2>2. PICK s \in B : \A x \in s : s \ {x} \notin B
    <3> HIDE DEF B
    <3> QED BY <2>1, LeastSet
  <2>3. s # {}
    BY <1>1, <1>2
  <2>4. PICK x \in s : TRUE
    BY <2>3
  <2>5. s \in SUBSET S /\ x \in S \ {a} /\ g[s \ {x}] = f[s \ {x}]
    BY <2>2
  <2>6. g[s] = G[x] + g[s \ {x}] /\ f[s] = F[x] + f[s \ {x}]
    BY <1>1, <1>2, <2>5
  <2> QED BY <2>5, <2>6
<1>6. g[S] = G[a] + g[S \ {a}] /\ f[S] = F[a] + f[S \ {a}] /\ g[S \ {a}] = f[S \ {a}]
  BY <1>1, <1>2, <1>5
<1>7. f[S] \in Nat /\ F[a] \in Nat /\ f[S \ {a}] \in Nat
  BY <1>1
<1> QED BY <1>1, <1>2, <1>6, <1>7

\* Nothing adds up to nothing.
LEMMA SumOfNothing ==
    ASSUME NEW S, IsFiniteSet(S), NEW F \in [S -> Nat], \A x \in S : F[x] = 0
    PROVE  SumFunction(F) = 0
<1>1. PICK f : SumFunction(F) = f[S] /\ Totals(F, f, S)
  BY SumAdds
<1> USE DEF Totals
<1> DEFINE B == {s \in SUBSET S : f[s] # 0}
<1>3. B = {}
  <2> SUFFICES ASSUME B # {} PROVE FALSE
    OBVIOUS
  <2>1. B \in SUBSET SUBSET S
    OBVIOUS
  <2>2. PICK s \in B : \A x \in s : s \ {x} \notin B
    <3> HIDE DEF B
    <3> QED BY <2>1, LeastSet
  <2>3. s # {}
    BY <1>1
  <2>4. PICK x \in s : TRUE
    BY <2>3
  <2>5. f[s] = F[x] + f[s \ {x}] /\ F[x] = 0 /\ f[s \ {x}] = 0
    BY <1>1, <2>2
  <2> QED BY <2>5
<1> QED BY <1>1, <1>3

----------------------------------------------------------------------------
(* The two reports agree                                                    *)

\* The count of e in the memories m, the one of what c says was committed, and the
\* calls that are between the two.
MemSum(m, e) == SumFunction([w \in Workers |-> m[w][e]])
DoneSum(c, e) == SumFunction([d \in Days |-> c[d][e]])
Making(places, events, e) == {t \in Tasks : places[t] # "idle" /\ events[t] = e}

\* With one process that never fails to reach the database, memory is ahead of the rows
\* by the reports being made, and no insert collides.
Balanced ==
    OneProcess /\ setting.faults = {} =>
        /\ \A t \in Tasks : pc[t] # "reselect"
        /\ \A e \in InMemory :
              MemSum(mem, e) = DoneSum(done, e) + Cardinality(Making(pc, event, e))

\* The balance is one of numbers.
LEMMA BalanceType ==
    ASSUME TypeOK, NEW e \in InMemory
    PROVE  /\ e \in Events
           /\ [w \in Workers |-> mem[w][e]] \in [Workers -> Nat]
           /\ [d \in Days |-> done[d][e]] \in [Days -> Nat]
           /\ IsFiniteSet(Workers) /\ IsFiniteSet(Days)
           /\ MemSum(mem, e) \in Nat /\ DoneSum(done, e) \in Nat
           /\ IsFiniteSet(Making(pc, event, e))
           /\ Cardinality(Making(pc, event, e)) \in Nat
<1>1. e \in Events
  BY DEF InMemory
<1>2. /\ [w \in Workers |-> mem[w][e]] \in [Workers -> Nat]
      /\ [d \in Days |-> done[d][e]] \in [Days -> Nat]
  BY <1>1 DEF TypeOK
<1>3. IsFiniteSet(Workers) /\ IsFiniteSet(Days)
  BY ReportingAssumption, FS_Interval DEF Days
<1>4. MemSum(mem, e) \in Nat /\ DoneSum(done, e) \in Nat
  BY <1>2, <1>3, SumType DEF MemSum, DoneSum
<1>5. IsFiniteSet(Making(pc, event, e)) /\ Cardinality(Making(pc, event, e)) \in Nat
  BY ReportingAssumption, FS_Subset, FS_CardinalityType DEF Making
<1> QED BY <1>1, <1>2, <1>3, <1>4, <1>5

\* A report is counted in memory when it begins.
LEMMA RecordBalances ==
    ASSUME TypeOK, Balanced, OneProcess, setting.faults = {},
           NEW t \in Tasks, NEW n \in Events, Record(t, n), NEW e \in InMemory
    PROVE  MemSum(mem', e) = DoneSum(done', e) + Cardinality(Making(pc', event', e))
<1>1. MemSum(mem, e) = DoneSum(done, e) + Cardinality(Making(pc, event, e))
  BY DEF Balanced
<1>2. done' = done /\ pc[t] = "idle" /\ pc'[t] # "idle" /\ event'[t] = n
  BY DEF Record, Enter, TypeOK
<1>3. \A u \in Tasks \ {t} : pc'[u] = pc[u] /\ event'[u] = event[u]
  BY DEF Record, Enter, TypeOK
<1>4. W(t) \in Workers
  BY WorkerType DEF TypeOK
<1>5. CASE e = n
  <2>1. Making(pc', event', e) = Making(pc, event, e) \cup {t}
    BY <1>2, <1>3, <1>5 DEF Making
  <2>2. t \notin Making(pc, event, e)
    BY <1>2 DEF Making
  <2>3. Cardinality(Making(pc', event', e)) = Cardinality(Making(pc, event, e)) + 1
    BY <2>1, <2>2, BalanceType, FS_AddElement
  <2> DEFINE F == [w \in Workers |-> mem[w][e]]
             G == [w \in Workers |-> mem'[w][e]]
  <2>4. mem' = [mem EXCEPT ![W(t)][e] = @ + 1]
    BY <1>5 DEF Record, CountInMemory
  <2>5. \A w \in Workers : mem[w] \in [InMemory -> Nat]
    BY DEF TypeOK
  <2>6. \A w \in Workers : mem'[w][e] = IF w = W(t) THEN mem[w][e] + 1 ELSE mem[w][e]
    BY <2>4, <2>5 DEF TypeOK
  <2>7. G \in [Workers -> Nat] /\ G[W(t)] = F[W(t)] + 1 /\ \A w \in Workers \ {W(t)} : G[w] = F[w]
    BY <1>4, <2>5, <2>6
  <2>8. F \in [Workers -> Nat] /\ IsFiniteSet(Workers)
    BY BalanceType
  <2> HIDE DEF F, G
  <2>9. SumFunction(G) = SumFunction(F) + 1
    BY <1>4, <2>7, <2>8, SumGains
  <2>10. MemSum(mem', e) = MemSum(mem, e) + 1
    BY <2>9 DEF MemSum, F, G
  <2> QED BY <1>1, <1>2, <2>3, <2>10, BalanceType
<1>6. CASE e # n
  <2>1. Making(pc', event', e) = Making(pc, event, e)
    BY <1>2, <1>3, <1>6 DEF Making
  <2>2. \A w \in Workers : mem'[w][e] = mem[w][e]
    BY <1>6 DEF Record, CountInMemory, TypeOK
  <2>3. MemSum(mem', e) = MemSum(mem, e)
    BY <2>2 DEF MemSum
  <2> QED BY <1>1, <1>2, <2>1, <2>3
<1> QED BY <1>5, <1>6

\* It is committed when it ends.
LEMMA CommitBalances ==
    ASSUME IInv, Balanced, OneProcess, setting.faults = {},
           NEW t \in Tasks, CommitUpdate(t) \/ CommitInsert(t), NEW e \in InMemory
    PROVE  MemSum(mem', e) = DoneSum(done', e) + Cardinality(Making(pc', event', e))
<1>1. MemSum(mem, e) = DoneSum(done, e) + Cardinality(Making(pc, event, e))
  BY DEF Balanced
<1>2. event[t] \in Events /\ target[t] \in Days /\ Committed(t) /\ mem' = mem /\ pc[t] # "idle"
  BY UpdateShows, InsertShows DEF CommitUpdate, CommitInsert, IInv
<1>3. TypeOK
  BY DEF IInv
<1>4. /\ pc'[t] = "idle"
      /\ \A u \in Tasks \ {t} : pc'[u] = pc[u] /\ event'[u] = event[u]
  BY <1>2, <1>3 DEF Committed, Leave, TypeOK
<1>5. \A d \in Days, n \in Events :
          done'[d][n] = IF d = target[t] /\ n = event[t] THEN done[d][n] + 1 ELSE done[d][n]
  BY <1>2, <1>3, CommitDone
<1>6. CASE e = event[t]
  <2>1. Making(pc', event', e) = Making(pc, event, e) \ {t} /\ t \in Making(pc, event, e)
    BY <1>2, <1>4, <1>6 DEF Making
  <2>2. Cardinality(Making(pc', event', e)) = Cardinality(Making(pc, event, e)) - 1
    <3> DEFINE S == Making(pc, event, e)
    <3>1. IsFiniteSet(S)
      BY <1>3, BalanceType
    <3>2. t \in S
      BY <2>1
    <3> HIDE DEF S
    <3>3. Cardinality(S \ {t}) = Cardinality(S) - 1
      BY <3>1, <3>2, FS_RemoveElement
    <3> QED BY <2>1, <3>3 DEF S
  <2> DEFINE D == target[t]
             F == [d \in Days |-> done[d][e]]
             G == [d \in Days |-> done'[d][e]]
  <2>3. F \in [Days -> Nat] /\ IsFiniteSet(Days) /\ e \in Events
    BY <1>3, BalanceType
  <2>4. G \in [Days -> Nat] /\ G[D] = F[D] + 1 /\ \A d \in Days \ {D} : G[d] = F[d]
    <3>1. \A d \in Days : G[d] = IF d = D THEN F[d] + 1 ELSE F[d]
      BY <1>5, <1>6, <2>3
    <3>2. \A d \in Days : F[d] \in Nat
      BY <2>3
    <3>3. G = [d \in Days |-> G[d]]
      OBVIOUS
    <3> HIDE DEF F, G
    <3> QED BY <1>2, <3>1, <3>2, <3>3
  <2> HIDE DEF F, G
  <2>5. SumFunction(G) = SumFunction(F) + 1
    BY <1>2, <2>3, <2>4, SumGains
  <2>6. DoneSum(done', e) = DoneSum(done, e) + 1
    BY <2>5 DEF DoneSum, F, G
  <2> QED BY <1>1, <1>2, <1>3, <2>2, <2>6, BalanceType
<1>7. CASE e # event[t]
  <2>1. Making(pc', event', e) = Making(pc, event, e)
    BY <1>2, <1>4, <1>7 DEF Making
  <2>2. \A d \in Days : done'[d][e] = done[d][e]
    BY <1>3, <1>5, <1>7, BalanceType
  <2>3. DoneSum(done', e) = DoneSum(done, e)
    BY <2>2 DEF DoneSum
  <2> QED BY <1>1, <1>2, <2>1, <2>3
<1> QED BY <1>6, <1>7

\* What keeps the counts and lets no call begin or end keeps the balance.
LEMMA RestBalances ==
    ASSUME Balanced, OneProcess, setting.faults = {}, UNCHANGED <<mem, done, event>>,
           \A t \in Tasks : pc'[t] = "idle" <=> pc[t] = "idle",
           NEW e \in InMemory
    PROVE  MemSum(mem', e) = DoneSum(done', e) + Cardinality(Making(pc', event', e))
<1>1. Making(pc', event', e) = Making(pc, event, e)
  BY DEF Making
<1> QED BY <1>1 DEF Balanced

\* With one process nobody inserts a row that another one has read.
LEMMA NoCollision ==
    ASSUME IInv, OneProcess, NEW t \in Tasks
    PROVE  ~CommitCollides(t)
<1> SUFFICES ASSUME CommitCollides(t) PROVE FALSE
  OBVIOUS
<1>1. pc[t] = "commit" /\ seen[t] = -1 /\ rows[target[t]] # NoRow
  BY DEF CommitCollides, Insertable
<1>2. event[t] \in Events /\ target[t] \in Days /\ seen[t] = rows[target[t]][event[t]]
  BY <1>1 DEF IInv, ReadsCurrent, ReadIsCurrent, TypeOK
<1>3. rows[target[t]][event[t]] \in Nat
  BY <1>1, <1>2, ShownType DEF IInv
<1> QED BY <1>1, <1>2, <1>3

\* Every step keeps the balance.
LEMMA NextBalanced ==
    ASSUME IInv, Balanced, [Next]_vars
    PROVE  Balanced'
<1>1. setting' = setting /\ (OneProcess' <=> OneProcess)
  <2>1. setting' = setting
    BY DEF Next, Proceed, Record, LockAcquired, Select, CommitUpdate, CommitInsert,
           CommitCollides, Reselect, ReselectFindsNothing, StatementFails, Midnight, Kill, vars
  <2> QED BY <2>1, SettingStays
<1> SUFFICES ASSUME OneProcess, setting.faults = {}
             PROVE  /\ \A t \in Tasks : pc'[t] # "reselect"
                    /\ \A e \in InMemory :
                          MemSum(mem', e)
                              = DoneSum(done', e) + Cardinality(Making(pc', event', e))
  BY <1>1 DEF Balanced, MemSum, DoneSum, Making
<1> DEFINE Goal ==
               /\ \A t \in Tasks : pc'[t] # "reselect"
               /\ \A e \in InMemory :
                     MemSum(mem', e) = DoneSum(done', e) + Cardinality(Making(pc', event', e))
<1>2. TypeOK /\ \A t \in Tasks : pc[t] # "reselect"
  BY DEF IInv, Balanced
<1>3. ASSUME NEW t \in Tasks, NEW n \in Events, Record(t, n) PROVE Goal
  <2>1. \A u \in Tasks : pc'[u] # "reselect"
    BY <1>2, <1>3 DEF Record, Enter, TypeOK
  <2> QED BY <1>2, <1>3, <2>1, RecordBalances
<1>4. ASSUME NEW t \in Tasks, CommitUpdate(t) \/ CommitInsert(t) PROVE Goal
  <2>1. \A u \in Tasks : pc'[u] # "reselect"
    BY <1>2, <1>4 DEF CommitUpdate, CommitInsert, Committed, Leave, TypeOK
  <2> QED BY <1>4, <2>1, CommitBalances
<1>5. ASSUME NEW t \in Tasks, LockAcquired(t) \/ Select(t) PROVE Goal
  <2>1. /\ pc[t] # "idle" /\ pc[t] # "reselect" /\ UNCHANGED <<mem, done, event>>
        /\ pc' \in {[pc EXCEPT ![t] = "select"], [pc EXCEPT ![t] = "commit"]}
    BY <1>2, <1>5 DEF LockAcquired, Enter, Select, Look
  <2>2. \A u \in Tasks : (pc'[u] = "idle" <=> pc[u] = "idle") /\ pc'[u] # "reselect"
    BY <1>2, <2>1 DEF TypeOK
  <2> QED BY <2>1, <2>2, RestBalances
<1>6. ASSUME NEW t \in Tasks,
             \/ CommitCollides(t) \/ Reselect(t)
             \/ ReselectFindsNothing(t) \/ StatementFails(t)
      PROVE  FALSE
  BY <1>2, <1>6, NoCollision DEF Reselect, ReselectFindsNothing, StatementFails
<1>7. ASSUME Midnight \/ UNCHANGED vars PROVE Goal
  <2>1. UNCHANGED <<mem, done, event, pc>>
    BY <1>7 DEF Midnight, vars, locals
  <2> QED BY <1>2, <2>1, RestBalances
<1>8. ASSUME NEW w \in Workers, Kill(w) PROVE FALSE
  BY <1>8 DEF Kill
<1> HIDE DEF Goal
<1>9. Goal
  <2>1. ASSUME NEW t \in Tasks, Proceed(t) PROVE Goal
    BY <2>1, <1>4, <1>5, <1>6 DEF Proceed
  <2> QED BY <2>1, <1>3, <1>7, <1>8 DEF Next
<1> QED BY <1>9 DEF Goal

\* Nothing was counted at first.
LEMMA InitBalanced == Init => Balanced
<1> SUFFICES ASSUME Init PROVE Balanced
  OBVIOUS
<1>1. ASSUME NEW e \in InMemory
      PROVE  MemSum(mem, e) = 0 /\ DoneSum(done, e) = 0 /\ Making(pc, event, e) = {}
  <2> DEFINE F == [w \in Workers |-> mem[w][e]]
             G == [d \in Days |-> done[d][e]]
  <2>1. IsFiniteSet(Workers) /\ IsFiniteSet(Days) /\ e \in Events
    BY InitType, BalanceType
  <2>2. F = [w \in Workers |-> 0] /\ G = [d \in Days |-> 0]
    BY <2>1 DEF Init
  <2>3. SumFunction(F) = 0 /\ SumFunction(G) = 0
    <3>1. F \in [Workers -> Nat] /\ \A w \in Workers : F[w] = 0
      BY <2>2
    <3>2. G \in [Days -> Nat] /\ \A d \in Days : G[d] = 0
      BY <2>2
    <3> HIDE DEF F, G
    <3> QED BY <2>1, <3>1, <3>2, SumOfNothing
  <2>4. Making(pc, event, e) = {}
    BY DEF Init, Making
  <2> QED BY <2>3, <2>4 DEF MemSum, DoneSum
<1>2. \A t \in Tasks : pc[t] # "reselect"
  BY DEF Init
<1> QED BY <1>1, <1>2, FS_EmptySet DEF Balanced

\* /reports/operational and /reports/summary show the same while no report is being
\* made, with one process that never failed to reach the database, however many
\* coroutines, days and calls there were (reporting.py:72-90, 125-165).
THEOREM SumsAgree == Spec => []ReportsAgree
<1>1. IInv /\ Balanced => ReportsAgree
  <2> SUFFICES ASSUME IInv, Balanced, OneProcess, setting.faults = {},
                      \A t \in Tasks : pc[t] = "idle", NEW e \in InMemory
               PROVE  SumFunction([w \in Workers |-> mem[w][e]]) = Total(e)
    BY DEF ReportsAgree
  <2>1. Making(pc, event, e) = {} /\ Cardinality({}) = 0
    BY FS_EmptySet DEF Making
  <2>2. MemSum(mem, e) = DoneSum(done, e)
    <3>1. MemSum(mem, e) = DoneSum(done, e) + Cardinality(Making(pc, event, e))
      BY DEF Balanced
    <3>2. DoneSum(done, e) \in Nat
      BY BalanceType DEF IInv
    <3> QED BY <2>1, <3>1, <3>2
  <2>3. \A d \in Days : Shown(d, e) = done[d][e]
    BY BalanceType DEF IInv, RowsTruthful
  <2>4. Total(e) = DoneSum(done, e)
    BY <2>3 DEF Total, DoneSum
  <2> QED BY <2>2, <2>4 DEF MemSum
<1>2. Init => Balanced
  BY InitBalanced
<1>3. IInv /\ Balanced /\ [Next]_vars => Balanced'
  BY NextBalanced
<1> QED BY <1>1, <1>2, <1>3, Invariance, PTL DEF Spec

----------------------------------------------------------------------------
(* How long a report can be                                                 *)

\* What is left of a report: the lock, the SELECT and a COMMIT, and after a collision,
\* of which only an INSERT can be the victim, the second SELECT and COMMIT.
StepsLeft(place, read) ==
    IF place = "commit" THEN (IF read = -1 THEN 3 ELSE 1)
    ELSE [idle |-> 0, reselect |-> 2, select |-> 4, lockWait |-> 5][place]

\* A report only goes on to what comes later: its INSERT collides once at most.
ReportsRunOut ==
    [][\A t \in Tasks :
          pc[t] # "idle" =>
              \/ UNCHANGED <<pc[t], seen[t]>>
              \/ StepsLeft(pc'[t], seen'[t]) < StepsLeft(pc[t], seen[t])]_vars

\* Whoever waits for the lock of its process finds it free, or held by one that is in
\* the same process and waits for the database only.
WaitersGetOn ==
    \A t \in Tasks :
        pc[t] = "lockWait" =>
            \/ LockFree(W(t))
            \/ \E u \in Tasks : /\ lock[W(t)] = u /\ W(u) = W(t)
                                /\ pc[u] \in {"select", "commit", "reselect"}

\* What is left at each place.
LEMMA LeftFacts ==
    ASSUME NEW read
    PROVE  /\ StepsLeft("idle", read) = 0 /\ StepsLeft("reselect", read) = 2
           /\ StepsLeft("commit", read) = IF read = -1 THEN 3 ELSE 1
           /\ StepsLeft("select", read) = 4 /\ StepsLeft("lockWait", read) = 5
BY DEF StepsLeft

\* A step of a coroutine that is in a call leaves it less to do; that of another one
\* does not matter to it.
LEMMA StepShortens ==
    ASSUME IInv, NEW t \in Tasks, Proceed(t), NEW u \in Tasks
    PROVE  IF u = t
           THEN StepsLeft(pc'[u], seen'[u]) < StepsLeft(pc[u], seen[u])
           ELSE UNCHANGED <<pc[u], seen[u]>>
<1> USE LeftFacts
<1>0. pc \in [Tasks -> Places] /\ seen \in [Tasks -> Nat \cup {-1}]
  BY DEF IInv, TypeOK
<1>1. CASE LockAcquired(t)
  BY <1>0, <1>1 DEF LockAcquired, Enter
<1>2. CASE Select(t)
  <2>1. /\ pc[t] = "select" /\ pc'[t] = "commit"
        /\ u # t => UNCHANGED <<pc[u], seen[u]>>
    BY <1>0, <1>2 DEF Select, Look
  <2> QED BY <2>1
<1>3. CASE Leave(t) /\ pc[t] \in {"select", "commit", "reselect"}
  BY <1>0, <1>3 DEF Leave
<1>4. CASE CommitUpdate(t) \/ CommitInsert(t) \/ ReselectFindsNothing(t) \/ StatementFails(t)
  BY <1>3, <1>4 DEF CommitUpdate, CommitInsert, Committed, ReselectFindsNothing, StatementFails
<1>5. CASE CommitCollides(t)
  BY <1>0, <1>5 DEF CommitCollides
<1>6. CASE Reselect(t)
  <2>1. /\ pc[t] = "reselect" /\ pc'[t] = "commit"
        /\ seen'[t] = rows[began[t]][event[t]]
        /\ u # t => UNCHANGED <<pc[u], seen[u]>>
    BY <1>0, <1>6 DEF Reselect, Look
  <2>2. rows[began[t]] \in [Events -> Nat] /\ event[t] \in Events
    BY <1>6 DEF Reselect, IInv, TypeOK, ReadsCurrent, ReadIsCurrent
  <2>3. seen'[t] # -1
    BY <2>1, <2>2
  <2> QED BY <2>1, <2>3
<1> QED BY <1>1, <1>2, <1>4, <1>5, <1>6 DEF Proceed

\* The loser of a collision on the unique index finds the winner's row and updates it
\* (reporting.py:49-70): no report goes round between INSERT and SELECT, however many
\* processes there are and whenever midnight comes.
THEOREM ReportsEnd == Spec => ReportsRunOut
<1>1. IInv /\ [Next]_vars =>
          [\A t \in Tasks :
              pc[t] # "idle" =>
                  \/ UNCHANGED <<pc[t], seen[t]>>
                  \/ StepsLeft(pc'[t], seen'[t]) < StepsLeft(pc[t], seen[t])]_vars
  <2> SUFFICES ASSUME IInv, Next, NEW t \in Tasks, pc[t] # "idle"
               PROVE  \/ UNCHANGED <<pc[t], seen[t]>>
                      \/ StepsLeft(pc'[t], seen'[t]) < StepsLeft(pc[t], seen[t])
    OBVIOUS
  <2>1. ASSUME NEW u \in Tasks, Proceed(u)
        PROVE  \/ UNCHANGED <<pc[t], seen[t]>>
               \/ StepsLeft(pc'[t], seen'[t]) < StepsLeft(pc[t], seen[t])
    BY <2>1, StepShortens
  <2>2. ASSUME NEW u \in Tasks, NEW e \in Events, Record(u, e)
        PROVE  UNCHANGED <<pc[t], seen[t]>>
    BY <2>2 DEF Record, Enter, IInv, TypeOK
  <2>3. CASE Midnight
    BY <2>3 DEF Midnight, locals
  <2>4. ASSUME NEW w \in Workers, Kill(w)
        PROVE  \/ UNCHANGED <<pc[t], seen[t]>>
               \/ StepsLeft(pc'[t], seen'[t]) < StepsLeft(pc[t], seen[t])
    <3>1. \/ UNCHANGED <<pc[t], seen[t]>>
          \/ pc'[t] = "idle"
      BY <2>4 DEF Kill
    <3>2. pc[t] \in Places
      BY DEF IInv, TypeOK
    <3> QED BY <3>1, <3>2, LeftFacts DEF Places
  <2> QED BY <2>1, <2>2, <2>3, <2>4 DEF Next
<1> QED BY <1>1, Invariance, PTL DEF Spec, ReportsRunOut

\* _lock is never held by one that waits for it, has ended or belongs to another
\* process: a report waits for statements of the database only.
THEOREM WaitersServed == Spec => []WaitersGetOn
<1>1. IInv => WaitersGetOn
  <2> SUFFICES ASSUME IInv, NEW t \in Tasks, pc[t] = "lockWait", ~LockFree(W(t))
               PROVE  \E u \in Tasks : /\ lock[W(t)] = u /\ W(u) = W(t)
                                       /\ pc[u] \in {"select", "commit", "reselect"}
    BY DEF WaitersGetOn
  <2>1. W(t) \in Workers /\ lock[W(t)] # None
    BY WorkerType DEF IInv, TypeOK, LockFree
  <2>2. lock[W(t)] \in Tasks /\ W(lock[W(t)]) = W(t)
    BY <2>1 DEF IInv, TypeOK, LockHeld
  <2> QED BY <2>2 DEF IInv, LockHeld
<1> QED BY <1>1, Invariance, PTL
=============================================================================
