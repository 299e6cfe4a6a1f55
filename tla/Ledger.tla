------------------------------- MODULE Ledger -------------------------------
(***************************************************************************)
(* What /reports/summary and /reports/daily promise (get_summary and       *)
(* get_daily_report in app/automation/reporting.py), without the rows, the *)
(* lock and the sessions: a report that is committed adds one to one count *)
(* of one day.  With one server process the count shown is the number of   *)
(* reports committed.  Processes that share the database may hide each     *)
(* other's reports; a count then shows fewer, never more, and no report    *)
(* touches a count other than its own.                                     *)
(***************************************************************************)
EXTENDS Integers

CONSTANTS
    Days,
    Events

VARIABLES
    exclusive,   \* has the database one process only?
    committed,   \* committed[d][e]: reports of e committed to day d
    shown        \* shown[d][e]: what the API shows

ledgerVars == <<exclusive, committed, shown>>

Init ==
    /\ exclusive \in BOOLEAN
    /\ committed = [d \in Days |-> [e \in Events |-> 0]]
    /\ shown = committed

Report(d, e) ==
    /\ committed' = [committed EXCEPT ![d][e] = @ + 1]
    /\ \E n \in 1..committed[d][e] + 1 :
          /\ exclusive => n = shown[d][e] + 1
          /\ shown' = [shown EXCEPT ![d][e] = n]
    /\ UNCHANGED exclusive

Next == \E d \in Days, e \in Events : Report(d, e)

Spec == Init /\ [][Next]_ledgerVars
=============================================================================
