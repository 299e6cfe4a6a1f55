----------------------------- MODULE PacedPool -----------------------------
(***************************************************************************)
(* What WaybillTrafficController (app/automation/traffic_control.py)       *)
(* promises to its callers, without its semaphore, its lock and its        *)
(* counters: at most Capacity clients are inside at any moment, a client   *)
(* is let in only when the pause after the previous admission and the      *)
(* backoff after a reported block have both run out, and a report only     *)
(* ever lengthens the backoff.  Time is kept as what is left of each       *)
(* pause, which is how snapshot() shows it.                                *)
(***************************************************************************)
EXTENDS Integers, FiniteSets

CONSTANTS
    Clients,     \* the requests that share the controller
    Capacity,    \* how many of them may be inside
    Gaps,        \* the pauses that may follow an admission
    Backoffs     \* the backoffs that a report may ask for

VARIABLES
    phase,       \* phase[c]: "out", "waiting" or "in"
    gapLeft,     \* time until the pause after the last admission ends
    blockLeft    \* time until the backoff ends

poolVars == <<phase, gapLeft, blockLeft>>

Inside == {c \in Clients : phase[c] = "in"}

Longest(a, b) == IF a >= b THEN a ELSE b

Init ==
    /\ phase = [c \in Clients |-> "out"]
    /\ gapLeft = 0
    /\ blockLeft = 0

Enter(c) ==
    /\ phase[c] = "out"
    /\ phase' = [phase EXCEPT ![c] = "waiting"]
    /\ UNCHANGED <<gapLeft, blockLeft>>

Admit(c) ==
    /\ phase[c] \in {"out", "waiting"}
    /\ Cardinality(Inside) < Capacity
    /\ gapLeft = 0
    /\ blockLeft = 0
    /\ phase' = [phase EXCEPT ![c] = "in"]
    /\ gapLeft' \in Gaps
    /\ UNCHANGED blockLeft

Leave(c) ==
    /\ phase[c] = "in"
    /\ phase' = [phase EXCEPT ![c] = "out"]
    /\ UNCHANGED <<gapLeft, blockLeft>>

ReportBlock(b) ==
    /\ blockLeft' = Longest(blockLeft, b)
    /\ UNCHANGED <<phase, gapLeft>>

Tick ==
    /\ gapLeft' = Longest(0, gapLeft - 1)
    /\ blockLeft' = Longest(0, blockLeft - 1)
    /\ UNCHANGED phase

Next ==
    \/ \E c \in Clients : Enter(c) \/ Admit(c) \/ Leave(c)
    \/ \E b \in Backoffs : ReportBlock(b)
    \/ Tick

Spec == Init /\ [][Next]_poolVars
=============================================================================
