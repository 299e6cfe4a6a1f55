--------------------------- MODULE WaybillPromise ---------------------------
(***************************************************************************)
(* What POST /waybill/create-with-map promises its callers, without slots, *)
(* attempts, pages and counts (WaybillService.create_waybill_with_map,     *)
(* app/services/waybill_service.py): a request that may not submit never   *)
(* does, and unless a fault hid from the code what the site did, a request *)
(* submits one waybill and is answered 200, or submits none and is told of *)
(* an error.  After the answer nothing happens any more.                   *)
(***************************************************************************)
EXTENDS Integers

CONSTANTS
    Calls,       \* requests
    Statuses     \* HTTP statuses of an answer

VARIABLES
    mayPost,     \* the requests that may submit: live ones, where it is allowed
    phase,       \* phase[r]: "new", "open" or "answered"
    taken,       \* taken[r]: waybills the site took for r
    hidden,      \* requests for which a fault hid from the code what happened
    told         \* told[r]: the status r was answered, 0 before

promiseVars == <<mayPost, phase, taken, hidden, told>>

Init ==
    /\ mayPost \in SUBSET Calls
    /\ phase = [r \in Calls |-> "new"]
    /\ taken = [r \in Calls |-> 0]
    /\ hidden = {}
    /\ told = [r \in Calls |-> 0]

Open(r) ==
    /\ phase[r] = "new"
    /\ phase' = [phase EXCEPT ![r] = "open"]
    /\ UNCHANGED <<mayPost, taken, hidden, told>>

\* The site takes n waybills at a submission.
Take(r, n) ==
    /\ phase[r] = "open"
    /\ r \in mayPost
    /\ taken' = [taken EXCEPT ![r] = @ + n]
    /\ \/ hidden' = hidden \cup {r}
       \/ r \notin hidden /\ taken'[r] = 1 /\ UNCHANGED hidden
    /\ UNCHANGED <<mayPost, phase, told>>

\* A fault that leaves the code in doubt.
Hide(r) ==
    /\ phase[r] = "open"
    /\ hidden' = hidden \cup {r}
    /\ UNCHANGED <<mayPost, phase, taken, told>>

\* A request refused before it was opened has submitted nothing.
Answer(r, status) ==
    /\ phase[r] \in {"new", "open"}
    /\ phase[r] = "new" => status # 200
    /\ r \in mayPost \ hidden => taken[r] = IF status = 200 THEN 1 ELSE 0
    /\ phase' = [phase EXCEPT ![r] = "answered"]
    /\ told' = [told EXCEPT ![r] = status]
    /\ UNCHANGED <<mayPost, taken, hidden>>

Next ==
    \E r \in Calls :
        \/ Open(r) \/ Hide(r)
        \/ \E n \in 1..2 : Take(r, n)
        \/ \E status \in Statuses : Answer(r, status)

Spec == Init /\ [][Next]_promiseVars
=============================================================================
