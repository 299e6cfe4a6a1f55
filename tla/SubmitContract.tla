--------------------------- MODULE SubmitContract ---------------------------
(***************************************************************************)
(* What the service may assume of one run of the live form                 *)
(* (EnhancedWaybillManager.create_waybill_with_map): how many waybills the *)
(* site took, what the caller is told, and what hid the difference.        *)
(* WaybillForm is checked to keep to it, WaybillService relies on it.      *)
(***************************************************************************)
EXTENDS Integers

\* What may come between what the site did and what the code believes:
\* "late": a submit click worked, its navigation was not seen in time;
\* "unconfirmed": the site took the waybill, its page does not say so;
\* "assumed": the site took nothing, its URL was read as a confirmation.
HidingFaults == {"late", "unconfirmed", "assumed"}

\* The caller is told of success, or gets a WaybillError whose text is
\* retryable ("net") or not ("other").
Beliefs == {"success", "net", "other"}

\* The outcomes where faults may happen.
SubmitOutcomes(faults) ==
    {o \in [posts : 0..2, believed : Beliefs, hidden : SUBSET (HidingFaults \cap faults)] :
        /\ o.posts = 2 => "late" \in o.hidden
        /\ "late" \in o.hidden => o.posts >= 1
        /\ "assumed" \in o.hidden <=> o.posts = 0 /\ o.believed = "success"
        /\ "unconfirmed" \in o.hidden => o.posts >= 1 /\ o.believed # "success"
        /\ o.posts >= 1 /\ o.believed # "success" => o.hidden # {}
        /\ o.posts = 0 /\ o.believed = "net" => "net" \in faults}
=============================================================================
