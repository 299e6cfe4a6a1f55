---------------------------- MODULE WaybillForm ----------------------------
(***************************************************************************)
(* EnhancedWaybillManager.create_waybill_with_map,                         *)
(* app/automation/waybill_enhanced.py, one run against the site: visit the *)
(* page, look for the form if it is elsewhere, fill it stage by stage,     *)
(* then stop (dry run) or submit and judge the page that follows.          *)
(*                                                                         *)
(* The site is the environment.  It answers a visit with any of SitePages, *)
(* may lose a form that is being filled, takes or rejects what a click     *)
(* submits, and is fast or late; each field either accepts its value       *)
(* within the timeout or does not.                                         *)
(***************************************************************************)
EXTENDS SubmitContract, Sequences

CONSTANTS
    PAGE_GOTO_MAX_RETRIES,
    Layouts,               \* forms the site may show: "split", "single"
    Extras,                \* the optional values that a request may ask for
    Faults                 \* which of AllFaults may happen

\* "net", "other": a call of the browser raises, with a retryable text or not;
\* "reload": the site shows the form anew while it is being filled;
\* "late", "unconfirmed", "assumed": see SubmitContract.
AllFaults == {"net", "other", "reload"} \cup HidingFaults

ASSUME FormAssumption ==
    /\ PAGE_GOTO_MAX_RETRIES \in Int
    /\ Layouts \subseteq {"split", "single"}
    /\ Faults \subseteq AllFaults

\* Attempts of _goto_with_retry.
GotoAttempts == IF PAGE_GOTO_MAX_RETRIES + 1 >= 1 THEN PAGE_GOTO_MAX_RETRIES + 1 ELSE 1

Stages == <<"sender", "receiver", "origin", "destination", "cargo", "vehicle", "financial">>

\* What each stage types into a field of its own, unless the value is empty.
SenderTexts == {"senderFirst", "senderLast", "senderPhone", "senderAddress", "senderCode"}
ReceiverTexts == {"receiverFirst", "receiverLast", "receiverPhone", "receiverAddress"}
CargoTexts == {"weight", "count", "description"}
VehicleTexts == {"driverCode", "driverPhone", "plate"}
FinancialTexts == {"cost"}

\* What a stage chooses in a menu that the form need not have (the fixed kinds of
\* sender and receiver are left out).
Choices == {"cargoType", "vehicleType", "payment"}

Optional == {"description"} \cup VehicleTexts \cup FinancialTexts \cup Choices
Values == SenderTexts \cup ReceiverTexts \cup {"origin", "destination"} \cup CargoTexts \cup Optional

\* The values of a stage.
ValuesOf ==
    [sender |-> SenderTexts, receiver |-> ReceiverTexts,
     origin |-> {"origin"}, destination |-> {"destination"},
     cargo |-> CargoTexts \cup {"cargoType"}, vehicle |-> VehicleTexts \cup {"vehicleType"},
     financial |-> FinancialTexts \cup {"payment"}]

ASSUME ExtrasAssumption == Extras \subseteq Optional

\* Entries of recovery_selectors, menu_selectors and _waybill_url_candidates.
RecoveryMoves == 6
MenuMoves == 3
UrlMoves == 4

\* A page: what it shows and which of the URLs the code tells apart it has.
\* HagigiHogugi, one of the code's own candidates, is a form without "/create";
\* "coded" is a create page with a number in its URL.
Page(shows, url) == [shows |-> shows, url |-> url]
Forms == {Page(l, u) : l \in Layouts, u \in {"create", "hagigi"}}
SitePages ==
    Forms \cup {Page("notFound", "elsewhere"), Page("noAccess", "infoindex"),
                Page("menu", "elsewhere"), Page("loginForm", "login")}
AfterSubmit ==
    {Page("receipt", "elsewhere"), Page("receipt", "create")}
    \cup {Page("errors", u) : u \in {"create", "coded", "hagigi", "elsewhere"}}

VARIABLES
    dryRun,     \* the argument: the mode of the request is safe
    asked,      \* the values of the request that are not empty
    pc,         \* where the manager is
    tries,      \* visits left to _goto_with_retry
    moves,      \* entries left of the list being tried
    page,       \* what the browser shows
    step,       \* the step of its wizard that a "split" form is at
    stage,      \* the next stage to fill
    onForm,     \* the values that the site's form now holds
    reloaded,   \* history: the form was shown anew while being filled
    taken,      \* what the site took: one set of values per waybill
    hidden,     \* history: faults between the site and the code
    result      \* what the caller gets: a belief, "validated", or "none"

input == <<dryRun, asked>>
outcome == <<reloaded, taken, hidden>>
vars == <<input, pc, tries, moves, page, step, stage, onForm, outcome, result>>

Places == {"visit", "ensure", "recover", "links", "menu", "urls", "verdict",
           "fill", "submit", "again", "judge", "done"}

IsForm(p) == p \in Forms             \* _is_waybill_form_ready
Posts == Len(taken)

Init ==
    /\ dryRun \in BOOLEAN
    /\ \E extra \in SUBSET Extras : asked = (Values \ Optional) \cup extra
    /\ pc = "visit"
    /\ tries = GotoAttempts
    /\ moves = 0
    /\ page = Page("menu", "elsewhere")
    /\ step = 1
    /\ stage = 1
    /\ onForm = {}
    /\ reloaded = FALSE
    /\ taken = <<>>
    /\ hidden = {}
    /\ result = "none"

\* Everything that is raised becomes a WaybillError at the end of the method.
Raise(kind) ==
    /\ pc' = "done"
    /\ result' = kind

----------------------------------------------------------------------------
(* Reaching the form                                                        *)

\* The browser comes to page p; a form starts with its first step.
Arrive(p) ==
    /\ page' = p
    /\ step' = IF p = page THEN step ELSE 1

Visit ==
    /\ pc = "visit"
    /\ \E p \in SitePages : Arrive(p)
    /\ pc' = "ensure"
    /\ UNCHANGED <<input, tries, moves, stage, onForm, outcome, result>>

\* Mutant of VisitsLeft: off by one.
VisitsLeftLate == tries > 0

VisitsLeft == tries > 1

\* A retryable error is retried while attempts are left, any other is raised.
VisitFails ==
    /\ pc = "visit"
    /\ \/ /\ "net" \in Faults /\ VisitsLeft
          /\ tries' = tries - 1
          /\ UNCHANGED <<pc, result>>
       \/ /\ "net" \in Faults /\ ~VisitsLeft
          /\ Raise("net")
          /\ UNCHANGED tries
       \/ /\ "other" \in Faults
          /\ Raise("other")
          /\ UNCHANGED tries
    /\ UNCHANGED <<input, moves, page, step, stage, onForm, outcome>>

\* _looks_like_not_found_page: by its title, its URL or its text.
NotFound(p) == p.shows = "notFound"

Ensure ==
    /\ pc = "ensure"
    /\ \/ IsForm(page) /\ pc' = "fill" /\ UNCHANGED moves
       \/ NotFound(page) /\ pc' = "recover" /\ moves' = RecoveryMoves
       \/ ~IsForm(page) /\ ~NotFound(page) /\ pc' = "links" /\ UNCHANGED moves
    /\ UNCHANGED <<input, tries, page, step, stage, onForm, outcome, result>>

Searching == pc \in {"recover", "menu", "urls"}

\* One entry of one of the three lists is not on the page, or leads somewhere.
\* What it raises is swallowed wherever the browser stands then: a form that
\* came late is not looked for before the next entry.
Move ==
    /\ Searching
    /\ moves > 0
    /\ moves' = moves - 1
    /\ \E p \in SitePages \cup {page} : Arrive(p)
    /\ \/ pc' = IF IsForm(page') THEN "fill" ELSE pc
       \/ {"net", "other"} \cap Faults # {} /\ UNCHANGED pc
    /\ UNCHANGED <<input, tries, stage, onForm, outcome, result>>

\* Mutant of NextSearch: the menu is tried again after the URLs.
NextSearchCyclic == [recover |-> "links", menu |-> "urls", urls |-> "menu"]

NextSearch == [recover |-> "links", menu |-> "urls", urls |-> "verdict"]

MovesUsedUp ==
    /\ Searching
    /\ moves = 0
    /\ pc' = NextSearch[pc]
    /\ moves' = [links |-> 0, menu |-> MenuMoves, urls |-> UrlMoves, verdict |-> 0][pc']
    /\ UNCHANGED <<input, tries, page, step, stage, onForm, outcome, result>>

\* A link that asks for access ends the search.
Links ==
    /\ pc = "links"
    /\ \/ page.shows = "noAccess" /\ Raise("other") /\ UNCHANGED moves
       \/ page.shows # "noAccess" /\ pc' = "menu" /\ moves' = MenuMoves /\ UNCHANGED result
    /\ UNCHANGED <<input, tries, page, step, stage, onForm, outcome>>

\* The search is over: one more look.  The text of the error never matches a
\* marker, also if it was the network that failed every move.
Verdict ==
    /\ pc = "verdict"
    /\ \/ IsForm(page) /\ pc' = "fill" /\ UNCHANGED result
       \/ ~IsForm(page) /\ Raise("other")
    /\ UNCHANGED <<input, tries, moves, page, step, stage, onForm, outcome>>

----------------------------------------------------------------------------
(* Filling it                                                               *)

\* Mutant of AllFilled: the last stage is skipped.
AllFilledEarly == stage >= Len(Stages)

AllFilled == stage > Len(Stages)

\* The fields that the page shows now.  "single" has one field for a whole name,
\* while the code types a last name too; "split" shows the sender, the receiver
\* and the rest one after the other.
FieldsShown ==
    IF ~IsForm(page) THEN {}
    ELSE IF page.shows = "single" THEN Values \ {"senderLast", "receiverLast"}
    ELSE IF step = 1 THEN SenderTexts
    ELSE IF step = 2 THEN ReceiverTexts
    ELSE Values \ (SenderTexts \cup ReceiverTexts)

\* The values that this stage is going to enter.
Due == ValuesOf[Stages[stage]] \cap asked

\* After the sender and the receiver the code clicks "next step" and does not
\* look whether that worked.
NextStep ==
    \/ UNCHANGED step
    \/ /\ Stages[stage] \in {"sender", "receiver"} /\ page.shows = "split"
       /\ step' = step + 1

\* A text needs its field; a choice that no menu offers is passed over, and only
\* the log tells of it.
FillStage ==
    /\ pc = "fill" /\ ~AllFilled
    /\ \E passed \in SUBSET (Due \cap Choices) :
          /\ Due \ passed \subseteq FieldsShown
          /\ onForm' = onForm \cup (Due \ passed)
    /\ stage' = stage + 1
    /\ NextStep
    /\ UNCHANGED <<input, pc, tries, moves, page, outcome, result>>

\* No selector took the text: a WaybillError.  safe_fill and select_option
\* swallow what the browser raised; only the places let it through.
FillFails ==
    /\ pc = "fill" /\ ~AllFilled
    /\ \/ ~(Due \ Choices \subseteq FieldsShown) /\ Raise("other")
       \/ "other" \in Faults /\ Due \ Choices # {} /\ Raise("other")
       \/ "net" \in Faults /\ Stages[stage] \in {"origin", "destination"} /\ Raise("net")
    /\ UNCHANGED <<input, tries, moves, page, step, stage, onForm, outcome>>

\* The session expires or a script redraws the page: nothing checks for it.
Reload ==
    /\ "reload" \in Faults
    /\ pc = "fill"
    /\ \E p \in SitePages : page' = p
    /\ step' = 1
    /\ onForm' = {}
    /\ reloaded' = TRUE
    /\ UNCHANGED <<input, pc, tries, moves, stage, taken, hidden, result>>

\* Mutant of StopsHere: the flag is ignored.
StopsNever == FALSE

StopsHere == dryRun

Filled ==
    /\ pc = "fill" /\ AllFilled
    /\ \/ StopsHere /\ pc' = "done" /\ result' = "validated"
       \/ ~StopsHere /\ pc' = "submit" /\ UNCHANGED result
    /\ UNCHANGED <<input, tries, moves, page, step, stage, onForm, outcome>>

----------------------------------------------------------------------------
(* Submitting it                                                            *)

\* The button of the form, on its page and on one that lists its errors.
HasButton(p) == IsForm(p) \/ p.shows = "errors"

\* The site takes the waybill, or rejects it; some forms stay where they are.
SiteReacts ==
    \/ /\ taken' = Append(taken, onForm)
       /\ page' \in {page} \cup {p \in AfterSubmit : p.shows = "receipt"}
    \/ /\ "other" \in Faults
       /\ page' \in {p \in AfterSubmit : p.shows = "errors"} \cup {page}
       /\ UNCHANGED taken

\* safe_click(wait_for_navigation=True) is true if a navigation was seen in
\* time.  A form that answers without one counts as late.
SubmitClick ==
    /\ pc = "submit"
    /\ HasButton(page)
    /\ SiteReacts
    /\ \/ /\ page' # page
          /\ pc' = "judge"
          /\ UNCHANGED hidden
       \/ /\ "late" \in Faults \/ taken' = taken
          /\ pc' = "again"
          /\ hidden' = IF taken' # taken THEN hidden \cup {"late"} ELSE hidden
    /\ UNCHANGED <<input, tries, moves, step, stage, onForm, reloaded, result>>

\* The second click looks for no navigation; it may still raise when it worked.
ClickAgain ==
    /\ pc = "again"
    /\ HasButton(page)
    /\ SiteReacts
    /\ \/ /\ pc' = "judge"
          /\ UNCHANGED <<hidden, result>>
       \/ /\ "late" \in Faults
          /\ taken' # taken
          /\ hidden' = hidden \cup {"late"}
          /\ Raise("other")
    /\ UNCHANGED <<input, tries, moves, step, stage, onForm, reloaded>>

\* Any other page may have such a button too, a menu that of its search, a login
\* page its own: what it submits is no waybill, and a form it leads to is a new one.
ClickElsewhere ==
    /\ pc \in {"submit", "again"}
    /\ ~HasButton(page)
    /\ \E p \in SitePages \cup {page} : Arrive(p)
    /\ onForm' = {}
    /\ \/ pc' = "judge" /\ (pc = "submit" => page' # page)
       \/ pc' = "again" /\ pc = "submit"
    /\ UNCHANGED <<input, tries, moves, stage, outcome, result>>

\* safe_click swallows what is raised: a missing button, a click that misses.
ClickFails ==
    /\ pc \in {"submit", "again"}
    /\ ~HasButton(page) \/ "other" \in Faults
    /\ \/ /\ pc = "submit"
          /\ pc' = "again"
          /\ UNCHANGED result
       \/ /\ pc = "again"
          /\ Raise("other")
    /\ UNCHANGED <<input, tries, moves, page, step, stage, onForm, outcome>>

\* _is_submission_successful: a receipt, or any URL that is neither the create
\* page nor the login page; _extract_tracking_code: also a number in the URL.
Confirmed(p) == p.shows = "receipt" \/ p.url \notin {"create", "login"}

Judge ==
    /\ pc = "judge"
    /\ \/ /\ Confirmed(page)
          /\ Posts = 0 => "assumed" \in Faults
          /\ hidden' = IF Posts = 0 THEN hidden \cup {"assumed"} ELSE hidden
          /\ Raise("success")
       \/ /\ ~Confirmed(page)
          /\ Posts > 0 => "unconfirmed" \in Faults
          /\ hidden' = IF Posts > 0 THEN hidden \cup {"unconfirmed"} ELSE hidden
          /\ \/ Raise("other")
             \/ page.shows = "errors" /\ "net" \in Faults /\ Raise("net")
    /\ UNCHANGED <<input, tries, moves, page, step, stage, onForm, reloaded, taken>>

----------------------------------------------------------------------------
Steps ==
    \/ Visit \/ VisitFails \/ Ensure \/ Move \/ MovesUsedUp \/ Links \/ Verdict
    \/ FillStage \/ FillFails \/ Filled
    \/ SubmitClick \/ ClickAgain \/ ClickElsewhere \/ ClickFails \/ Judge

Next == Steps \/ Reload

Spec == Init /\ [][Next]_vars

\* Every call to the browser has a timeout.  The environment owes nothing: if it
\* keeps reloading the form, the manager still goes on with its next stage.
FairSpec == Spec /\ WF_vars(Steps)

----------------------------------------------------------------------------
(* Properties                                                               *)

\* Every variable has its type.
TypeOK ==
    /\ dryRun \in BOOLEAN
    /\ asked \subseteq Values
    /\ pc \in Places
    /\ tries \in 1..GotoAttempts
    /\ moves \in 0..RecoveryMoves
    /\ page \in SitePages \cup AfterSubmit
    /\ step \in 1..3
    /\ stage \in 1..Len(Stages) + 1
    /\ onForm \subseteq Values
    /\ reloaded \in BOOLEAN
    /\ taken \in Seq(SUBSET Values)
    /\ hidden \subseteq HidingFaults \cap Faults
    /\ result \in Beliefs \cup {"validated", "none"}

\* What _submit_waybill (waybill_enhanced.py:704-739) tells its caller differs
\* from what the site did only in the ways SubmitContract lists, and at most two
\* waybills are taken, two only if the first click was late.  A dry run
\* (lines 172-181) has neither submitted nor claims to have.
HonoursContract ==
    pc = "done" =>
        IF dryRun THEN taken = <<>> /\ result # "success"
        ELSE [posts |-> Posts, believed |-> result, hidden |-> hidden]
                 \in SubmitOutcomes(Faults)

\* Whatever way led to the form, the site takes, and a dry run calls ready for
\* submission (lines 122-181), only a form with everything that was asked, unless
\* it was shown anew meanwhile; all that may be missing are choices for which the
\* form had no menu or no such option.
TakenComplete ==
    \/ reloaded
    \/ /\ \A i \in DOMAIN taken : asked \ taken[i] \subseteq Choices
       /\ result = "validated" => IsForm(page) /\ asked \ onForm \subseteq Choices

\* What has happened by the time the code is at each of its places.
InOrder ==
    /\ pc = "done" <=> result # "none"
    /\ pc \notin {"again", "judge", "done"} => Posts = 0 /\ hidden = {}
    /\ pc = "again" => Posts = (IF "late" \in hidden THEN 1 ELSE 0) /\ hidden \subseteq {"late"}
    /\ pc = "judge" =>
          /\ Posts <= 2 /\ hidden \subseteq {"late"}
          /\ Posts = 2 => "late" \in hidden
          /\ "late" \in hidden => Posts >= 1
    /\ dryRun => pc \notin {"submit", "again", "judge"}
    /\ pc \in {"fill", "submit"} => reloaded \/ IsForm(page)
    /\ pc \in {"submit", "again", "judge"} => stage > Len(Stages)
    /\ step <= stage

\* What the stages passed so far have entered is on the form, until it is handed in.
EnteredSoFar ==
    /\ onForm \subseteq asked
    /\ pc \in {"judge", "done"} \/ reloaded \/ \A i \in 1..stage - 1 :
          (ValuesOf[Stages[i]] \cap asked) \ Choices \subseteq onForm

\* The inductive invariant.
IInv == TypeOK /\ InOrder /\ EnteredSoFar /\ HonoursContract /\ TakenComplete

\* Every run ends: retries, recovery entries, stages and clicks are all bounded.
EveryRunEnds == <>(pc = "done")

\* README.md:175: in full mode the real registration takes place.  A page with
\* errors whose URL lacks "/create", such as HagigiHogugi, is read as success.
SubmittedIsTaken == result = "success" => Posts >= 1
=============================================================================
