--------------------------- MODULE WaybillService ---------------------------
(***************************************************************************)
(* WaybillService, app/services/waybill_service.py: the life of a request  *)
(* from the API to its answer, over the parts it drives.  The slots are    *)
(* those of the abstract PacedPool (its times do not matter here); every   *)
(* count is made in memory and then committed, as in Reporting; the site   *)
(* shows itself by what each stage of an attempt may end in.               *)
(*                                                                         *)
(* An exception is abstracted to what the handlers (lines 126-178) tell    *)
(* apart: an HTTPException (401), a WaybillError, any other, and for the   *)
(* last two whether the text matches RETRYABLE_NETWORK_MARKERS             *)
(* (app/core/network.py).  The browser's own faults are in BrowserManager. *)
(***************************************************************************)
EXTENDS SubmitContract, FiniteSets

CONSTANTS
    Requests,
    Settings,                 \* what is asked of which server: the fields of setting
    WAYBILL_MAX_CONCURRENT,
    WAYBILL_MAX_RETRIES,
    PAGE_GOTO_MAX_RETRIES

\* The faults that may happen.
\* "net", "other": a stage raises, with a retryable text or another;
\* "login": the site or its captcha refuses the login;
\* "late", "unconfirmed", "assumed": see SubmitContract;
\* "db": a statement of ReportService raises, with either kind of text.
AllFaults == {"net", "other", "login", "db"} \cup HidingFaults

ASSUME ServiceAssumption ==
    /\ IsFiniteSet(Requests)
    /\ Settings \subseteq [modeOf : [Requests -> {"safe", "full", "detect"}],
                            ALLOW_LIVE_SUBMIT : BOOLEAN,
                            faults : SUBSET AllFaults]
    /\ WAYBILL_MAX_CONCURRENT \in Int
    /\ WAYBILL_MAX_RETRIES \in Int
    /\ PAGE_GOTO_MAX_RETRIES \in Int

AtLeastOne(n) == IF n >= 1 THEN n ELSE 1
Permits == AtLeastOne(WAYBILL_MAX_CONCURRENT)
MaxAttempts == AtLeastOne(WAYBILL_MAX_RETRIES + 1)
GotoAttempts == AtLeastOne(PAGE_GOTO_MAX_RETRIES + 1)

VARIABLES
    setting,     \* one of Settings: modeOf[r], "safe" or "full", or "detect" for
                 \*   detect_map; ALLOW_LIVE_SUBMIT; and the faults that may happen
    pc,          \* pc[r]: where request r is
    attempt,     \* attempt[r]: the loop variable, 0 before the loop
    visits,      \* visits[r]: the loop variable of _goto_with_retry (detect_map)
    after,       \* after[r]: where r goes when its attempt is cleaned up
    context,     \* context[r]: has the attempt a registered context?
    posted,      \* posted[r]: waybills the site took for r
    anomaly,     \* anomaly[r]: the faults that hid a post from the code
    mem,         \* mem[r]: what r counted in memory, by event,
    disk,        \*   and what of it was committed
    answer       \* answer[r]: the HTTP status, 0 before there is one

counts == <<mem, disk>>
vars == <<setting, pc, attempt, visits, after, context, posted, anomaly, counts, answer>>

Places ==
    {"new", "commitRequest", "queue", "prepare", "visit", "login", "form",
     "commitSuccess", "commitMap", "backoff", "commitFailure", "closing", "done"}

Statuses == {200, 400, 401, 403, 500, 503}
Counted == {"requests", "success", "failure"}

Goto(r, place) == pc' = [pc EXCEPT ![r] = place]
CountInMemory(r, e) == mem' = [mem EXCEPT ![r][e] = @ + 1]
Commit(r, e) == disk' = [disk EXCEPT ![r][e] = @ + 1]

Init ==
    /\ setting \in Settings
    /\ pc = [r \in Requests |-> "new"]
    /\ attempt = [r \in Requests |-> 0]
    /\ visits = [r \in Requests |-> 1]
    /\ after = [r \in Requests |-> "queue"]
    /\ context = [r \in Requests |-> FALSE]
    /\ posted = [r \in Requests |-> 0]
    /\ anomaly = [r \in Requests |-> {}]
    /\ mem = [r \in Requests |-> [e \in Counted |-> 0]]
    /\ disk = [r \in Requests |-> [e \in Counted |-> 0]]
    /\ answer = [r \in Requests |-> 0]

Live(r) == setting.modeOf[r] = "full"
Detects(r) == setting.modeOf[r] = "detect"

\* Mutant of DryRun: the flag is not passed on to the form.
DryRunDropped(r) == FALSE

DryRun(r) == setting.modeOf[r] = "safe"

\* Mutant of InSlot: the loop runs inside the slot and asks for another one.
InSlotNested == {r \in Requests : ~Detects(r)
    /\ (pc[r] \notin {"new", "commitRequest", "queue", "done"} \/ attempt[r] > 1)}

\* Requests in the body of slot(); detect_map takes no slot.
InSlot == {r \in Requests : ~Detects(r)
               /\ pc[r] \in {"prepare", "login", "form", "commitSuccess", "commitMap"}}

----------------------------------------------------------------------------
(* The handlers                                                             *)

\* The attempt is over and r is going to answer status.
GiveUp(r, status) ==
    /\ answer' = [answer EXCEPT ![r] = status]
    /\ after' = [after EXCEPT ![r] = "done"]

Refuse(r, status) ==
    /\ CountInMemory(r, "failure")
    /\ Goto(r, "commitFailure")
    /\ GiveUp(r, status)

\* Mutant of AttemptsLeft: the last attempt is followed by another one.
AttemptsLeftBeyond(r) == attempt[r] <= MaxAttempts

AttemptsLeft(r) == attempt[r] < MaxAttempts

\* Mutant of Retry: every failed attempt is counted as a failure.
RetryCounted(r) ==
    /\ AttemptsLeft(r)
    /\ CountInMemory(r, "failure")
    /\ Goto(r, "backoff")
    /\ after' = [after EXCEPT ![r] = "queue"]
    /\ UNCHANGED answer

\* An exception leaves the body of slot() and with it the slot.  A retryable one
\* is retried while attempts are left, after a report to the traffic control and
\* a pause; otherwise the failure is counted and its status chosen.
Retry(r) ==
    /\ AttemptsLeft(r)
    /\ Goto(r, "backoff")
    /\ after' = [after EXCEPT ![r] = "queue"]
    /\ UNCHANGED <<mem, answer>>

HandleWaybillError(r, kind) ==
    \/ kind = "net" /\ Retry(r)
    \/ kind = "net" /\ attempt[r] = MaxAttempts /\ Refuse(r, 503)
    \/ kind = "other" /\ Refuse(r, 400)

\* detect_map has one handler: no retry, no count, status 500.
HandleException(r, kind) ==
    \/ Detects(r) /\ Goto(r, "closing") /\ GiveUp(r, 500) /\ UNCHANGED mem
    \/ ~Detects(r) /\ kind = "net" /\ Retry(r)
    \/ ~Detects(r) /\ (kind = "other" \/ attempt[r] = MaxAttempts) /\ Refuse(r, 500)

Kinds == {"net", "other"}

----------------------------------------------------------------------------
(* Before the loop                                                          *)

Forbid(r) ==
    /\ pc[r] = "new"
    /\ Live(r) /\ ~setting.ALLOW_LIVE_SUBMIT
    /\ answer' = [answer EXCEPT ![r] = 403]
    /\ Goto(r, "done")
    /\ UNCHANGED <<setting, attempt, visits, after, context, posted, anomaly, counts>>

Accept(r) ==
    /\ pc[r] = "new"
    /\ ~Detects(r)
    /\ Live(r) => setting.ALLOW_LIVE_SUBMIT
    /\ CountInMemory(r, "requests")
    /\ Goto(r, "commitRequest")
    /\ UNCHANGED <<setting, attempt, visits, after, context, posted, anomaly, disk, answer>>

RequestCommitted(r) ==
    /\ pc[r] = "commitRequest"
    /\ Commit(r, "requests")
    /\ attempt' = [attempt EXCEPT ![r] = 1]
    /\ Goto(r, "queue")
    /\ UNCHANGED <<setting, visits, after, context, posted, anomaly, mem, answer>>

\* record_request stands outside every try: the framework answers 500.
RequestCommitFails(r) ==
    /\ "db" \in setting.faults
    /\ pc[r] = "commitRequest"
    /\ answer' = [answer EXCEPT ![r] = 500]
    /\ Goto(r, "done")
    /\ UNCHANGED <<setting, attempt, visits, after, context, posted, anomaly, counts>>

----------------------------------------------------------------------------
(* An attempt                                                               *)

EnterSlot(r) ==
    /\ pc[r] = "queue"
    /\ Cardinality(InSlot) < Permits
    /\ Goto(r, "prepare")
    /\ UNCHANGED <<setting, attempt, visits, after, context, posted, anomaly, counts, answer>>

\* detect_map goes straight to the browser.
StartDetect(r) ==
    /\ pc[r] = "new"
    /\ Detects(r)
    /\ Goto(r, "prepare")
    /\ UNCHANGED <<setting, attempt, visits, after, context, posted, anomaly, counts, answer>>

\* initialize, create_context, new_page.
Prepare(r) ==
    /\ pc[r] = "prepare"
    /\ context' = [context EXCEPT ![r] = TRUE]
    /\ Goto(r, IF Detects(r) THEN "visit" ELSE "login")
    /\ UNCHANGED <<setting, attempt, visits, after, posted, anomaly, counts, answer>>

\* It may fail before the context is registered or after (new_page).
PrepareFails(r) ==
    /\ pc[r] = "prepare"
    /\ \E registered \in BOOLEAN : context' = [context EXCEPT ![r] = registered]
    /\ \E kind \in Kinds \cap setting.faults : HandleException(r, kind)
    /\ UNCHANGED <<setting, attempt, visits, posted, anomaly, disk>>

\* detect_map: _goto_with_retry visits the site and tries again after a network
\* fault, then detect_map_type looks for a map.
Visit(r) ==
    /\ pc[r] = "visit"
    /\ Goto(r, "commitMap")
    /\ UNCHANGED <<setting, attempt, visits, after, context, posted, anomaly, counts, answer>>

VisitAgain(r) ==
    /\ pc[r] = "visit"
    /\ "net" \in setting.faults /\ visits[r] < GotoAttempts
    /\ visits' = [visits EXCEPT ![r] = @ + 1]
    /\ UNCHANGED <<setting, pc, attempt, after, context, posted, anomaly, counts, answer>>

VisitFails(r) ==
    /\ pc[r] = "visit"
    /\ \E kind \in Kinds \cap setting.faults :
          /\ kind = "net" => visits[r] = GotoAttempts
          /\ HandleException(r, kind)
    /\ UNCHANGED <<setting, attempt, visits, context, posted, anomaly, disk>>

\* Logged in already or logged in now; either way the state is saved.
LogIn(r) ==
    /\ pc[r] = "login"
    /\ Goto(r, "form")
    /\ UNCHANGED <<setting, attempt, visits, after, context, posted, anomaly, counts, answer>>

\* login() never raises a network fault: whatever kept it from the form, no
\* credentials included, becomes a 401, which is not retried.  What can raise is
\* the directory of the state file, made before save_auth_state's try.
LoginFails(r) ==
    /\ pc[r] = "login"
    /\ \/ {"net", "login"} \cap setting.faults # {} /\ Refuse(r, 401)
       \/ "other" \in setting.faults /\ HandleException(r, "other")
    /\ UNCHANGED <<setting, attempt, visits, context, posted, anomaly, disk>>

CountSuccess(r) ==
    /\ CountInMemory(r, "success")
    /\ Goto(r, "commitSuccess")
    /\ UNCHANGED <<after, answer>>

\* The form is filled; in safe mode (dry_run) that is all.
Validate(r) ==
    /\ pc[r] = "form"
    /\ DryRun(r)
    /\ CountSuccess(r)
    /\ UNCHANGED <<setting, attempt, visits, context, posted, anomaly, disk>>

\* Everything before the submit button raises a WaybillError.
FormFails(r) ==
    /\ pc[r] = "form"
    /\ \E kind \in Kinds \cap setting.faults : HandleWaybillError(r, kind)
    /\ UNCHANGED <<setting, attempt, visits, context, posted, anomaly, disk>>

\* What WaybillForm may come to: the waybills the site took, what the code
\* believes, and what hid the difference.
Submit(r) ==
    /\ pc[r] = "form"
    /\ ~DryRun(r)
    /\ \E o \in SubmitOutcomes(setting.faults) :
          /\ posted' = [posted EXCEPT ![r] = @ + o.posts]
          /\ anomaly' = [anomaly EXCEPT ![r] = @ \cup o.hidden]
          /\ \/ o.believed = "success" /\ CountSuccess(r)
             \/ o.believed # "success" /\ HandleWaybillError(r, o.believed)
    /\ UNCHANGED <<setting, attempt, visits, context, disk>>

Succeed(r) ==
    /\ Goto(r, "closing")
    /\ GiveUp(r, 200)

\* record_success; record_map_usage follows if the origin came from a map.
SuccessCommitted(r) ==
    /\ pc[r] = "commitSuccess"
    /\ Commit(r, "success")
    /\ \/ Succeed(r)
       \/ Goto(r, "commitMap") /\ UNCHANGED <<after, answer>>
    /\ UNCHANGED <<setting, attempt, visits, context, posted, anomaly, mem>>

MapCommitted(r) ==
    /\ pc[r] = "commitMap"
    /\ Succeed(r)
    /\ UNCHANGED <<setting, attempt, visits, context, posted, anomaly, counts>>

\* Both commits stand inside the try, after the waybill was submitted: their
\* exceptions are handled as if the attempt had failed.
CommitFails(r) ==
    /\ "db" \in setting.faults
    /\ pc[r] \in {"commitSuccess", "commitMap"}
    /\ \E kind \in Kinds : HandleException(r, kind)
    /\ anomaly' = [anomaly EXCEPT ![r] = @ \cup {"db"}]
    /\ UNCHANGED <<setting, attempt, visits, context, posted, disk>>

----------------------------------------------------------------------------
(* After an attempt                                                         *)

\* mark_temporary_block and the pause, with the context still open.
BackOff(r) ==
    /\ pc[r] = "backoff"
    /\ Goto(r, "closing")
    /\ UNCHANGED <<setting, attempt, visits, after, context, posted, anomaly, counts, answer>>

FailureCommitted(r) ==
    /\ pc[r] = "commitFailure"
    /\ Commit(r, "failure")
    /\ Goto(r, "closing")
    /\ UNCHANGED <<setting, attempt, visits, after, context, posted, anomaly, mem, answer>>

\* record_failure raises inside the handler: its exception is the answer.
FailureCommitFails(r) ==
    /\ "db" \in setting.faults
    /\ pc[r] = "commitFailure"
    /\ Goto(r, "closing")
    /\ GiveUp(r, 500)
    /\ UNCHANGED <<setting, attempt, visits, context, posted, anomaly, counts>>

\* Mutant of CloseContext: the context is closed after the last attempt only.
CloseContextLast(r) == context' = [context EXCEPT ![r] = @ /\ after[r] = "queue"]

CloseContext(r) == context' = [context EXCEPT ![r] = FALSE]

\* The finally block; then the next attempt or the answer.  (A close() that
\* raises is swallowed; what it leaves behind is in BrowserManager.)
CleanUp(r) ==
    /\ pc[r] = "closing"
    /\ CloseContext(r)
    /\ Goto(r, after[r])
    /\ attempt' = [attempt EXCEPT ![r] = IF after[r] = "queue" THEN @ + 1 ELSE @]
    /\ UNCHANGED <<setting, visits, after, posted, anomaly, counts, answer>>

----------------------------------------------------------------------------
Proceed(r) ==
    \/ RequestCommitted(r) \/ RequestCommitFails(r)
    \/ Prepare(r) \/ PrepareFails(r) \/ Visit(r) \/ VisitAgain(r) \/ VisitFails(r)
    \/ LogIn(r) \/ LoginFails(r)
    \/ Validate(r) \/ FormFails(r) \/ Submit(r)
    \/ SuccessCommitted(r) \/ MapCommitted(r) \/ CommitFails(r)
    \/ BackOff(r) \/ FailureCommitted(r) \/ FailureCommitFails(r) \/ CleanUp(r)

Arrive(r) == Forbid(r) \/ Accept(r) \/ StartDetect(r)

Next == \E r \in Requests : Arrive(r) \/ EnterSlot(r) \/ Proceed(r)

Spec == Init /\ [][Next]_vars

\* The event loop, and calls to the browser that all carry timeouts; the slots
\* are handed out in order of arrival (TrafficControl), which gives the strong
\* fairness of EnterSlot.
Fairness == \A r \in Requests : WF_vars(Proceed(r)) /\ SF_vars(EnterSlot(r))

FairSpec == Spec /\ Fairness

----------------------------------------------------------------------------
(* Properties                                                               *)

\* Every variable has its type.
TypeOK ==
    /\ setting \in Settings
    /\ pc \in [Requests -> Places]
    /\ attempt \in [Requests -> 0..MaxAttempts]
    /\ visits \in [Requests -> 1..GotoAttempts]
    /\ after \in [Requests -> {"queue", "done"}]
    /\ context \in [Requests -> BOOLEAN]
    /\ posted \in [Requests -> Nat]
    /\ anomaly \in [Requests -> SUBSET AllFaults]
    /\ mem \in [Requests -> [Counted -> Nat]]
    /\ disk \in [Requests -> [Counted -> Nat]]
    /\ answer \in [Requests -> Statuses \cup {0}]

\* Unless one of these hid it from the code, that a click was late, that the site
\* took or refused a waybill, that a commit failed afterwards: a request is
\* submitted once at most, whatever is retried, and the answer tells the truth:
\* 200 to a full request means one waybill was submitted, an error that none was.
AnswersTruthfully ==
    \A r \in Requests :
        Live(r) /\ anomaly[r] = {} =>
            /\ posted[r] <= 1
            /\ answer[r] # 0 => posted[r] = IF answer[r] = 200 THEN 1 ELSE 0

\* The README's example of /reports/summary (README.md:183-185): if the database
\* does not fail, every request that was counted and has ended counted as one
\* success or one failure however often it was retried, a success exactly when
\* the client was told 200, and the rows show what memory shows.  (A statement
\* that fails after record_success has counted in memory makes the same request
\* count as a failure too.)  Whatever fails, 200 means a committed success.
Accounted ==
    \A r \in Requests :
        pc[r] = "done" /\ ~Detects(r) =>
            /\ answer[r] = 200 => disk[r]["success"] >= 1
            /\ "db" \notin setting.faults =>
                  /\ mem[r]["requests"] = mem[r]["success"] + mem[r]["failure"]
                  /\ mem[r]["success"] = IF answer[r] = 200 THEN 1 ELSE 0
                  /\ disk[r] = mem[r]

\* No context outlives its request, whichever stage failed, and an attempt begins
\* without the context of the one before it.
NoContextLeft ==
    \A r \in Requests : pc[r] \in {"new", "commitRequest", "queue", "done"} => ~context[r]

\* r is going to be answered, or was.
Decided(r) ==
    pc[r] \in {"commitFailure", "done"} \/ (pc[r] = "closing" /\ after[r] = "done")

\* r is going to be attempted again.
Retried(r) == pc[r] = "backoff" \/ (pc[r] = "closing" /\ after[r] = "queue")

\* The code takes r for done.
Believed(r) == pc[r] \in {"commitSuccess", "commitMap"} \/ answer[r] = 200

Forbidden(r) == Live(r) /\ ~setting.ALLOW_LIVE_SUBMIT

\* Where r may be, by its mode and by what was decided about it.
InOrder(r) ==
    /\ answer[r] # 0 <=> Decided(r)
    /\ after[r] = "done" => Decided(r)
    /\ pc[r] = "commitFailure" => after[r] = "done" /\ answer[r] # 200
    /\ Retried(r) => after[r] = "queue" /\ attempt[r] < MaxAttempts /\ ~Detects(r)
    /\ pc[r] \in {"new", "commitRequest"} \cup (IF Detects(r) THEN Places ELSE {})
          => attempt[r] = 0
    /\ Forbidden(r) => pc[r] \in {"new", "done"}
    /\ Detects(r) => pc[r] \in {"new", "prepare", "visit", "commitMap", "closing", "done"}
    /\ ~Detects(r) => pc[r] # "visit"
    /\ answer[r] = 403 <=> pc[r] = "done" /\ Forbidden(r)

\* What the site took is what the code believes, unless it was hidden from it.
TruthSoFar(r) ==
    /\ ~Live(r) \/ Forbidden(r) => posted[r] = 0
    /\ Live(r) /\ anomaly[r] = {} => posted[r] = IF Believed(r) THEN 1 ELSE 0

\* r was counted as a request, and as a failure.
Opened(r) == IF pc[r] = "new" \/ Forbidden(r) \/ Detects(r) THEN 0 ELSE 1
Failed(r) == IF Decided(r) /\ answer[r] # 200 THEN Opened(r) ELSE 0

\* What the counts of r show at each of its steps.
CountsSoFar(r) ==
    LET lag(place) == IF pc[r] = place THEN 1 ELSE 0
    IN  /\ "db" \in anomaly[r] => "db" \in setting.faults
        /\ ~Detects(r) /\ (pc[r] = "commitMap" \/ answer[r] = 200)
              => disk[r]["success"] >= 1
        /\ "db" \notin setting.faults =>
              /\ mem[r]["requests"] = Opened(r)
              /\ disk[r]["requests"] = Opened(r) - lag("commitRequest")
              /\ mem[r]["success"] = IF Believed(r) THEN Opened(r) ELSE 0
              /\ disk[r]["success"] = mem[r]["success"] - lag("commitSuccess")
              /\ mem[r]["failure"] = Failed(r)
              /\ disk[r]["failure"] = Failed(r) - lag("commitFailure")

\* The inductive invariant: what was submitted, counted and is about to be
\* answered agree at every step of every attempt.
IInv ==
    /\ TypeOK /\ AnswersTruthfully /\ NoContextLeft
    /\ \A r \in Requests : InOrder(r) /\ TruthSoFar(r) /\ CountsSoFar(r)

\* What the promise is about: the requests that may submit, those with a hidden
\* fault, how far each one is and what it was told.
MayPost == {r \in Requests : Live(r) /\ setting.ALLOW_LIVE_SUBMIT}
Hidden == {r \in Requests : anomaly[r] # {}}
Phase == [r \in Requests |->
             IF pc[r] = "new" THEN "new" ELSE IF pc[r] = "done" THEN "answered" ELSE "open"]
Told == [r \in Requests |-> IF pc[r] = "done" THEN answer[r] ELSE 0]

\* README.md:174-175: a safe request never submits a waybill, and a full one only
\* where ALLOW_LIVE_SUBMIT is set, whatever fails and is retried on the way; what
\* is submitted is told, and nothing happens after the answer.
Promise == INSTANCE WaybillPromise WITH
    Calls <- Requests, mayPost <- MayPost, phase <- Phase,
    taken <- posted, hidden <- Hidden, told <- Told

ImplementsPromise == Promise!Spec

\* Every request gets an answer.
EveryRequestAnswered ==
    \A r \in Requests : pc[r] # "new" ~> pc[r] = "done" /\ answer[r] # 0
=============================================================================
