# A verification project for Automation-Barname

Automation-Barname is a FastAPI service that drives a Chromium browser through the
Iranian waybill site UTCMS: a client posts a waybill, the service signs in, looks for the
form, chooses the places on the map or in menus, fills the form and, if asked to, submits
it. This directory holds a TLA+ model of the parts of that program that can go wrong by
interleaving, failure, timing or a long sequence of legal calls, the TLC configurations
that check them on small instances, and proofs, checked by TLAPS, that what these runs show
of safety holds for every size and every configuration. Paths such as `browser.py:43` are
below `app/` of the repository; line numbers are those of the commit the model was written
from.

Reading order: `PacedPool` and `TrafficControl`; then `WaybillPromise` with `WaybillService`
and `SubmitContract`, and `Api` above them; then the module of whichever part is of
interest. `PROJECT.json` names
for every definition the lines it models, for every run its properties, for every property
a plausible bug that breaks it, and every hazard of the code with what covers it.

## 1. The system

### Components

| part | source | state it keeps | operations | module |
|---|---|---|---|---|
| Traffic control | `automation/traffic_control.py` | semaphore, lock, `_next_allowed_at`, `_blocked_until`, counters by mode | `acquire`, `release`, `slot`, `_wait_for_pacing`, `mark_temporary_block` | `TrafficControl`, `PacedPool` |
| Browser manager | `automation/browser.py`, `main.py` (lifespan, `/readyz`) | Playwright and browser handles, `_contexts`, `_state_lock`, the login state file | `initialize`, `create_context`, `save_auth_state`, `close_context`, `close` | `BrowserManager` |
| Reporting | `automation/reporting.py`, the table `BotStats` | counters of the process, one row per day | `record_request`, `record_success`, `record_failure`, `record_map_usage`, the reports | `Reporting`, `Ledger` |
| Waybill service | `services/waybill_service.py` | the progress of each request | `create_waybill_with_map`, `detect_map` | `WaybillService`, `WaybillPromise` |
| Waybill form | `automation/waybill_enhanced.py` | the page, the stage being filled | visit, find, fill, submit, judge | `WaybillForm`, `SubmitContract` |
| Locations and map | `automation/location_selector.py`, `map_controller.py`, `selectors.py` | the site's map and menus | `select_location` by map, menu, text | `LocationSelection` |
| Login | `automation/auth.py` | the page, `last_error` | `login`, the captcha policy, `_is_logged_in` | `Login` |
| Captcha provider | `automation/captcha/twocaptcha.py` | the task it polls, its deadline | `solve_text_captcha` | `TwoCaptcha` |
| API | `core/security.py`, `api/routes/`, `schemas/`, the in-memory half of `reporting.py` | none of its own; counters, error categories, latency samples | the guard, the two waybill routes, `/readyz`, `/reports/operational` | `Api` |
| Not modelled | `core/logging.py`, `core/database.py`, `core/config.py`, `automation/script_loader.py` and its scripts, `RouteCalculator`, `scripts/`, `deploy/` | none, or read once | see section 7 | |

The theorems about `M` are in `MProofs`, those about `TwoCaptcha` in `LoginProofs`.

### How they interact

A call passes the guard (API) and becomes a request. Every request is a coroutine of one
event loop. It counts itself (Reporting), and then for
each attempt takes a slot (Traffic control), opens a context (Browser manager), signs in
(Login, Captcha provider) and lets the form manager work (Waybill form, Locations). An
exception leaves the slot first; the handler then either reports a temporary block to the
traffic control, pauses and tries again, or counts a failure and answers. The `finally`
block closes the context. Shared between requests are the semaphore and lock of the traffic
control, the browser and its state file, and the counters and rows of Reporting; the state
file and the rows are shared with later processes, and the rows with other processes too.

### What is hard

* *Interleavings.* State is read before an `await` and used after it: the pacing delay, the
  handles tested by `initialize()`, the row of the day. A permit is handed to a waiter that
  runs later.
* *Failures.* Any browser call and any statement may raise; some are swallowed, some
  retried by the words of the message. A process may die half way through a file or row.
* *Timing.* Fixed pauses (0.5 s for the cities of a province, 5 s for a navigation) race the
  site. Deadlines are looked at between polls only. Midnight may pass inside a report.
* *Repetition.* A caller that was told 503, or lost its connection, calls again; nothing in a
  call lets the service recognise a repeated one.
* *Judgement.* Whether a waybill was submitted, a login worked or a map was clicked is
  inferred from pages, and a retry after a wrong inference submits again.

### What makes each part correct

* Traffic control: permits are neither lost nor made, no more attempts at work than
  configured, no admission before the gap and the backoff have run out, no lost wake-up,
  FIFO service, and every request admitted.
* Browser manager: no context leaked or shared, the state file torn only
  while it is being written, and no call left hanging.
* Reporting: no update lost in one process, none counted twice in several, rows written to
  the right day, memory and rows in agreement, every report ended.
* Service: nothing submitted that must not be, nothing submitted twice without a reason that
  was hidden from the code, truthful answers, one verdict per request, no context left
  behind, every request answered.
* Form: what the caller is told differs from what the site did in known ways only; nothing is
  submitted without a value that was asked for.
* Locations: what was asked is what is entered where the menus leave no doubt, no method left
  out before giving up, and one location leaving the other as it was entered.
* API: a caller that repeats its call until 200 has one waybill; the guard accepts what its
  mode says; the operational report shows what happened.
* Login: no blind clicks and truthful refusals but for the faults that the code cannot see
  through, the captcha settings respected.
* Captcha provider: the answer belongs to the task, a paid task given up for a reason only,
  bounded waiting.

## 2. The modules

A step of a model ends where the coroutine is really suspended; what lies between two
suspensions is one action, with every call it makes. Settings that are read once (modes,
faults that the environment may bring, whether the lifespan handler runs) are chosen in
`Init` from a constant set and never change, so that one run covers several deployments.

**PacedPool** is what the traffic control promises, without its mechanism: phases `out`,
`waiting`, `in`; at most `Capacity` inside; an admission only when both pauses are over; a
report only ever lengthens the backoff.

**TrafficControl** is the controller with asyncio's semaphore and lock as they behave:
`semGranted` counts waiters that were handed a permit and have not run, a resumed waiter
passes a free permit on, and the lock is held *during* the pacing sleep. Deadlines are kept
as what is left of them, which is all the code ever computes. `AcquireNow` and `AcquireWait`
start an `acquire()`, `SemResume`, `LockResume` and `Wake` are its suspensions ending,
`Release` ends an attempt and `MarkNow`, `MarkWait`, `MarkResume` are
`mark_temporary_block()`.

**BrowserManager** has the process around the manager too: `Startup`, `Shutdown`, `Kill`,
`BrowserCrash`. `new_context()` is split where it reads the state file and where it calls the
browser; `save_auth_state()` at its lock, at the call to the browser, and between truncating
and writing the file. Requests and probes of `/readyz` are its clients.

**Ledger** is what the reports promise: a committed report adds one to one count of one day;
with one process the count shown is exactly that, with several it may be less but never more.

**Reporting** splits a report at the lock, the SELECT, the COMMIT and, after a collision on
the unique index, the second SELECT. The day is asked for when the lock is taken (`Enter`), a
suspension before the SELECT has read the row of that day (`Select`). `done`, a history variable, counts what was
committed. The six map columns are one event, since they are written alike. The module is
shown to implement `Ledger` with `committed <- done` and `shown` read from the rows.

**WaybillPromise** is what a call to the service promises: a request that may not submit never
does; unless a fault hid from the code what the site did, it submits one waybill and is
answered 200, or none and is answered an error; nothing happens after the answer.

**WaybillService** is the life of a request. It composes the other parts by what they
promise: slots as in `PacedPool` (times do not matter to it), counts made in memory and then
committed as in `Reporting`, and a live form as in `SubmitContract`. Exceptions are abstracted
to what the handlers tell apart: an `HTTPException`, a `WaybillError` or another exception,
with a retryable text or not. The module is shown to implement `WaybillPromise`, with the
phase read from the program counter, and the requests hidden from the code being those with
an `anomaly`.

**Api** puts the callers above the service, which is represented by `WaybillPromise`, the
specification it implements. A caller repeats its call after any answer but 200 and after
a killed process (`Kill`), which starts again with its figures at zero. The guard is a function of
the mode, the configured credentials, those the caller holds and those whose check raises
(`CheckRaises`: a key that is not ASCII, an error of `jwt.decode` that is no
`InvalidTokenError`), which is answered 500 whatever the mode. FastAPI reads the body before it
runs the guard (`Unreadable`) and validates it afterwards (`Reject`). The counters by mode, the
error categories and the bounded deque of latencies are the state `/reports/operational` is
computed from; `Percentile` is the code's own, with Python's rounding of a half to even, and
`Sorted` is `sorted()` by the place each sample gets (`SortedAssumption` of `MCApi` compares it
with `SortSeq` of the library).

**SubmitContract** is the contract between form and service: how many waybills the site
took, what the caller is told, and what hid the difference (`late`, `unconfirmed`,
`assumed`). `WaybillForm` is checked to keep to it, `WaybillService` relies on it.

**WaybillForm** is one run of `create_waybill_with_map` against a site that may answer every
visit with any page. Only the URLs that the code tells apart are modelled. A stage is the set
of the values it enters, and the page has any subset of the fields and menu options for them;
`Extras` are the optional values of the request that may be missing. A page that is no form may
have a button that the selector of the submit button matches (`ClickElsewhere`): pressing it
submits no waybill.

**LocationSelection** is `select_location` for the origin and then the destination. Names
are abstract; what matters is which name is part of which, as options are recognised by `in`.
A site has any number of menus, and for each side and level the selectors that match something,
in the order of the code, those without the side's prefix last; each finds one menu or two.
`_select_from_options` takes the first selector at which it can make a choice (`StopsAt`),
which may be a later one where the options of the first do not fit or a call raises
(`PassedOver`). An option has a text and a value: it is matched by either (`Match`) and chosen
by its value (`Picked`), which clears the menu if there is none and may name another option.

**Login** is an attempt to sign in under every combination of settings. The site knows
whether the browser is signed in; the code only sees pages. Seven faults make the difference:
calls that raise (`net`, `other`), answers to a click that come after the code stopped waiting
for them, also to the second click (`late`, `Arrive`), an operator who submits the form himself at
any time until the verdict (`operator`), error pages, pages of a signed-in browser that have a
login URL, such as the rules (`kept`), and a `query_selector` that comes too early or raises,
so that a captcha or a form is taken not to be there (`missed`).

**TwoCaptcha** is one call of `solve_text_captcha` with explicit seconds, since its
properties are about deadlines. A poll may be answered by an error of the service while the task
is being solved (`odd`), which ends the attempt.

**TrafficControlProofs**, **BrowserManagerProofs**, **ReportingProofs**,
**WaybillServiceProofs**, **WaybillFormProofs**, **LocationSelectionProofs**, **LoginProofs**
and **ApiProofs** hold the theorems of section 5. `LoginProofs` extends both `Login` and
`TwoCaptcha`, which is why the specification and the invariant of the latter have names of
their own (`CaptchaSpec`, `CaptchaIInv`).

The `MC...` modules give the constants their values for TLC. Definitions whose comment says
"Mutant of" are plausible bugs of the definition that follows; no run uses them. Replacing
that definition's body by the mutant breaks the property that `PROJECT.json` lists it for, so
that each property is known to depend on the code it is about.

## 3. The runs

Nine runs check the components; three show that the program does not do what a document
of the repository says. State counts are those of TLC.

| run | instance | states | question |
|---|---|---|---|
| `TrafficControl` | 3 requests, 2 permits, gap 1 or 2, backoff 2 or 3 | 4 118 | permits, counters, wake-ups, pacing, order, refinement of `PacedPool`, liveness |
| `Browser` | 2 requests, 1 probe, 3 sessions, 4 settings | 56 807 | contexts, state file, dead browsers, no call hangs |
| `Reporting` | 3 coroutines, 1 or 2 processes, 2 days, 4 reports | 81 520 | refinement of `Ledger`, agreement, midnight, every report ends |
| `Service` | 2 requests, 1 slot, 2 attempts, 5 settings | 78 793 | refinement of `WaybillPromise`, counts, cleaning up, every request answered |
| `Form` | 2 layouts, 3 visits, 3 optional values, live and dry, all faults | 230 440 | keeps to `SubmitContract`, complete forms, ends |
| `Location` | origin and destination, 11 sites | 12 685 | the right names, all methods tried, menus consistent |
| `Login` | all 96 settings, 2 URLs, all faults | 341 614 | clicks, refusals, captcha policy |
| `TwoCaptcha` | 2 attempts, requests of 0 to 3 s, odd answers | 18 285 | whose answer, paid tasks, time |
| `Api` | 2 callers with 2 calls, every guard configuration, 12 mixes of calls, 31 samples | 116 297 | one waybill per caller, the guard, the operational report |
| `FormAssumed` | as `Form`, without lateness | | violated: `SubmittedIsTaken` |
| `LocationFallback` | one site with a map | | violated: `MapFallsBack` |
| `LoginErrorPage` | settings of the README | | violated: `SavedSignedIn` |

The invariants named `IInv` (`CaptchaIInv` in `TwoCaptcha`) are the inductive invariants of
their modules, as section 5 proves: they contain the type invariant and what ties the program
counters to the rest of the state. Runs check those of `TrafficControl`, `BrowserManager`,
`Reporting`, `WaybillService` and `WaybillForm`; TLC agrees with those of `LocationSelection`,
`Login`, `TwoCaptcha` and `Api` too, when they are added to the configurations, which is how
they were found.

`CHECK_DEADLOCK FALSE` stands in the configurations whose system really stops: every request,
form, login or call ends, and the reports of `Reporting` are bounded.

### What the passing runs show, and why their bounds are enough

**TrafficControl.** Three requests are the fewest with which one runs, one sleeps with the
lock and one waits for either; two permits let a permit be free while another is handed
over; two gaps and two backoffs let a report be longer or shorter than what is left. The
model bounds nothing else: there is no clock that grows. `AdmissionPaced` looks at the moment
of the admission, although the code computes the delay before the sleep; it holds because
nobody can move a deadline while the sleeper holds the lock, which is the part
`SleepCoversDelays` of the invariant `IInv`. `ServedInOrder` shows the price, that a report
of a block is recorded only after those who queued for the lock before it. That no more than
the configured number of requests are in their slots is part of `ImplementsPool`.

**Browser.** The four settings are: a dying Chromium; failing writes and kills; failing
closes with a dying Chromium; and a server whose lifespan handler does not run, with failing
starts. Two requests and one probe make every pair of concurrent clients.
`ContextPerRequest` lets contexts be left over only if `close()` raises.
`DeadBrowserIsPermanent` and `TornFileIsPermanent` are action properties about what the
code can never do: replace a browser that died while its lifespan handler runs, or repair a
torn file. `MaxBrowsers` and the
number of sessions bound the model: a third session is there for a context that leaked.

**Reporting.** Two coroutines in one process and one in another give both kinds of
competition; two days give one midnight. `ImplementsLedger` says that the counts move one at a
time and by one, exactly for one process and never beyond the truth for two, so that the
loser of a collision on the unique index adds to the winner's row and does not replace it;
`RowsTruthful`, a part of `IInv`, is the state that makes it so. `ReportsAgree` compares memory
and rows for one process without faults. `CommitsInTime` is about the three places that ask
for the day. `EveryReportEnds` includes the bare `raise` after midnight. `MaxCalls` bounds the
run; four reports suffice for two in one process, one in the other and one more after all.

**Service.** One slot for two requests makes every attempt of one wait for the other; two
attempts make a last one and one before. The settings combine a live request with a safe
one, with another live one, with `detect_map`, and on a server that forbids live submission;
the faults are those of the network, the site and the login, those that hide a submission,
and those of the database. `ImplementsPromise` says when a second waybill may be submitted
at all, and that nothing happens after an answer. Most of `Accounted` is stated for a database
that does not fail: a statement that fails after `record_success` counted in memory makes the
same request count as a failure too.

**Api.** Two calls of one caller are a call and its repetition; the other caller makes the
figures those of several. The guard is checked in every mode, also written with blanks and
misspelt, with every set of configured credentials, with a key whose check raises and with a body
that cannot be read; the mixes of calls run in one
configuration, with up to 31 samples in a deque of 31, so that the next one pushes the oldest
out. Those numbers of samples are where the rank of a percentile is rounded up, down and
at a half to either side. `SubmitsOnce` excepts the calls whose outcome was hidden from the
code, which includes those that were killed: that exception is the hazard itself, a caller
that repeats such a call may have two waybills. A caller that stops waiting and repeats a call
while the first is still open is not modelled: `Sent` waits for the answer or the kill.
`GuardAsDocumented` does not promise that `/readyz` knows of missing keys or of a check that
raises, which it does not: it says that nothing gets through the guard on that account.

**Form.** The three optional values are a choice from a menu, a text and the text of the last
stage, one for each way in which a value can be absent. `TakenComplete` leaves the menus
apart, whose missing options the code passes over with a warning, and a site that reloads its
form while it is being filled.

**Location.** `EnteredAsAsked` is stated where no other option contains the name that is
sought, in its text or its value; where, if the name itself is not offered, none is contained
in it; and where its option has a value that names no other (`Unambiguous`), at every selector
that the code may come to. The eleven sites are a usual one; one that lacks a name; `Loose`, with
placeholders and names that are contained in others; `Numbered`, whose values are numbers and
partly missing, so that choosing the province clears its menu; `ThirdMenu`, where the code
falls through to a selector without a prefix, also because a call raised; slow ones; those where
both sides reach the same menu; and one without menus. `MenusConsistent` applies to all of
them, and excepts a menu that the selectors of both sides reach: such a menu shows the
destination.

**Login.** `NoBlindClick` and `RefusalTruthful` are false without conditions, and name the faults
that it takes: a form is submitted with an empty captcha only if the captcha was missed, or if a
late answer or the operator brought the form anew; a button of another page is pressed only for
one of the latter two; and a signed-in browser is refused only if a call raised, an answer came
late, the operator submitted the form, or the page kept a login URL (an error page and a missed
element only ever make a session seem to be there). The history variable `hidden` records which of
them happened in the attempt. Two URLs make one round follow another.

**TwoCaptcha.** `PaidTaskUsed` counts: an attempt leaves at most the one task behind that it
posted, and only if it met an exception, its deadline or an error answer. In `TimeBounded` the
"- 1" of `AttemptTime` comes from whole seconds; `poll_seconds` is a float in the code, for which
the bound holds without it.

**Form, Location, Login, TwoCaptcha** are single coroutines against an environment that does
anything; their bounds are the lengths of the code's own lists (or, for the login URLs, two
of them), and the attempts of the default configuration.

### What the violated runs show

* `FormAssumed`: `_is_submission_successful` (`waybill_enhanced.py:771`) takes any URL without
  `/create` and `/login` as a confirmation. `/Document/HagigiHogugi`, one of the code's own
  candidates for the form, has such a URL: a form rejected there is answered as submitted.
* `LocationFallback`: looking for the map stands outside the `try` of `_try_map_selection`
  (`location_selector.py:80`); if it raises, the menus are never tried, which README.md:14
  promises.
* `LoginErrorPage`: any page that is not a login counts as signed in (`auth.py:158`), and the
  state of an anonymous browser is saved.

### Limits of the code met on the way

Where a document says otherwise than the code but a run could only restate the line:
README.md:11 promises a click on the exact coordinates, and with Google Maps or an unknown map
the middle of the map or the first suggestion is clicked (`map_controller.py:225`,
`PickGoogle` and `PickByClick`); FINAL_TECHNICAL_REVIEW_FA.md:100-102 asks for `API_KEY` and/or
`JWT_SECRET`, and the default mode `api_key_or_jwt` answers 503 to everyone if only the
latter is set (`security.py:56`, `Needed`); `/readyz` does not trim the mode that the guard
trims, and knows nothing of missing keys (`system.py:44`, `ConfigReady`); and of the error
categories of the operational report, `captcha` and `map` are out of reach of the failures
they are named for, as a failed login is a 401, hence `auth`, and a failed form a `WaybillError`,
hence `form` or `network` (`CategoriesOf`).

The following are visible in the models, and the properties are stated with the condition under
which they hold: two browsers without the lifespan handler (`browser.py:25`); a context
that stays registered when `close()` raises (`browser.py:72`); a state file read without
the lock that writers hold, so that a request can meet half a file (`browser.py:43`); a
`/readyz` that reports a dead browser as ok, since `initialize()` tests handles; two verdicts
for one request when the database fails (`waybill_service.py:110`); a form accepted for its
`SenderName` that can never be filled (`waybill_enhanced.py:333` and `414`); origin and
destination entered into one menu where an unprefixed selector is reached (`selectors.py:14`);
a city of another province when the cities come late (`location_selector.py:172`);
options recognised by containment (`location_selector.py:292`) and chosen by their value, which
clears the menu and is reported as a success if there is none (`location_selector.py:293` and
`301`); a login form submitted without its captcha, which is looked for once (`auth.py:404`);
a signed-in browser refused for its URL, also at the rules, which are expected at such a URL
only after that test (`auth.py:190`, `206`); a captcha task given up on any answer but
`CAPCHA_NOT_READY` (`twocaptcha.py:93`); and a guard that answers 500 to a credential whose
check raises, also in a mode that does not ask for it (`security.py:30`, `87`).

## 4. Fairness

* `TrafficControl`: weak fairness of each coroutine's steps (the event loop runs what is
  ready), of `Release` (the browser calls in the body of a slot carry timeouts) and of the
  clock. No strong fairness: the queues are modelled in order.
* `BrowserManager`, `Reporting`: weak fairness of each coroutine's steps, since the calls
  they await return or raise, and strong fairness of taking the lock: `asyncio.Lock` serves
  its waiters in order, and the model leaves that order open.
* `WaybillService`: weak fairness of a request's steps and strong fairness of `EnterSlot`,
  which is what `ServedInOrder` and `NobodyWaitsForever` of `TrafficControl` provide.
* `WaybillForm`: weak fairness of the coroutine's own steps, all of which have timeouts.
  Nothing is assumed of the site: `Reload` is not among the fair steps.
* `LocationSelection`, `Login`, `TwoCaptcha`, `Api`: none, they have safety properties only.

No run assumes that the environment is kind: faults may happen for ever, and no fairness is
asked of requests arriving or of processes starting.

## 5. What is proved

Every invariant, action property and refinement that a passing run checks is a theorem for all
values of the constants: any finite set of requests, coroutines, processes or clients, any
number of attempts, visits, URLs, days, calls and samples, any menus and names, any times, and
any of the faults. Beyond what the runs check, it is proved of every part how many steps it can
take, and of every lock and queue that nobody waits for one that does not run: what is safety
in the liveness properties of section 6.

| module | theorem | states |
|---|---|---|
| `TrafficControlProofs` | `TypeCorrect`, `Invariance` | `[]TypeOK`, `[]IInv` |
| | `Capacity`, `NoWakeupLost` | `[]CapacityRespected`, `[]NoLostWakeup` |
| | `SnapshotExact` | `[]CountersExact` |
| | `Pacing`, `InOrderServed` | `AdmissionPaced`, `ServedInOrder` |
| | `Implementation` | `ImplementsPool` |
| | `QueuesKept`, `SomebodyRuns` | `[]QueuesExact`, `[]NobodyStuck` |
| `BrowserManagerProofs` | `Invariance` | `[]IInv` |
| | `ContextsKept`, `SaversExclude` | `[]ContextPerRequest`, `[]TornOnlyWhileWriting` |
| | `TornStaysTorn`, `DeadStaysDead` | `TornFileIsPermanent`, `DeadBrowserIsPermanent` |
| | `CallsEnd`, `SaversServed` | `CallsRunOut`, `[]SaversGetOn` |
| `ReportingProofs` | `Invariance` | `[]IInv` |
| | `SumsAgree` | `[]ReportsAgree` |
| | `InTime` | `CommitsInTime` |
| | `LedgerImplemented` | `ImplementsLedger` |
| | `ReportsEnd`, `WaitersServed` | `ReportsRunOut`, `[]WaitersGetOn` |
| `WaybillServiceProofs` | `Invariance` | `[]IInv` |
| | `EveryRequestAccounted`, `ContextsClosed` | `[]Accounted`, `[]NoContextLeft` |
| | `PromiseKept` | `ImplementsPromise` |
| | `SlotsKept` | `[]SlotsRespected` |
| | `RunsOut`, `RunsShort` | `StepsRunOut`, `[]StepsBounded` |
| `WaybillFormProofs` | `Invariance` | `[]IInv` |
| | `ContractHonoured`, `CompleteTaken` | `[]HonoursContract`, `[]TakenComplete` |
| | `RunsOut`, `RunsShort` | `StepsRunOut`, `[]StepsBounded` |
| `LocationSelectionProofs` | `Invariance` | `[]IInv` |
| | `GivenUpLast` | `[]GivesUpLast` |
| | `MenusBelong`, `AskedEntered` | `[]MenusConsistent`, `[]EnteredAsAsked` |
| | `RunsOut`, `RunsShort` | `StepsRunOut`, `[]StepsBounded` |
| `LoginProofs` | `Invariance` | `[]IInv` |
| | `ClicksAim`, `RefusalsTrue`, `ModeKept` | `[]NoBlindClick`, `[]RefusalTruthful`, `[]CaptchaModeHonoured` |
| | `RunsOut`, `RunsShort` | `StepsRunOut`, `[]StepsBounded` |
| | `CaptchaInvariance` | `[]CaptchaIInv` |
| | `CaptchaAnswersCurrent`, `CaptchaPaidUsed`, `CaptchaBounded` | `[]AnswerIsCurrent`, `[]PaidTaskUsed`, `[]TimeBounded` |
| | `CaptchaEnds`, `CaptchaShort` | `CaptchaRunsOut`, `[]CaptchaStepsBounded` |
| `ApiProofs` | `Invariance` | `[]IInv` |
| | `SubmittedOnce`, `Guarded`, `TelemetryKept` | `[]SubmitsOnce`, `[]GuardAsDocumented`, `[]TelemetryExact` |
| | `ReportFits` | `[]ReportSound` |

Each is a theorem about `Spec` (`CaptchaSpec` for the captcha provider), hence also about a
specification that adds fairness.

### From which assumptions

The `ASSUME` of each module: that the sets of actors are finite, that the settings have
the fields the code reads and the faults are those of the module, and that configured numbers
are integers. The code reads them with `int()` and bounds few of them, so most may be negative.
More is assumed only where the code leaves no other case: the least length of the deque of
latencies is a positive literal (`SampleFloor`), the list of login URLs is not empty, and the
pause between two polls is positive.

### By which arguments

*Traffic control.* `CapacityRespected` is not inductive: that a task may be admitted follows
from its having a permit, and how many have one follows from the exact account
`PermitsConserved`: the counter, the permits handed over and the tasks past the semaphore add
up. `AdmissionPaced` needs to know that the sleep, computed once, still covers both
deadlines when it ends, which is `SleepCoversDelays`: the sleeper holds the lock, and nothing
else moves a deadline up. So `IInv == TypeOK /\ PermitsConserved /\ SleepCoversDelays`. Lemmas
give the effect of one task's move on the number of permit holders (`HoldersGrow`,
`HoldersShrink`), and the same is done for each mode to show that the snapshot of the counters
is exact. `ServedInOrder` is a property of the two queues alone: what leaves is their head,
what comes is appended. That they hold exactly those that wait (`QueuesExact`) gives
`NobodyStuck`: with a free permit and waiters one of them was handed it, without one somebody
has it; whoever waits for the lock has a sleeper before it, or is handed it; and a sleeper
wakes. `Implementation` maps `semWait`, `lockWait` and `sleeping` to `waiting`
and `holding` to `in`; an `acquire()` that finds everything free admits in one step from `out`.

*Browser.* The owner of the lock is the one coroutine between taking and releasing it
(`LockHeld`), so only it writes the file. Whoever has a browser to ask knows a handle of this
process (`HandlesKnown`), a coroutine has a session exactly while it is open (`SessionsHeld`),
and a session that is handed out is not registered, which gives `ContextPerRequest`.
`DeadBrowserIsPermanent` needs `BrowserOfStartup`: where the lifespan handler runs, nobody else
launches anything. Without the handler the property is false: of two callers that find no
browser the second may replace one that has died by then. It is stated for a server with its
handler.

*Reporting.* The holder of the lock of a process is its only call between SELECT and COMMIT
(`LockHeld`). With one process what was read is therefore still the row
(`ReadsCurrent`), and with several it is no more than what was committed; so a commit
writes one more than what is shown, or less (`RowsTruthful`), and that is a step of `Ledger`. A
row that exists never becomes absent, so the loser of a collision on the index is the one that
did not read, and adds to the winner's row. `ReportsAgree` is about sums, over processes in
memory and over days in the rows. Neither is inductive at rest: the invariant is `Balanced`,
that memory is ahead of what was committed by the number of reports being made, as long as one
process meets no fault; with one process nobody collides (`NoCollision`), so no report is lost
on the way.

*Service.* Requests meet at the slots only, so the invariant is a conjunction over them:
where a request is tells what was decided about it (`InOrder`), what the code believes is what
the site took (`TruthSoFar`), and memory and rows are behind by the commit that is under way
(`CountsSoFar`). Two parts had to be added to what seemed obvious: that a failure is
committed for an answer other than 200 only, and that only an attempt before the last is
repeated. `PromiseKept` then shows each step to be a step of `WaybillPromise`, or none: a click
takes waybills, what hides it changes `hidden`, and the end of a request answers it.

*Form.* `InOrder` says how many waybills may have been taken where, and that two were taken only
if the answer to the first click was late; `EnteredSoFar` that the stages passed have entered
their values unless the site had no such option or reloaded the form.

*Locations.* The first option that matches a name, or that a value names, is a least number, and
`MatchFacts` says what it is. `MenusShow` keeps for each location by which of its selectors
and options a name was chosen (`ProvinceChosen`, `CityChosen`) and that the menu goes on showing it
(`ProvinceShown`, `CityShown`), while the code waits for the cities and, unless the other side
reaches that menu, while the other location is entered (`Stands`). Where the options leave no
doubt, what was chosen is then what was asked for.

*Login and captcha.* `InOrder` of `Login` says for each place which fault it takes for the page to
be another than the login, for the captcha to be empty and for the browser to have a session
already, and that the clicks are two per URL passed. `AttemptsInOrder` of `TwoCaptcha` ties tasks to attempts, `OnTime`
gives each attempt its share of the time, so that the wait is bounded by `MaxRetries *
AttemptTime`; a task that is neither failed nor being polled was left behind by an attempt that
met a fault, its deadline or an error answer (`Unused`, `Excused`).

*API.* A call that is not new presupposes that all the calls before it invite a repetition,
hence were told an error or were lost (`InOrder`); and an error that hides nothing means that
nothing was submitted. So two calls that submitted are one call. `TelemetryExact` counts the
calls by mode and phase: each step moves one call between the sets that are counted. That the
deque holds the latest latencies is `LatestPointwise`: one more sample pushes out the oldest.
For the percentiles, `Place` numbers the samples from 0 without a gap (`PlaceTaken`: it is an
injection of a finite set into one of the same size), so that `Sorted` has a sample at every
rank, and as many samples are below and above it as its rank says; the rounding of `Index`
moves a rank by half of one at most (`IndexNear`).

*Lengths.* What is left to do is a number that each step lowers. A loop of the code counts as
the rounds it has left times the longest round, and the place inside a round comes on top of
it; so a step back to the head of a loop is allowed only because it uses up a round: a visit of
`goto`, an attempt of `MaxAttempts`, a login URL, one of `MaxRetries`, and, in the captcha, the
seconds to a deadline that nothing moves. The bounds are 8 * (`MaxAttempts` + 1)
steps of a request for a waybill and 7 + `GotoAttempts` of one for a map, 30 + `GotoAttempts` of a
form, 14 of two locations, 11 for each login URL and 11 more, and `MaxRetries` * (2 *
`timeout_seconds` + 4) of a captcha. What the site and the operator do meanwhile (`Reload`, `LoadCities`, `Arrive`,
`OperatorSubmits`, `SiteFinishes`) and the other requests leave the number as it is. A report goes from the lock to
SELECT and COMMIT and back to a SELECT only once, as what it then updates exists. The lock
of a report or of the state file is held by a coroutine that waits for the database, or for the
browser and the disk, only.

Where a proof needs an induction over natural numbers it takes a least counterexample
(`NatLessThanWellFounded` and `WFMin` of the library: `LeastNumber` in `ReportingProofs`,
and the least match of a menu), as the theorems of induction proper need an operator for a
parameter, which the provers cannot instantiate. The sums of `ReportsAgree` rest on it:
`SumUnfolds` and `SumGains` say what `SumFunction` is when one value changes.

## 6. What is only model-checked

* The five liveness properties: `NobodyWaitsForever`, `EveryCallReturns`, `EveryReportEnds`,
  `EveryRequestAnswered`, `EveryRunEnds`. Liveness under fairness and `ENABLED` are beyond the
  prover. What they rest on is proved: that the steps of a request, a call, a report or a form
  are bounded in number, that there is always one that runs, that a lock is never held by one
  that waits for it, and that the queues serve in order. What is left to TLC is that fairness
  turns "can take a step" into "takes it", and that the step is enabled.
* The three violated properties, which are false.

For these TLC shows what it shows for the instances of section 3 only.

## 7. What is not modelled, and why

* `schemas/`: pydantic does the validation. A body is valid or not (`Api`), and
  `WaybillForm` knows which of its values may be missing.
* In `core/security.py`, how keys are compared and tokens decoded: a credential is valid, invalid,
  or one whose check raises.
* A caller that times out and repeats its call while the first is open (see `Api` in section 3).
* The rounding of the reported percentiles to two decimals: the samples of `Api` are whole.
* The routes that only pass on what the variables of a module hold (`/waybill/traffic-status`,
  `/reports/summary`, `/reports/daily`, `/healthz`).
* `core/logging.py`, `core/database.py`, `core/config.py`: wording, set-up, values read once.
* `RouteCalculator`: floating-point distance, no state.
* The JavaScript of `automation/js/`: it runs in the site's page; `LocationSelection` models
  what it may answer.
* `MapController.set_route` and `search_address`, which nothing calls, and
  `wait_for_map_idle`, which changes no state.
* Cancellation of a request inside `acquire()`, and a shutdown that does not wait for the
  requests in flight: the server drains them first. The `except` of `acquire()` (lines
  60-64) is reached by neither, as `CancelledError` is no `Exception`.
* The branch for 429 and 503 in the service (line 127): nothing in its `try` raises one.
* `WaybillService` does not repeat the faults of the browser (dead Chromium, torn file, a
  `close()` that raises); as seen by a request the first two are `PrepareFails`, the last is
  swallowed.

## 8. Plan

Done first, as the behaviour everything else relies on: the traffic control with its
abstract specification and proofs, then the shared state of browser and reporting, then the
service that composes them, then the coroutines that face the site.

Then what is promised above them: `Ledger`, which `Reporting` implements, `WaybillPromise`,
which `WaybillService` implements, and on the latter `Api`, with the callers, the guard and the
operational report.

Then the proofs: of every component's inductive invariant, and from it of the invariants,
action properties and refinements of section 5; then of the percentiles, and of the part of each
liveness property that is safety.

The abstract specifications are tied together by use: `WaybillService` takes its submissions
from `SubmitOutcomes`, to which `ContractHonoured` holds the form, and `Api` takes its steps from
`WaybillPromise`, which `PromiseKept` shows the service to implement. If the code changes, the
places to look at first are therefore these contracts. Left for later:

1. One theorem about callers and service at once: `SubmitsOnce` for an `Api` above
   `WaybillService` itself in place of its promise.
2. The enabledness of the fair steps, written as predicates on states, from which liveness would
   follow by the rules of the logic once a prover knows them.

Considered and left out: a composition of `WaybillService` with `TrafficControl` in place of
the pool (the service uses nothing of it but what `PacedPool` states), and the cancellation of a
request that waits in `acquire()` (see section 7).
