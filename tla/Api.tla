---------------------------------- MODULE Api ----------------------------------
(***************************************************************************)
(* The API over the service: callers that repeat a call until it is        *)
(* answered 200, the guard in front of the sensitive routes                *)
(* (app/core/security.py), the routes behind it (app/api/routes), and the  *)
(* figures of GET /reports/operational, which ReportService keeps in       *)
(* memory (app/automation/reporting.py).  What happens inside a request is *)
(* taken from WaybillPromise, which WaybillService is checked to keep.     *)
(*                                                                         *)
(* The process may be killed: its callers lose their connection and the    *)
(* figures start anew.                                                     *)
(***************************************************************************)
EXTENDS Integers, FiniteSets, SequencesExt

CONSTANTS
    Clients,
    MaxCalls,             \* bound: calls of a client for the same waybill
    Settings,             \* who asks which server for what: the fields of setting
    Latencies,            \* milliseconds that a success may take
    SampleFloor,          \* 100 in the code
    LATENCY_SAMPLE_MAX

Calls == Clients \X (1..MaxCalls)
Off == {"off", "none", "disabled"}
Modes == {"api_key", "jwt", "api_key_or_jwt", "api_key_and_jwt"}

\* "garbled": a body that cannot be read; "invalid": one that WaybillMapRequest does
\* not accept; "detect": detect_map.
Kinds == {"safe", "full", "garbled", "invalid", "detect"}

\* "doubt": the site and the code disagree about a submission; "db": a commit
\* of ReportService raises; "kill": the process is killed.
AllFaults == {"doubt", "db", "kill"}

\* The maxlen of the deque of latencies.
SampleLimit == IF SampleFloor >= LATENCY_SAMPLE_MAX THEN SampleFloor ELSE LATENCY_SAMPLE_MAX

ASSUME ApiAssumption ==
    /\ IsFiniteSet(Clients) /\ MaxCalls \in Nat
    /\ \A s \in Settings :
          /\ s.padded \in BOOLEAN /\ s.ALLOW_LIVE_SUBMIT \in BOOLEAN
          /\ s.configured \subseteq {"key", "jwt"}
          /\ s.holds \in [Clients -> SUBSET {"key", "jwt"}]
          /\ s.odd \in [Clients -> SUBSET {"key", "jwt"}]
          /\ s.asks \in [Clients -> Kinds]
          /\ s.earlier \in 0..SampleLimit
          /\ s.faults \subseteq AllFaults
    /\ Latencies \subseteq Nat
    /\ SampleFloor \in Nat \ {0} /\ LATENCY_SAMPLE_MAX \in Int

VARIABLES
    setting,      \* API_AUTH_MODE, and whether blanks surround it (padded); the
                  \*   credentials that are configured, those each client holds, and
                  \*   those it offers whose check raises (odd): a key that is not
                  \*   ASCII here or there, a token that PyJWT cannot treat with the
                  \*   secret or the algorithm there; what each asks for;
                  \*   ALLOW_LIVE_SUBMIT; successes before the first call (earlier);
                  \*   the faults that may happen
    mayPost, phase, taken, hidden, told,     \* see WaybillPromise
    opened,       \* history: the calls that the service accepted,
    before,       \*   and those of them that a killed process had accepted
    modeCounters, errorCategories, latencySamples,
    latencies     \* history: every latency recorded by this process

promise == <<mayPost, phase, taken, hidden, told>>
report == <<modeCounters, errorCategories, latencySamples, latencies>>
vars == <<setting, promise, opened, before, report>>

Statuses == {200, 400, 401, 403, 422, 500, 503}
Categories == {"auth", "map", "captcha", "network", "form", "unknown"}
Events == {"requests", "success", "failure"}

Promise == INSTANCE WaybillPromise

Asks(call) == setting.asks[call[1]]
Mode(call) == IF Asks(call) = "full" THEN "full" ELSE "safe"

\* The figures of a new process.
NoCounts == [m \in {"safe", "full"} |-> [e \in Events |-> 0]]
NoErrors == [c \in Categories |-> 0]

\* A server that has served setting.earlier dry runs, each slower than the last.
Init ==
    /\ setting \in Settings
    /\ Promise!Init
    /\ mayPost = {call \in Calls : Asks(call) = "full" /\ setting.ALLOW_LIVE_SUBMIT}
    /\ opened = {}
    /\ before = {}
    /\ latencies = [i \in 1..setting.earlier |-> i]
    /\ latencySamples = latencies
    /\ modeCounters =
          [NoCounts EXCEPT !["safe"] =
              [@ EXCEPT !["requests"] = setting.earlier, !["success"] = setting.earlier]]
    /\ errorCategories = NoErrors

----------------------------------------------------------------------------
(* require_sensitive_auth and /readyz                                       *)

\* Credentials without which a mode answers 503 to everyone.
Needed ==
    [api_key |-> {"key"}, jwt |-> {"jwt"},
     api_key_or_jwt |-> {"key"}, api_key_and_jwt |-> {"key", "jwt"}]

\* A credential is valid only if one like it is configured.
Valid(client) == setting.holds[client] \cap setting.configured

\* Mutant of Authorized: one credential is enough in every mode.
AuthorizedByAny(client) == Valid(client) # {}

Authorized(client) ==
    \/ setting.API_AUTH_MODE \in {"api_key", "api_key_or_jwt"} /\ "key" \in Valid(client)
    \/ setting.API_AUTH_MODE \in {"jwt", "api_key_or_jwt"} /\ "jwt" \in Valid(client)
    \/ setting.API_AUTH_MODE = "api_key_and_jwt" /\ Valid(client) = {"key", "jwt"}

\* compare_digest raises a TypeError, or jwt.decode no InvalidTokenError.  Whatever the
\* mode, both credentials are checked that are offered and configured.
CheckRaises(client) == setting.odd[client] \cap setting.configured # {}

\* The guard trims and lowers the mode; 0 lets the call through.
GuardStatus(client) ==
    IF setting.API_AUTH_MODE \in Off THEN 0
    ELSE IF setting.API_AUTH_MODE \notin Modes THEN 500
    ELSE IF ~(Needed[setting.API_AUTH_MODE] \subseteq setting.configured) THEN 503
    ELSE IF CheckRaises(client) THEN 500
    ELSE IF ~Authorized(client) THEN 401 ELSE 0

\* /readyz compares the mode with the same names, but does not trim it.
ConfigReady == setting.API_AUTH_MODE \in Modes \cup Off /\ ~setting.padded

----------------------------------------------------------------------------
(* ReportService in memory                                                  *)

Count(call, event) == modeCounters' = [modeCounters EXCEPT ![Mode(call)][event] = @ + 1]

\* Mutant of Sampled: a full deque keeps what it has.
KeepOldest(s, latency) == IF Len(s) < SampleLimit THEN Append(s, latency) ELSE s

\* deque(maxlen): the oldest sample makes room.
Sampled(s, latency) == Append(IF Len(s) < SampleLimit THEN s ELSE Tail(s), latency)

RecordSuccess(call) ==
    /\ Count(call, "success")
    /\ \E latency \in Latencies :
          /\ latencySamples' = Sampled(latencySamples, latency)
          /\ latencies' = Append(latencies, latency)
    /\ UNCHANGED errorCategories

\* The categories that a failure answered with status may be given: an error that
\* is no HTTPException and no WaybillError by what its text mentions.
CategoriesOf(status) ==
    [s \in {400, 401, 500, 503} |->
        IF s = 400 THEN {"form"} ELSE IF s = 401 THEN {"auth"}
        ELSE IF s = 503 THEN {"network"} ELSE Categories][status]

RecordFailure(call, status) ==
    /\ Count(call, "failure")
    /\ \E c \in CategoriesOf(status) : errorCategories' = [errorCategories EXCEPT ![c] = @ + 1]
    /\ UNCHANGED <<latencySamples, latencies>>

\* round((p / 100) * (n - 1)), which rounds a half to the even side.
\* Mutant of Index: it does not count from 0.
IndexBeyond(n, p) == (p * n) \div 100

Index(n, p) ==
    LET whole == (p * (n - 1)) \div 100
        part == (p * (n - 1)) % 100
    IN  IF part > 50 \/ (part = 50 /\ whole % 2 = 1) THEN whole + 1 ELSE whole

\* How many samples sorted(s) puts before the i-th; equal ones keep their order.
Place(s, i) == Cardinality({j \in DOMAIN s : s[j] < s[i] \/ (s[j] = s[i] /\ j < i)})
Sorted(s) == [n \in DOMAIN s |-> s[CHOOSE i \in DOMAIN s : Place(s, i) = n - 1]]

Percentile(s, p) == IF s = <<>> THEN 0 ELSE Sorted(s)[Index(Len(s), p) + 1]

\* latency_ms of get_operational_report.
OperationalReport ==
    [count |-> Len(latencySamples),
     p50 |-> Percentile(latencySamples, 50),
     p95 |-> Percentile(latencySamples, 95),
     max |-> IF latencySamples = <<>> THEN 0 ELSE Max(ToSet(latencySamples))]

----------------------------------------------------------------------------
(* A call                                                                   *)

\* The answer invites the caller to try again (waybill_service.py:153); it does
\* when the call before was answered an error, or not at all.
Repeats(last) == phase[last] = "lost" \/ (phase[last] = "answered" /\ told[last] # 200)

Sent(call) ==
    /\ phase[call] = "new"
    /\ \A last \in Calls : last[1] = call[1] /\ last[2] + 1 = call[2] => Repeats(last)

\* FastAPI reads the body before anything else: JSON that cannot be parsed is answered
\* 422, what cannot be decoded 400.
Unreadable(call) ==
    /\ Sent(call)
    /\ Asks(call) = "garbled"
    /\ \E s \in {400, 422} : Promise!Answer(call, s)
    /\ UNCHANGED <<setting, opened, before, report>>

\* Then comes the guard, and after it the body is validated.
Refuse(call) ==
    /\ Sent(call) /\ Asks(call) # "garbled"
    /\ GuardStatus(call[1]) # 0
    /\ Promise!Answer(call, GuardStatus(call[1]))
    /\ UNCHANGED <<setting, opened, before, report>>

Reject(call) ==
    /\ Sent(call) /\ GuardStatus(call[1]) = 0
    /\ Asks(call) = "invalid"
    /\ Promise!Answer(call, 422)
    /\ UNCHANGED <<setting, opened, before, report>>

Forbid(call) ==
    /\ Sent(call) /\ GuardStatus(call[1]) = 0
    /\ Asks(call) = "full" /\ ~setting.ALLOW_LIVE_SUBMIT
    /\ Promise!Answer(call, 403)
    /\ UNCHANGED <<setting, opened, before, report>>

Accept(call) ==
    /\ Sent(call) /\ GuardStatus(call[1]) = 0
    /\ Asks(call) \notin {"garbled", "invalid"} /\ (Asks(call) = "full" => setting.ALLOW_LIVE_SUBMIT)
    /\ Promise!Open(call)
    /\ opened' = opened \cup {call}
    /\ IF Asks(call) = "detect" THEN UNCHANGED modeCounters ELSE Count(call, "requests")
    /\ UNCHANGED <<setting, before, errorCategories, latencySamples, latencies>>

\* Mutant of Work: an attempt that submitted is retried as if it had not.
WorkAgain(call) ==
    /\ phase[call] = "open" /\ call \in mayPost /\ taken[call] < 2
    /\ taken' = [taken EXCEPT ![call] = @ + 1]
    /\ UNCHANGED <<setting, mayPost, phase, hidden, told, opened, before, report>>

\* Something happens at the site.  (Bound: two waybills.)
Work(call) ==
    /\ \/ \E n \in 1..2 : taken[call] + n <= 2 /\ Promise!Take(call, n)
       \/ "doubt" \in setting.faults /\ call \notin hidden /\ Promise!Hide(call)
    /\ hidden' = hidden \/ "doubt" \in setting.faults
    /\ UNCHANGED <<setting, opened, before, report>>

\* A success whose commit raises is counted, and then handled as an error.
CountedTooEarly(call) ==
    /\ "db" \in setting.faults
    /\ Asks(call) # "detect"
    /\ call \notin hidden /\ Promise!Hide(call)
    /\ RecordSuccess(call)
    /\ UNCHANGED <<setting, opened, before>>

Succeed(call) ==
    /\ phase[call] = "open"
    /\ Promise!Answer(call, 200)
    /\ IF Asks(call) = "detect" THEN UNCHANGED report ELSE RecordSuccess(call)
    /\ UNCHANGED <<setting, opened, before>>

\* If the failure cannot be committed either, the answer is 500.
Fail(call) ==
    /\ phase[call] = "open"
    /\ Asks(call) # "detect"
    /\ \E s \in {400, 401, 500, 503} :
          /\ RecordFailure(call, s)
          /\ \/ Promise!Answer(call, s)
             \/ "db" \in setting.faults /\ Promise!Answer(call, 500)
    /\ UNCHANGED <<setting, opened, before>>

\* detect_map counts nothing; nor does a request that could not be recorded.
FailUncounted(call) ==
    /\ phase[call] = "open"
    /\ Asks(call) = "detect" \/ ("db" \in setting.faults /\ taken[call] = 0 /\ call \notin hidden)
    /\ Promise!Answer(call, 500)
    /\ UNCHANGED <<setting, opened, before, report>>

\* Nobody learns what became of the calls that were open.
Kill ==
    /\ "kill" \in setting.faults
    /\ \E call \in Calls : phase[call] = "open"
    /\ phase' = [call \in Calls |-> IF phase[call] = "open" THEN "lost" ELSE phase[call]]
    /\ hidden' = hidden \cup {call \in Calls : phase[call] = "open"}
    /\ before' = opened
    /\ modeCounters' = NoCounts /\ errorCategories' = NoErrors
    /\ latencySamples' = <<>> /\ latencies' = <<>>
    /\ UNCHANGED <<setting, mayPost, taken, told, opened>>

Next ==
    \/ Kill
    \/ \E call \in Calls :
          \/ Unreadable(call) \/ Refuse(call) \/ Reject(call) \/ Forbid(call) \/ Accept(call)
          \/ Work(call) \/ CountedTooEarly(call)
          \/ Succeed(call) \/ Fail(call) \/ FailUncounted(call)

Spec == Init /\ [][Next]_vars

----------------------------------------------------------------------------
(* Properties                                                               *)

\* Every variable has its type.
TypeOK ==
    /\ setting \in Settings
    /\ mayPost \subseteq Calls
    /\ phase \in [Calls -> {"new", "open", "answered", "lost"}]
    /\ taken \in [Calls -> 0..2]
    /\ hidden \subseteq Calls
    /\ told \in [Calls -> Statuses \cup {0}]
    /\ opened \subseteq Calls /\ before \subseteq opened
    /\ modeCounters \in [{"safe", "full"} -> [Events -> Nat]]
    /\ errorCategories \in [Categories -> Nat]
    /\ latencySamples \in Seq(Nat) /\ latencies \in Seq(Nat)

\* What has happened by the time a call is in its phase; and nobody calls again who
\* was answered 200, or waits for an answer.
InOrder ==
    \A call \in Calls :
        /\ phase[call] = "new" => taken[call] = 0 /\ call \notin hidden \cup opened
        /\ phase[call] = "open" => call \in opened
        /\ phase[call] = "lost" => call \in hidden
        /\ call \in before => phase[call] \in {"answered", "lost"}
        /\ phase[call] = "answered" <=> told[call] # 0
        /\ call \notin mayPost => taken[call] = 0
        /\ call \notin hidden => taken[call] <= 1
        /\ phase[call] = "answered" /\ call \in mayPost \ hidden =>
               taken[call] = IF told[call] = 200 THEN 1 ELSE 0
        /\ \A later \in Calls :
               later[1] = call[1] /\ call[2] < later[2] /\ phase[later] # "new" => Repeats(call)

Of(client) == {client} \X (1..MaxCalls)

\* A caller that repeats its call until it is answered 200, as the answer 503 asks
\* it to (waybill_service.py:153), has its waybill submitted once: not before the
\* 200, and not again by a call after an error.  Only a call that was killed, or
\* whose outcome was hidden from the code, may already have submitted it: a call
\* carries nothing by which a repeated one could be recognised.
SubmitsOnce ==
    \A client \in Clients :
        Of(client) \cap hidden = {} =>
            LET posting == {call \in Of(client) : taken[call] > 0}
                settled == \A call \in Of(client) : phase[call] # "open"
                done == \E call \in Of(client) : told[call] = 200
            IN  /\ \A call, other \in posting : taken[call] = 1 /\ call = other
                /\ settled /\ Of(client) \subseteq mayPost => (done <=> posting # {})

\* What the modes accept (FINAL_TECHNICAL_REVIEW_FA.md:18-23).
Accepted ==
    [m \in Modes \cup Off |->
        IF m \in Off THEN {{}}
        ELSE [api_key |-> {{"key"}}, jwt |-> {{"jwt"}}, api_key_or_jwt |-> {{"key"}, {"jwt"}},
              api_key_and_jwt |-> {{"key", "jwt"}}][m]]

Entitled(client) ==
    /\ setting.API_AUTH_MODE \in Modes \cup Off
    /\ \E set \in Accepted[setting.API_AUTH_MODE] : set \subseteq Valid(client)

\* Nothing of a call without the credentials of the mode gets past the guard, also
\* where the server lacks them, and all it learns without them is that its body cannot
\* be read; a 401 of the guard is never for want of trying a credential the mode
\* accepts; and while /readyz reports the configuration as good, the guard fails for
\* no mode, only for a credential whose check raises.  (It may still answer 503 to
\* everyone, for a key that is not configured.)
GuardAsDocumented ==
    \A call \in Calls :
        /\ call \in opened \/ told[call] = 403 => Entitled(call[1])
        /\ told[call] = 422 => Entitled(call[1]) \/ Asks(call) = "garbled"
        /\ call \notin opened /\ told[call] = 401 => ~Entitled(call[1])
        /\ call \notin opened /\ told[call] = 500 => ~ConfigReady \/ CheckRaises(call[1])

\* The inductive invariant of the calls; that of the figures is TelemetryExact.
IInv == TypeOK /\ InOrder /\ GuardAsDocumented

\* The calls that count in this process, by mode.
Ours(mode) == {call \in opened \ before : Asks(call) # "detect" /\ Mode(call) = mode}
Earlier(mode) == IF mode = "safe" /\ before = {} THEN setting.earlier ELSE 0

\* The failures in all categories.
Categorised ==
    errorCategories["auth"] + errorCategories["map"] + errorCategories["captcha"]
        + errorCategories["network"] + errorCategories["form"] + errorCategories["unknown"]

Ended(mode) == {call \in Ours(mode) : phase[call] = "answered"}
Good(mode) == {call \in Ended(mode) : told[call] = 200}

LatestSamples ==
    /\ latencySamples = SubSeq(latencies, Len(latencies) - Len(latencySamples) + 1, Len(latencies))
    /\ Len(latencySamples) = Min({Len(latencies), SampleLimit})

CountsOf(mode) ==
    modeCounters[mode] =
        [requests |-> Cardinality(Ours(mode)) + Earlier(mode),
         success |-> Cardinality(Good(mode)) + Earlier(mode),
         failure |-> Cardinality(Ended(mode)) - Cardinality(Good(mode))]

\* README.md:195: /reports/operational.  Unless a commit failed, what it shows is
\* what happened since the process started: a request for each accepted call, then
\* one success or one failure in one category, and the latest latencies; calls that
\* were refused before the service leave no trace, whoever made them.
TelemetryExact ==
    /\ LatestSamples
    /\ "db" \notin setting.faults =>
          /\ CountsOf("safe") /\ CountsOf("full")
          /\ Categorised = modeCounters["safe"]["failure"] + modeCounters["full"]["failure"]

\* A reported percentile is a sample whose rank among the n samples is as near as
\* can be to p percent of the way from the first to the last; so the median is
\* never above p95, nor p95 above the maximum.
RankFits(value, p) ==
    LET n == Len(latencySamples)
        Below == {i \in 1..n : latencySamples[i] < value}
        Above == {i \in 1..n : latencySamples[i] > value}
    IN  /\ 200 * Cardinality(Below) <= 2 * p * (n - 1) + 100
        /\ 200 * Cardinality(Above) <= 2 * (100 - p) * (n - 1) + 100

ReportSound ==
    latencySamples # <<>> =>
        /\ {OperationalReport.p50, OperationalReport.p95} \subseteq ToSet(latencySamples)
        /\ RankFits(OperationalReport.p50, 50)
        /\ RankFits(OperationalReport.p95, 95)
        /\ OperationalReport.p50 <= OperationalReport.p95
        /\ OperationalReport.p95 <= OperationalReport.max
=============================================================================
