------------------------------ MODULE ApiProofs ------------------------------
(***************************************************************************)
(* What TLAPS proves of Api, for any number of clients that call any       *)
(* number of times, any settings and whatever fails: that a client whose   *)
(* calls were neither killed nor in doubt submits its waybill once, that   *)
(* the guard lets through whom it should, that the operational report      *)
(* counts the calls that ended, and that its percentiles have the rank     *)
(* they are named for.                                                     *)
(***************************************************************************)
EXTENDS Api, FiniteSetTheorems, TLAPS

\* A step of this call that answers it.
Answers(call) ==
    \/ Unreadable(call) \/ Refuse(call) \/ Reject(call) \/ Forbid(call)
    \/ Succeed(call) \/ Fail(call) \/ FailUncounted(call)

\* A step of this call that leaves it open.
Works(call) == Work(call) \/ CountedTooEarly(call)

----------------------------------------------------------------------------
(* Calls and the guard                                                      *)

\* A call is a client and a number.
LEMMA CallFacts ==
    ASSUME NEW call \in Calls
    PROVE  /\ call[1] \in Clients /\ call[2] \in 1..MaxCalls
           /\ call = <<call[1], call[2]>>
BY DEF Calls

\* The calls of one client.
LEMMA OfFacts ==
    ASSUME NEW client \in Clients
    PROVE  /\ Of(client) \subseteq Calls
           /\ \A call \in Of(client) : call[1] = client
BY DEF Of, Calls

\* Two calls with the same client and number are one.
LEMMA SameCall ==
    ASSUME NEW a \in Calls, NEW b \in Calls, a[1] = b[1], a[2] = b[2]
    PROVE  a = b
BY CallFacts

\* The credentials that count are two at most.
LEMMA ValidFacts ==
    ASSUME setting \in Settings, NEW client \in Clients
    PROVE  Valid(client) \subseteq {"key", "jwt"} /\ Valid(client) \subseteq setting.configured
BY ApiAssumption DEF Valid

\* What the modes accept.
LEMMA AcceptedFacts ==
    /\ \A mode \in Off : Accepted[mode] = {{}}
    /\ Accepted["api_key"] = {{"key"}}
    /\ Accepted["jwt"] = {{"jwt"}}
    /\ Accepted["api_key_or_jwt"] = {{"key"}, {"jwt"}}
    /\ Accepted["api_key_and_jwt"] = {{"key", "jwt"}}
<1>1. \A mode \in Off : Accepted[mode] = {{}}
  BY DEF Accepted
<1>2. /\ {"api_key", "jwt", "api_key_or_jwt", "api_key_and_jwt"} \subseteq Modes \cup Off
      /\ \A mode \in {"api_key", "jwt", "api_key_or_jwt", "api_key_and_jwt"} : mode \notin Off
  BY DEF Modes, Off
<1>3. Accepted["api_key"] = {{"key"}}
  BY <1>2 DEF Accepted
<1>4. Accepted["jwt"] = {{"jwt"}}
  BY <1>2 DEF Accepted
<1>5. Accepted["api_key_or_jwt"] = {{"key"}, {"jwt"}}
  BY <1>2 DEF Accepted
<1>6. Accepted["api_key_and_jwt"] = {{"key", "jwt"}}
  BY <1>2 DEF Accepted
<1> QED BY <1>1, <1>3, <1>4, <1>5, <1>6

\* What the guard answers, and to whom.
LEMMA GuardFacts ==
    ASSUME setting \in Settings, NEW client \in Clients
    PROVE  /\ GuardStatus(client) \in {0, 401, 500, 503}
           /\ GuardStatus(client) = 0 => Entitled(client)
           /\ GuardStatus(client) = 401 => ~Entitled(client)
           /\ GuardStatus(client) = 500 => ~ConfigReady \/ CheckRaises(client)
<1> DEFINE mode == setting.API_AUTH_MODE
<1>1. CASE mode \in Off
  <2>1. GuardStatus(client) = 0 /\ Accepted[mode] = {{}}
    BY <1>1, AcceptedFacts DEF GuardStatus
  <2> QED BY <1>1, <2>1 DEF Entitled
<1>2. CASE mode \notin Off /\ mode \notin Modes
  BY <1>2 DEF GuardStatus, ConfigReady
<1>3. CASE mode \in Modes /\ mode \notin Off /\ ~(Needed[mode] \subseteq setting.configured)
  BY <1>3 DEF GuardStatus
<1>4. CASE mode \in Modes /\ mode \notin Off /\ Needed[mode] \subseteq setting.configured
  <2>1. GuardStatus(client) =
            IF CheckRaises(client) THEN 500 ELSE IF Authorized(client) THEN 0 ELSE 401
    BY <1>4 DEF GuardStatus
  <2>2. Authorized(client) <=> Entitled(client)
    <3>1. Valid(client) \subseteq {"key", "jwt"}
      BY ValidFacts
    <3>2. CASE mode = "api_key"
      BY <1>4, <3>1, <3>2, AcceptedFacts DEF Authorized, Entitled
    <3>3. CASE mode = "jwt"
      BY <1>4, <3>1, <3>3, AcceptedFacts DEF Authorized, Entitled
    <3>4. CASE mode = "api_key_or_jwt"
      BY <1>4, <3>1, <3>4, AcceptedFacts DEF Authorized, Entitled
    <3>5. CASE mode = "api_key_and_jwt"
      BY <1>4, <3>1, <3>5, AcceptedFacts DEF Authorized, Entitled
    <3> QED BY <1>4, <3>2, <3>3, <3>4, <3>5 DEF Modes
  <2> QED BY <2>1, <2>2
<1> QED BY <1>1, <1>2, <1>3, <1>4

----------------------------------------------------------------------------
(* The figures                                                              *)

\* An event is counted.
LEMMA CountType ==
    ASSUME TypeOK, NEW call \in Calls, NEW event \in Events, Count(call, event)
    PROVE  modeCounters' \in [{"safe", "full"} -> [Events -> Nat]]
<1> DEFINE m == Mode(call)
<1>1. m \in {"safe", "full"} /\ modeCounters \in [{"safe", "full"} -> [Events -> Nat]]
  BY DEF Mode, TypeOK
<1>2. [modeCounters[m] EXCEPT ![event] = @ + 1] \in [Events -> Nat]
  BY <1>1
<1>3. modeCounters' = [modeCounters EXCEPT ![m] = [modeCounters[m] EXCEPT ![event] = @ + 1]]
  BY DEF Count
<1> QED BY <1>1, <1>2, <1>3

\* A success is recorded.
LEMMA SuccessType ==
    ASSUME TypeOK, NEW call \in Calls, RecordSuccess(call)
    PROVE  /\ modeCounters' \in [{"safe", "full"} -> [Events -> Nat]]
           /\ errorCategories' \in [Categories -> Nat]
           /\ latencySamples' \in Seq(Nat) /\ latencies' \in Seq(Nat)
<1>1. modeCounters' \in [{"safe", "full"} -> [Events -> Nat]]
  BY CountType DEF RecordSuccess, Events
<1>2. PICK latency \in Latencies : /\ latencySamples' = Sampled(latencySamples, latency)
                                   /\ latencies' = Append(latencies, latency)
  BY DEF RecordSuccess
<1>3. SampleLimit \in Nat \ {0} /\ latency \in Nat
  BY ApiAssumption DEF SampleLimit
<1>4. latencySamples \in Seq(Nat) /\ latencies \in Seq(Nat)
  BY DEF TypeOK
<1>5. latencies' \in Seq(Nat)
  BY <1>2, <1>3, <1>4
<1>6. latencySamples' \in Seq(Nat)
  <2>1. CASE Len(latencySamples) < SampleLimit
    BY <1>2, <1>3, <1>4, <2>1 DEF Sampled
  <2>2. CASE ~(Len(latencySamples) < SampleLimit)
    <3>1. latencySamples # <<>>
      BY <1>3, <1>4, <2>2
    <3>2. Tail(latencySamples) \in Seq(Nat)
      BY <1>4, <3>1
    <3> QED BY <1>2, <1>3, <2>2, <3>2 DEF Sampled
  <2> QED BY <2>1, <2>2
<1>7. errorCategories' = errorCategories
  BY DEF RecordSuccess
<1> QED BY <1>1, <1>5, <1>6, <1>7 DEF TypeOK

\* A failure is recorded.
LEMMA FailureType ==
    ASSUME TypeOK, NEW call \in Calls, NEW s \in {400, 401, 500, 503}, RecordFailure(call, s)
    PROVE  /\ modeCounters' \in [{"safe", "full"} -> [Events -> Nat]]
           /\ errorCategories' \in [Categories -> Nat]
           /\ latencySamples' \in Seq(Nat) /\ latencies' \in Seq(Nat)
<1>1. modeCounters' \in [{"safe", "full"} -> [Events -> Nat]]
  BY CountType DEF RecordFailure, Events
<1>2. PICK c \in CategoriesOf(s) : errorCategories' = [errorCategories EXCEPT ![c] = @ + 1]
  BY DEF RecordFailure
<1>3. c \in Categories
  BY <1>2 DEF CategoriesOf, Categories
<1>4. errorCategories' \in [Categories -> Nat]
  BY <1>2, <1>3 DEF TypeOK
<1> QED BY <1>1, <1>4 DEF TypeOK, RecordFailure

\* What a step does to the figures.
LEMMA ReportType ==
    ASSUME TypeOK, NEW call \in Calls, Answers(call) \/ Works(call) \/ Accept(call)
    PROVE  /\ modeCounters' \in [{"safe", "full"} -> [Events -> Nat]]
           /\ errorCategories' \in [Categories -> Nat]
           /\ latencySamples' \in Seq(Nat) /\ latencies' \in Seq(Nat)
<1>1. CASE UNCHANGED report
  BY <1>1 DEF report, TypeOK
<1>2. CASE RecordSuccess(call)
  BY <1>2, SuccessType
<1>3. CASE \E s \in {400, 401, 500, 503} : RecordFailure(call, s)
  BY <1>3, FailureType
<1>4. CASE Count(call, "requests") /\ UNCHANGED <<errorCategories, latencySamples, latencies>>
  BY <1>4, CountType DEF Events, TypeOK
<1>5. Accept(call) => \/ UNCHANGED report
                      \/ /\ Count(call, "requests")
                         /\ UNCHANGED <<errorCategories, latencySamples, latencies>>
  BY DEF Accept, report
<1> QED BY <1>1, <1>2, <1>3, <1>4, <1>5
        DEF Answers, Works, Unreadable, Refuse, Reject, Forbid, Succeed, Fail, FailUncounted, Work,
            CountedTooEarly

----------------------------------------------------------------------------
(* What a step does to its call, and to no other                            *)

\* An answer.
LEMMA AnswerStep ==
    ASSUME TypeOK, InOrder, NEW call \in Calls, Answers(call)
    PROVE  /\ UNCHANGED <<setting, mayPost, taken, hidden, opened, before>>
           /\ phase' \in [Calls -> {"new", "open", "answered", "lost"}]
           /\ told' \in [Calls -> Statuses \cup {0}]
           /\ \A c \in Calls \ {call} : phase'[c] = phase[c] /\ told'[c] = told[c]
           /\ phase'[call] = "answered" /\ told'[call] # 0
           /\ \/ phase[call] = "new" /\ Sent(call) /\ told'[call] # 200
              \/ phase[call] = "open"
           /\ call \in mayPost \ hidden => taken[call] = IF told'[call] = 200 THEN 1 ELSE 0
<1>1. PICK s \in Statuses \ {0} : /\ Promise!Answer(call, s)
                                  /\ phase[call] # "open" => Sent(call)
                                  /\ UNCHANGED <<setting, opened, before>>
  <2>1. CASE Refuse(call)
    <3>1. GuardStatus(call[1]) \in Statuses \ {0}
      BY <2>1, GuardFacts, CallFacts DEF Refuse, TypeOK, Statuses
    <3> QED BY <2>1, <3>1 DEF Refuse
  <2>2. CASE Reject(call)
    BY <2>2 DEF Reject, Statuses
  <2>3. CASE Forbid(call)
    BY <2>3 DEF Forbid, Statuses
  <2>4. CASE Succeed(call)
    BY <2>4 DEF Succeed, Statuses
  <2>5. CASE Fail(call)
    BY <2>5 DEF Fail, Statuses
  <2>6. CASE FailUncounted(call)
    BY <2>6 DEF FailUncounted, Statuses
  <2>7. CASE Unreadable(call)
    BY <2>7 DEF Unreadable, Statuses
  <2> QED BY <2>1, <2>2, <2>3, <2>4, <2>5, <2>6, <2>7 DEF Answers
<1>2. /\ phase' = [phase EXCEPT ![call] = "answered"] /\ told' = [told EXCEPT ![call] = s]
      /\ UNCHANGED <<mayPost, taken, hidden>>
      /\ phase[call] \in {"new", "open"}
      /\ phase[call] = "new" => s # 200
      /\ call \in mayPost \ hidden => taken[call] = IF s = 200 THEN 1 ELSE 0
  BY <1>1 DEF Promise!Answer
<1>3. /\ phase \in [Calls -> {"new", "open", "answered", "lost"}]
      /\ told \in [Calls -> Statuses \cup {0}]
  BY DEF TypeOK
<1> QED BY <1>1, <1>2, <1>3

\* The service accepts a call.
LEMMA AcceptStep ==
    ASSUME TypeOK, NEW call \in Calls, Accept(call)
    PROVE  /\ UNCHANGED <<setting, mayPost, taken, hidden, told, before>>
           /\ opened' = opened \cup {call}
           /\ phase' \in [Calls -> {"new", "open", "answered", "lost"}]
           /\ \A c \in Calls \ {call} : phase'[c] = phase[c]
           /\ phase[call] = "new" /\ phase'[call] = "open"
           /\ Sent(call)
<1>1. phase \in [Calls -> {"new", "open", "answered", "lost"}]
  BY DEF TypeOK
<1> QED BY <1>1 DEF Accept, Promise!Open

\* The call is worked on.
LEMMA WorkStep ==
    ASSUME TypeOK, NEW call \in Calls, Works(call)
    PROVE  /\ UNCHANGED <<setting, mayPost, phase, told, opened, before>>
           /\ phase[call] = "open"
           /\ taken' \in [Calls -> 0..2]
           /\ \A c \in Calls \ {call} : taken'[c] = taken[c]
           /\ hidden' \in {hidden, hidden \cup {call}}
           /\ taken'[call] # taken[call] => call \in mayPost
           /\ \/ taken'[call] = taken[call]
              \/ call \in hidden'
              \/ call \notin hidden' /\ taken'[call] = 1
<1>1. taken \in [Calls -> 0..2]
  BY DEF TypeOK
<1>2. CASE Work(call) /\ \E n \in 1..2 : taken[call] + n <= 2 /\ Promise!Take(call, n)
  <2>1. PICK n \in 1..2 : taken[call] + n <= 2 /\ Promise!Take(call, n)
    BY <1>2
  <2>2. taken' = [taken EXCEPT ![call] = @ + n]
    BY <2>1 DEF Promise!Take
  <2>3. taken' \in [Calls -> 0..2] /\ \A c \in Calls \ {call} : taken'[c] = taken[c]
    BY <1>1, <2>1, <2>2
  <2>4. /\ UNCHANGED <<setting, opened, before, mayPost, phase, told>>
        /\ phase[call] = "open" /\ call \in mayPost
        /\ \/ hidden' = hidden \cup {call}
           \/ call \notin hidden /\ taken'[call] = 1 /\ hidden' = hidden
    BY <1>2, <2>1 DEF Work, Promise!Take
  <2> QED BY <2>3, <2>4
<1>3. CASE Promise!Hide(call) /\ UNCHANGED <<setting, opened, before>>
  BY <1>1, <1>3 DEF Promise!Hide
<1> QED BY <1>2, <1>3 DEF Works, Work, CountedTooEarly

\* The process is killed.
LEMMA KillStep ==
    ASSUME TypeOK, Kill
    PROVE  /\ UNCHANGED <<setting, mayPost, taken, told, opened>>
           /\ before' = opened
           /\ phase' \in [Calls -> {"new", "open", "answered", "lost"}]
           /\ \A c \in Calls : phase'[c] = IF phase[c] = "open" THEN "lost" ELSE phase[c]
           /\ hidden' = hidden \cup {c \in Calls : phase[c] = "open"}
<1>1. phase \in [Calls -> {"new", "open", "answered", "lost"}]
  BY DEF TypeOK
<1> QED BY <1>1 DEF Kill

----------------------------------------------------------------------------
(* The invariant                                                            *)

\* What the invariant says of one call, whatever the others do.
CallInv(call) ==
    /\ phase[call] = "new" => taken[call] = 0 /\ call \notin hidden \cup opened
    /\ phase[call] = "open" => call \in opened
    /\ phase[call] = "lost" => call \in hidden
    /\ call \in before => phase[call] \in {"answered", "lost"}
    /\ phase[call] = "answered" <=> told[call] # 0
    /\ call \notin mayPost => taken[call] = 0
    /\ call \notin hidden => taken[call] <= 1
    /\ phase[call] = "answered" /\ call \in mayPost \ hidden =>
           taken[call] = IF told[call] = 200 THEN 1 ELSE 0

\* What it says of a call and a later one of the same client.
Chain(call, later) ==
    later[1] = call[1] /\ call[2] < later[2] /\ phase[later] # "new" => Repeats(call)

\* The two together.
LEMMA InOrderParts ==
    InOrder <=> \A call \in Calls : CallInv(call) /\ \A later \in Calls : Chain(call, later)
BY DEF InOrder, CallInv, Chain

\* A call is sent only after every earlier one of the client was answered an error,
\* or lost.
LEMMA SentLast ==
    ASSUME InOrder, NEW call \in Calls, Sent(call),
           NEW earlier \in Calls, earlier[1] = call[1], earlier[2] < call[2]
    PROVE  Repeats(earlier)
<1>1. call[2] \in 1..MaxCalls /\ earlier[2] \in 1..MaxCalls /\ call[1] \in Clients
  BY CallFacts
<1>2. MaxCalls \in Nat
  BY ApiAssumption
<1> DEFINE last == <<call[1], call[2] - 1>>
<1>3. last \in Calls /\ last[1] = call[1] /\ last[2] + 1 = call[2]
  BY <1>1, <1>2 DEF Calls
<1>4. Repeats(last)
  BY <1>3 DEF Sent
<1>5. CASE earlier[2] = last[2]
  BY <1>3, <1>4, <1>5, SameCall
<1>6. CASE earlier[2] # last[2]
  <2>1. earlier[2] < last[2]
    BY <1>1, <1>2, <1>3, <1>6
  <2>2. phase[last] # "new"
    BY <1>4 DEF Repeats
  <2> HIDE DEF last
  <2>3. Chain(earlier, last)
    BY <1>3, InOrderParts
  <2> QED BY <1>3, <2>1, <2>2, <2>3 DEF Chain
<1> QED BY <1>5, <1>6

\* A step that settles one call, or opens it, keeps the order of the calls.
LEMMA ChainStep ==
    ASSUME TypeOK, InOrder, NEW call \in Calls,
           \A c \in Calls \ {call} : phase'[c] = phase[c] /\ told'[c] = told[c],
           phase[call] \in {"new", "open"},
           phase[call] = "new" => Sent(call),
           NEW a \in Calls, NEW b \in Calls
    PROVE  Chain(a, b)'
<1> SUFFICES ASSUME b[1] = a[1], a[2] < b[2], phase'[b] # "new" PROVE Repeats(a)'
  BY DEF Chain
<1>1. a # b
  BY CallFacts
<1>2. Repeats(a)
  <2>1. CASE b = call /\ phase[call] = "new"
    BY <2>1, SentLast
  <2>2. CASE ~(b = call /\ phase[call] = "new")
    BY <2>2, InOrderParts DEF Chain
  <2> QED BY <2>1, <2>2
<1>3. a # call
  BY <1>2 DEF Repeats
<1> QED BY <1>2, <1>3 DEF Repeats

\* An answer.
LEMMA AnswerInv ==
    ASSUME TypeOK, InOrder, NEW call \in Calls, Answers(call)
    PROVE  TypeOK' /\ InOrder'
<1>1. TypeOK'
  BY AnswerStep, ReportType DEF TypeOK
<1>2. ASSUME NEW c \in Calls PROVE CallInv(c)'
  <2>1. CallInv(c)
    BY InOrderParts
  <2>2. CASE c # call
    BY <2>1, <2>2, AnswerStep DEF CallInv
  <2>3. CASE c = call
    BY <2>1, <2>3, AnswerStep DEF CallInv
  <2> QED BY <2>2, <2>3
<1>3. \A a, b \in Calls : Chain(a, b)'
  BY AnswerStep, ChainStep
<1> QED BY <1>1, <1>2, <1>3 DEF InOrder, CallInv, Chain

\* A call that is accepted.
LEMMA AcceptInv ==
    ASSUME TypeOK, InOrder, NEW call \in Calls, Accept(call)
    PROVE  TypeOK' /\ InOrder'
<1>1. TypeOK'
  BY AcceptStep, ReportType DEF TypeOK
<1>2. ASSUME NEW c \in Calls PROVE CallInv(c)'
  <2>1. CallInv(c)
    BY InOrderParts
  <2>2. CASE c # call
    BY <2>1, <2>2, AcceptStep DEF CallInv
  <2>3. CASE c = call
    BY <2>1, <2>3, AcceptStep DEF CallInv
  <2> QED BY <2>2, <2>3
<1>3. \A a, b \in Calls : Chain(a, b)'
  BY AcceptStep, ChainStep
<1> QED BY <1>1, <1>2, <1>3 DEF InOrder, CallInv, Chain

\* A call that is worked on.
LEMMA WorkInv ==
    ASSUME TypeOK, InOrder, NEW call \in Calls, Works(call)
    PROVE  TypeOK' /\ InOrder'
<1>1. TypeOK'
  BY WorkStep, ReportType DEF TypeOK
<1>2. ASSUME NEW c \in Calls PROVE CallInv(c)'
  <2>1. CallInv(c)
    BY InOrderParts
  <2>2. CASE c # call
    BY <2>1, <2>2, WorkStep DEF CallInv
  <2>3. CASE c = call
    BY <2>1, <2>3, WorkStep DEF CallInv
  <2> QED BY <2>2, <2>3
<1>3. ASSUME NEW a \in Calls, NEW b \in Calls PROVE Chain(a, b)'
  <2>1. Chain(a, b)
    BY InOrderParts
  <2> QED BY <2>1, WorkStep DEF Chain, Repeats
<1> QED BY <1>2, <1>1, <1>3 DEF InOrder, CallInv, Chain

\* A process that is killed.
LEMMA KillInv ==
    ASSUME TypeOK, InOrder, Kill
    PROVE  TypeOK' /\ InOrder'
<1>1. TypeOK'
  <2>1. /\ modeCounters' \in [{"safe", "full"} -> [Events -> Nat]]
        /\ errorCategories' \in [Categories -> Nat]
    BY DEF Kill, NoCounts, NoErrors
  <2>2. latencySamples' \in Seq(Nat) /\ latencies' \in Seq(Nat)
    <3>1. latencySamples' = <<>> /\ latencies' = <<>>
      BY DEF Kill
    <3> QED BY <3>1
  <2> QED BY <2>1, <2>2, KillStep DEF TypeOK
<1>2. ASSUME NEW c \in Calls PROVE CallInv(c)'
  <2>1. CallInv(c)
    BY InOrderParts
  <2>2. CASE phase[c] = "open"
    BY <2>1, <2>2, KillStep DEF CallInv, TypeOK
  <2>3. CASE phase[c] # "open"
    BY <2>1, <2>3, KillStep DEF CallInv
  <2> QED BY <2>2, <2>3
<1>3. ASSUME NEW a \in Calls, NEW b \in Calls PROVE Chain(a, b)'
  <2>1. Chain(a, b)
    BY InOrderParts
  <2> QED BY <2>1, KillStep DEF Chain, Repeats
<1> QED BY <1>1, <1>2, <1>3 DEF InOrder, CallInv, Chain

\* What is said of the guard holds of a call as long as its answer does.
LEMMA GuardKept ==
    ASSUME GuardAsDocumented, NEW c \in Calls, setting' = setting, told'[c] = told[c],
           c \in opened' <=> c \in opened
    PROVE  /\ c \in opened' \/ told'[c] = 403 => Entitled(c[1])'
           /\ told'[c] = 422 => Entitled(c[1])' \/ Asks(c)' = "garbled"
           /\ c \notin opened' /\ told'[c] = 401 => ~Entitled(c[1])'
           /\ c \notin opened' /\ told'[c] = 500 => ~ConfigReady' \/ CheckRaises(c[1])'
BY DEF GuardAsDocumented, Entitled, Valid, ConfigReady, CheckRaises, Asks

\* The guard decides by the setting alone, which never changes.
LEMMA GuardStep ==
    ASSUME IInv, Next
    PROVE  GuardAsDocumented'
<1> USE DEF IInv
<1>1. setting' = setting
  BY AnswerStep, AcceptStep, WorkStep, KillStep DEF Next, Answers, Works
<1>2. CASE Kill
  BY <1>1, <1>2, KillStep, GuardKept DEF GuardAsDocumented
<1>3. ASSUME NEW call \in Calls, Works(call) PROVE GuardAsDocumented'
  BY <1>1, <1>3, WorkStep, GuardKept DEF GuardAsDocumented
<1>4. ASSUME NEW call \in Calls, Accept(call) PROVE GuardAsDocumented'
  <2>1. Entitled(call[1]) /\ call[1] \in Clients
    BY <1>4, GuardFacts, CallFacts DEF Accept, TypeOK
  <2>2. Entitled(call[1])'
    BY <1>1, <2>1 DEF Entitled, Valid
  <2>3. call \in opened' /\ \A c \in Calls \ {call} : c \in opened' <=> c \in opened
    BY <1>4, AcceptStep
  <2>4. \A c \in Calls : told'[c] = told[c]
    BY <1>4, AcceptStep
  <2>5. told[call] = 422 => Entitled(call[1])' \/ Asks(call)' = "garbled"
    BY <1>1, <2>2
  <2> QED BY <1>1, <2>2, <2>3, <2>4, <2>5, GuardKept DEF GuardAsDocumented
<1>5. ASSUME NEW call \in Calls, Answers(call) PROVE GuardAsDocumented'
  <2>1. opened' = opened /\ \A c \in Calls \ {call} : told'[c] = told[c]
    BY <1>5, AnswerStep
  <2>2. /\ call \in opened' \/ told'[call] = 403 => Entitled(call[1])'
        /\ told'[call] = 422 => Entitled(call[1])' \/ Asks(call)' = "garbled"
        /\ call \notin opened' /\ told'[call] = 401 => ~Entitled(call[1])'
        /\ call \notin opened' /\ told'[call] = 500 => ~ConfigReady' \/ CheckRaises(call[1])'
    <3>1. call \in opened => Entitled(call[1])
      BY DEF GuardAsDocumented
    <3>2. CASE phase[call] = "open"
      <4>1. call \in opened
        BY <3>2, InOrderParts DEF CallInv
      <4>2. told'[call] = 422 => Entitled(call[1])
        BY <3>1, <4>1
      <4> QED BY <1>1, <2>1, <3>1, <4>1, <4>2 DEF Entitled, Valid
    <3>3. CASE phase[call] = "new"
      <4>1. call \notin opened
        BY <3>3, InOrderParts DEF CallInv
      <4>2. \/ Asks(call) = "garbled" /\ told'[call] \in {400, 422}
            \/ /\ told'[call] \in {GuardStatus(call[1]), 422, 403}
               /\ told'[call] \in {422, 403} => GuardStatus(call[1]) \in {0, 403, 422}
        <5>1. told \in [Calls -> Statuses \cup {0}]
          BY DEF TypeOK
        <5> QED BY <1>5, <3>3, <5>1 DEF Answers, Unreadable, Refuse, Reject, Forbid, Succeed,
                Fail, FailUncounted, Promise!Answer
      <4>3. /\ told'[call] = 403 => Entitled(call[1])
            /\ told'[call] = 422 => Entitled(call[1]) \/ Asks(call) = "garbled"
            /\ told'[call] = 401 => ~Entitled(call[1])
            /\ told'[call] = 500 => ~ConfigReady \/ CheckRaises(call[1])
        BY <4>2, GuardFacts, CallFacts DEF TypeOK
      <4> QED BY <1>1, <2>1, <4>1, <4>3 DEF Entitled, Valid, ConfigReady, CheckRaises, Asks
    <3> QED BY <1>5, <3>2, <3>3, AnswerStep
  <2> QED BY <1>1, <2>1, <2>2, GuardKept DEF GuardAsDocumented
<1> QED BY <1>2, <1>3, <1>4, <1>5 DEF Next, Answers, Works

\* The initial states.
LEMMA InitInv == Init => IInv
<1> SUFFICES ASSUME Init PROVE IInv
  OBVIOUS
<1>1. /\ phase = [c \in Calls |-> "new"] /\ taken = [c \in Calls |-> 0]
      /\ told = [c \in Calls |-> 0] /\ hidden = {} /\ opened = {} /\ before = {}
      /\ setting \in Settings /\ mayPost \subseteq Calls
  BY DEF Init, Promise!Init
<1>2. setting.earlier \in Nat
  <2>1. SampleLimit \in Nat
    BY ApiAssumption DEF SampleLimit
  <2> QED BY <1>1, <2>1, ApiAssumption
<1>3. TypeOK
  <2>1. latencies \in Seq(Nat) /\ latencySamples \in Seq(Nat)
    BY <1>2 DEF Init
  <2>2. modeCounters \in [{"safe", "full"} -> [Events -> Nat]]
    <3>1. [[e \in Events |-> 0] EXCEPT !["requests"] = setting.earlier,
                                       !["success"] = setting.earlier] \in [Events -> Nat]
      BY <1>2 DEF Events
    <3>2. modeCounters =
            [m \in {"safe", "full"} |->
               IF m = "safe" THEN [[e \in Events |-> 0] EXCEPT !["requests"] = setting.earlier,
                                                             !["success"] = setting.earlier]
               ELSE [e \in Events |-> 0]]
      BY DEF Init, NoCounts
    <3> QED BY <3>1, <3>2
  <2>3. errorCategories \in [Categories -> Nat]
    BY DEF Init, NoErrors
  <2> QED BY <1>1, <2>1, <2>2, <2>3 DEF TypeOK
<1>4. InOrder
  BY <1>1 DEF InOrder
<1>5. GuardAsDocumented
  BY <1>1 DEF GuardAsDocumented
<1> QED BY <1>3, <1>4, <1>5 DEF IInv

\* Every step keeps the invariant.
LEMMA NextInv == IInv /\ [Next]_vars => IInv'
<1> SUFFICES ASSUME IInv, [Next]_vars PROVE IInv'
  OBVIOUS
<1>1. CASE Next
  <2>1. TypeOK' /\ InOrder'
    BY <1>1, AnswerInv, AcceptInv, WorkInv, KillInv DEF IInv, Next, Answers, Works
  <2> QED BY <1>1, <2>1, GuardStep DEF IInv
<1>2. CASE UNCHANGED vars
  <2>1. UNCHANGED <<setting, mayPost, phase, taken, hidden, told, opened, before, modeCounters,
                    errorCategories, latencySamples, latencies>>
    BY <1>2 DEF vars, promise, report
  <2>2. TypeOK'
    BY <2>1 DEF IInv, TypeOK
  <2>3. InOrder'
    BY <2>1 DEF IInv, InOrder, Repeats
  <2>4. GuardAsDocumented'
    BY <2>1, GuardKept DEF IInv, GuardAsDocumented
  <2> QED BY <2>2, <2>3, <2>4 DEF IInv
<1> QED BY <1>1, <1>2

\* The inductive invariant of the API holds, for any number of clients and calls
\* (app/api/routes, app/core/security.py).
THEOREM Invariance == Spec => []IInv
BY InitInv, NextInv, PTL DEF Spec

\* Whoever calls, nothing gets past the guard without the credentials of the mode
\* (app/core/security.py, require_sensitive_auth).
THEOREM Guarded == Spec => []GuardAsDocumented
<1>1. IInv => GuardAsDocumented
  BY DEF IInv
<1> QED BY <1>1, Invariance, PTL

\* Of the calls of one client, at most one has submitted: the others were answered an
\* error before it, or come after it and are therefore not made.
LEMMA OncePosted ==
    ASSUME IInv, NEW client \in Clients, Of(client) \cap hidden = {},
           NEW call \in Of(client), taken[call] > 0
    PROVE  /\ taken[call] = 1
           /\ phase[call] \in {"open", "answered"}
           /\ phase[call] = "answered" => told[call] = 200
           /\ \A other \in Of(client) : taken[other] > 0 => call = other
<1>1. call \in Calls /\ call[1] = client /\ call \notin hidden
  BY OfFacts
<1>2. CallInv(call) /\ taken[call] \in 0..2 /\ phase[call] \in {"new", "open", "answered", "lost"}
  BY <1>1, InOrderParts DEF IInv, TypeOK
<1>3. ASSUME NEW a \in Of(client), NEW b \in Of(client), taken[a] > 0, taken[b] > 0
      PROVE  ~(a[2] < b[2])
  <2> SUFFICES ASSUME a[2] < b[2] PROVE FALSE
    OBVIOUS
  <2>1. /\ a \in Calls /\ b \in Calls /\ a[1] = b[1] /\ a \notin hidden
        /\ CallInv(a) /\ CallInv(b) /\ Chain(a, b)
    BY OfFacts, InOrderParts DEF IInv
  <2>2. phase[b] # "new"
    BY <1>3, <2>1 DEF CallInv
  <2>3. Repeats(a)
    BY <2>1, <2>2 DEF Chain
  <2> QED BY <1>3, <2>1, <2>3 DEF CallInv, Repeats
<1>4. ASSUME NEW other \in Of(client), taken[other] > 0 PROVE call = other
  <2>1. other \in Calls /\ other[1] = client
    BY OfFacts
  <2>2. call[2] \in Int /\ other[2] \in Int
    BY <1>1, <2>1, CallFacts, ApiAssumption
  <2>3. ~(call[2] < other[2]) /\ ~(other[2] < call[2])
    BY <1>3, <1>4
  <2> QED BY <1>1, <2>1, <2>2, <2>3, SameCall
<1> QED BY <1>1, <1>2, <1>4 DEF CallInv

\* However often a client calls, its waybill is submitted once, and once for its
\* 200, unless a call was killed or in doubt (waybill_service.py:153).
THEOREM SubmittedOnce == Spec => []SubmitsOnce
<1>1. IInv => SubmitsOnce
  <2> SUFFICES ASSUME IInv, NEW client \in Clients, Of(client) \cap hidden = {}
               PROVE  /\ \A call, other \in {c \in Of(client) : taken[c] > 0} :
                              taken[call] = 1 /\ call = other
                      /\ (\A call \in Of(client) : phase[call] # "open")
                         /\ Of(client) \subseteq mayPost
                           => ((\E call \in Of(client) : told[call] = 200)
                                  <=> {c \in Of(client) : taken[c] > 0} # {})
    BY DEF SubmitsOnce
  <2>1. \A call, other \in {c \in Of(client) : taken[c] > 0} : taken[call] = 1 /\ call = other
    BY OncePosted
  <2>2. ASSUME \A call \in Of(client) : phase[call] # "open", Of(client) \subseteq mayPost,
               NEW call \in Of(client)
        PROVE  told[call] = 200 <=> taken[call] > 0
    <3>1. call \in Calls /\ call \in mayPost \ hidden
      BY <2>2, OfFacts
    <3>2. CallInv(call) /\ taken[call] \in 0..2
      BY <3>1, InOrderParts DEF IInv, TypeOK
    <3>3. told[call] = 200 => taken[call] > 0
      BY <3>1, <3>2 DEF CallInv
    <3>4. taken[call] > 0 => told[call] = 200
      BY <2>2, OncePosted
    <3> QED BY <3>3, <3>4
  <2> QED BY <2>1, <2>2
<1> QED BY <1>1, Invariance, PTL

----------------------------------------------------------------------------
(* The latest samples                                                       *)

\* The smaller of two lengths.
LEMMA MinFact ==
    ASSUME NEW a \in Nat, NEW b \in Nat
    PROVE  Min({a, b}) = IF a <= b THEN a ELSE b
BY DEF Min

\* What SubSeq returns, for the end of a sequence.
LEMMA EndOf ==
    ASSUME NEW l \in Seq(Nat), NEW k \in 0..Len(l)
    PROVE  /\ SubSeq(l, k + 1, Len(l)) \in Seq(Nat)
           /\ Len(SubSeq(l, k + 1, Len(l))) = Len(l) - k
           /\ \A i \in 1..Len(l) - k : SubSeq(l, k + 1, Len(l))[i] = l[k + i]
OBVIOUS

\* The last elements of a sequence, element by element; k are before them.
LEMMA LastElements ==
    ASSUME NEW s \in Seq(Nat), NEW l \in Seq(Nat), NEW k \in Nat, Len(l) = k + Len(s)
    PROVE  s = SubSeq(l, Len(l) - Len(s) + 1, Len(l)) <=> \A i \in 1..Len(s) : s[i] = l[k + i]
<1> DEFINE t == SubSeq(l, k + 1, Len(l))
<1>1. k \in 0..Len(l) /\ Len(l) - Len(s) = k /\ Len(l) - k = Len(s)
  OBVIOUS
<1>2. /\ t \in Seq(Nat) /\ Len(t) = Len(l) - k
      /\ \A i \in 1..Len(l) - k : t[i] = l[k + i]
  BY <1>1, EndOf
<1>3. (\A i \in 1..Len(s) : s[i] = t[i]) => s = t
  <2> HIDE DEF t
  <2> QED BY <1>1, <1>2
<1> QED BY <1>1, <1>2, <1>3

\* What Append does.
LEMMA AppendFacts ==
    ASSUME NEW l \in Seq(Nat), NEW x \in Nat
    PROVE  /\ Append(l, x) \in Seq(Nat) /\ Len(Append(l, x)) = Len(l) + 1
           /\ Append(l, x)[Len(l) + 1] = x
           /\ \A j \in 1..Len(l) : Append(l, x)[j] = l[j]
OBVIOUS

\* Of a full deque the oldest sample makes room for the latest; k latencies are older
\* than all its samples.
LEMMA RoomMade ==
    ASSUME NEW s \in Seq(Nat), NEW l \in Seq(Nat), NEW x \in Nat, NEW k \in Nat,
           s # <<>>, Len(l) = k + Len(s),
           \A i \in 1..Len(s) : s[i] = l[k + i]
    PROVE  LET t == Append(Tail(s), x)
           IN  /\ t \in Seq(Nat) /\ Len(t) = Len(s)
               /\ \A i \in 1..Len(s) : t[i] = Append(l, x)[k + 1 + i]
<1> DEFINE t == Append(Tail(s), x)
<1>1. Len(s) \in Nat \ {0}
  OBVIOUS
<1>2. /\ t \in Seq(Nat) /\ Len(t) = Len(s)
      /\ \A i \in 1..Len(s) : t[i] = IF i = Len(s) THEN x ELSE s[i + 1]
  OBVIOUS
<1>3. /\ Append(l, x)[Len(l) + 1] = x
      /\ \A j \in 1..Len(l) : Append(l, x)[j] = l[j]
  BY AppendFacts
<1>4. ASSUME NEW i \in 1..Len(s) PROVE t[i] = Append(l, x)[k + 1 + i]
  <2>1. CASE i = Len(s)
    <3>1. k + 1 + i = Len(l) + 1
      BY <2>1
    <3> QED BY <1>2, <1>3, <2>1, <3>1
  <2>2. CASE i # Len(s)
    <3>1. i + 1 \in 1..Len(s) /\ k + (i + 1) \in 1..Len(l) /\ k + 1 + i = k + (i + 1)
      BY <1>1, <2>2
    <3>2. s[i + 1] = l[k + (i + 1)]
      BY <3>1
    <3> QED BY <1>2, <1>3, <2>2, <3>1, <3>2
  <2> QED BY <2>1, <2>2
<1> QED BY <1>2, <1>4

\* The bound on the samples.
LEMMA LimitType == SampleLimit \in Nat \ {0}
BY ApiAssumption DEF SampleLimit

\* What LatestSamples says of s and l, element by element; k latencies are older.
Latest(s, l, k) ==
    /\ Len(l) = k + Len(s)
    /\ \A i \in 1..Len(s) : s[i] = l[k + i]
    /\ Len(s) = IF Len(l) <= SampleLimit THEN Len(l) ELSE SampleLimit

LEMMA LatestPointwise ==
    ASSUME NEW s \in Seq(Nat), NEW l \in Seq(Nat)
    PROVE  (/\ s = SubSeq(l, Len(l) - Len(s) + 1, Len(l))
            /\ Len(s) = Min({Len(l), SampleLimit}))
           <=> \E k \in Nat : Latest(s, l, k)
<1>1. Min({Len(l), SampleLimit}) = IF Len(l) <= SampleLimit THEN Len(l) ELSE SampleLimit
  <2>1. Len(l) \in Nat /\ SampleLimit \in Nat
    BY LimitType
  <2> HIDE DEF SampleLimit
  <2> QED BY <2>1, MinFact
<1>2. ASSUME NEW k \in Nat, Latest(s, l, k)
      PROVE  s = SubSeq(l, Len(l) - Len(s) + 1, Len(l))
  BY <1>2, LastElements DEF Latest
<1>3. ASSUME Len(s) = Min({Len(l), SampleLimit}),
             s = SubSeq(l, Len(l) - Len(s) + 1, Len(l))
      PROVE  Latest(s, l, Len(l) - Len(s)) /\ Len(l) - Len(s) \in Nat
  <2>1. Len(s) = IF Len(l) <= SampleLimit THEN Len(l) ELSE SampleLimit
    BY <1>1, <1>3
  <2>2. Len(l) - Len(s) \in Nat /\ Len(l) = (Len(l) - Len(s)) + Len(s)
    BY <2>1, LimitType
  <2>3. \A i \in 1..Len(s) : s[i] = l[(Len(l) - Len(s)) + i]
    BY <1>3, <2>2, LastElements
  <2> QED BY <2>1, <2>2, <2>3 DEF Latest
<1> QED BY <1>1, <1>2, <1>3 DEF Latest

\* While there is room, the samples are all the latencies.
LEMMA SampledAll ==
    ASSUME NEW s \in Seq(Nat), NEW l \in Seq(Nat), NEW x \in Nat, NEW k \in Nat,
           Latest(s, l, k), Len(s) < SampleLimit
    PROVE  Latest(Append(s, x), Append(l, x), 0)
<1>1. Len(s) \in Nat /\ Len(l) \in Nat /\ SampleLimit \in Nat
  BY LimitType
<1>2. Len(l) = Len(s) /\ k = 0
  BY <1>1 DEF Latest
<1>3. \A i \in 1..Len(s) : s[i] = l[i]
  BY <1>2 DEF Latest
<1>4. s = l
  BY <1>2, <1>3
<1>5. Append(s, x) = Append(l, x) /\ Len(Append(l, x)) = Len(s) + 1
  BY <1>4
<1>6. Len(s) + 1 <= SampleLimit
  BY <1>1
<1> QED BY <1>5, <1>6, <1>1 DEF Latest

\* When there is none, one more latency is older than all of them.
LEMMA SampledLatest ==
    ASSUME NEW s \in Seq(Nat), NEW l \in Seq(Nat), NEW x \in Nat, NEW k \in Nat,
           Latest(s, l, k), ~(Len(s) < SampleLimit)
    PROVE  Latest(Append(Tail(s), x), Append(l, x), k + 1)
<1> DEFINE t == Append(Tail(s), x)
           m == Append(l, x)
<1>1. Len(s) \in Nat /\ Len(l) \in Nat /\ SampleLimit \in Nat \ {0}
  BY LimitType
<1>2. Len(s) = SampleLimit /\ Len(l) = k + Len(s) /\ \A i \in 1..Len(s) : s[i] = l[k + i]
  BY <1>1 DEF Latest
<1>3. s # <<>>
  BY <1>1, <1>2
<1>4. /\ t \in Seq(Nat) /\ Len(t) = Len(s)
      /\ \A i \in 1..Len(s) : t[i] = m[k + 1 + i]
  BY <1>2, <1>3, RoomMade
<1>5. Len(m) = Len(l) + 1
  BY AppendFacts
<1> HIDE DEF t, m
<1>6. Len(m) = (k + 1) + Len(t) /\ Len(m) > SampleLimit /\ Len(t) = SampleLimit
  BY <1>1, <1>2, <1>4, <1>5
<1>7. \A i \in 1..Len(t) : t[i] = m[k + 1 + i]
  BY <1>4
<1>8. Latest(t, m, k + 1)
  BY <1>1, <1>6, <1>7 DEF Latest
<1> QED BY <1>8 DEF t, m

\* So does a success.
LEMMA LatestRecorded ==
    ASSUME TypeOK, LatestSamples, NEW call \in Calls, RecordSuccess(call)
    PROVE  LatestSamples'
<1>1. PICK x \in Latencies : /\ latencySamples' = Sampled(latencySamples, x)
                             /\ latencies' = Append(latencies, x)
  BY DEF RecordSuccess
<1>2. x \in Nat /\ latencySamples \in Seq(Nat) /\ latencies \in Seq(Nat)
  BY ApiAssumption DEF TypeOK
<1> DEFINE s == latencySamples
           l == latencies
<1>3. PICK k \in Nat : Latest(s, l, k)
  BY <1>2, LatestPointwise DEF LatestSamples
<1>4. \E n \in Nat : Latest(Sampled(s, x), Append(l, x), n)
  <2>1. CASE Len(s) < SampleLimit
    BY <1>2, <1>3, <2>1, SampledAll DEF Sampled
  <2>2. CASE ~(Len(s) < SampleLimit)
    BY <1>2, <1>3, <2>2, SampledLatest DEF Sampled
  <2> QED BY <2>1, <2>2
<1>5. latencySamples' \in Seq(Nat) /\ latencies' \in Seq(Nat)
  BY SuccessType
<1>6. \E n \in Nat : Latest(latencySamples', latencies', n)
  BY <1>1, <1>4
<1> QED BY <1>5, <1>6, LatestPointwise DEF LatestSamples

----------------------------------------------------------------------------
(* The counters                                                             *)

\* There are finitely many calls, and so of every kind.
LEMMA FiniteCalls ==
    ASSUME TypeOK, NEW m
    PROVE  /\ IsFiniteSet(Ours(m)) /\ IsFiniteSet(Ended(m)) /\ IsFiniteSet(Good(m))
           /\ Cardinality(Ours(m)) \in Nat /\ Cardinality(Ended(m)) \in Nat
           /\ Cardinality(Good(m)) \in Nat
<1>1. IsFiniteSet(Calls)
  <2>1. IsFiniteSet(Clients) /\ IsFiniteSet(1..MaxCalls)
    BY ApiAssumption, FS_Interval
  <2> QED BY <2>1, FS_Product DEF Calls
<1>2. Ours(m) \subseteq Calls /\ Ended(m) \subseteq Calls /\ Good(m) \subseteq Calls
  BY DEF Ours, Ended, Good, TypeOK
<1> QED BY <1>1, <1>2, FS_Subset, FS_CardinalityType

\* Counters are what their three entries are.
LEMMA CountersAre ==
    ASSUME NEW f \in [Events -> Nat], NEW q, NEW g, NEW b
    PROVE  f = [requests |-> q, success |-> g, failure |-> b]
               <=> f["requests"] = q /\ f["success"] = g /\ f["failure"] = b
BY DEF Events

\* CountsOf, entry by entry.
LEMMA CountsAre ==
    ASSUME TypeOK, NEW m \in {"safe", "full"}
    PROVE  CountsOf(m) <=>
               /\ modeCounters[m]["requests"] = Cardinality(Ours(m)) + Earlier(m)
               /\ modeCounters[m]["success"] = Cardinality(Good(m)) + Earlier(m)
               /\ modeCounters[m]["failure"] = Cardinality(Ended(m)) - Cardinality(Good(m))
<1>1. modeCounters[m] \in [Events -> Nat]
  BY DEF TypeOK
<1> QED BY <1>1, CountersAre DEF CountsOf

\* An event is counted once, in its mode.
LEMMA CountStep ==
    ASSUME TypeOK, NEW call \in Calls, NEW event \in Events, Count(call, event)
    PROVE  \A m \in {"safe", "full"}, e \in Events :
               modeCounters'[m][e] = modeCounters[m][e]
                                     + IF m = Mode(call) /\ e = event THEN 1 ELSE 0
<1>1. Mode(call) \in {"safe", "full"} /\ modeCounters \in [{"safe", "full"} -> [Events -> Nat]]
  BY DEF Mode, TypeOK
<1>2. modeCounters' = [modeCounters EXCEPT ![Mode(call)] = [modeCounters[Mode(call)] EXCEPT ![event] = @ + 1]]
  BY DEF Count
<1> QED BY <1>1, <1>2

\* A failure is put into one category.
LEMMA CategoryStep ==
    ASSUME TypeOK, NEW call \in Calls, NEW s \in {400, 401, 500, 503}, RecordFailure(call, s)
    PROVE  Categorised' = Categorised + 1
<1>1. PICK c \in CategoriesOf(s) : errorCategories' = [errorCategories EXCEPT ![c] = @ + 1]
  BY DEF RecordFailure
<1>2. c \in Categories
  BY <1>1 DEF CategoriesOf, Categories
<1>3. \A d \in Categories : /\ errorCategories[d] \in Nat
                            /\ errorCategories'[d] = errorCategories[d] + IF d = c THEN 1 ELSE 0
  BY <1>1, <1>2 DEF TypeOK
<1> QED BY <1>2, <1>3 DEF Categorised, Categories

\* What stays of the figures if nothing that they count changes.
LEMMA FiguresKept ==
    ASSUME TypeOK, UNCHANGED <<setting, before, report>>,
           \A m \in {"safe", "full"} :
               Ours(m)' = Ours(m) /\ Ended(m)' = Ended(m) /\ Good(m)' = Good(m),
           TelemetryExact
    PROVE  TelemetryExact'
<1>1. Earlier("safe")' = Earlier("safe") /\ Earlier("full")' = Earlier("full")
  BY DEF Earlier
<1> QED BY <1>1 DEF TelemetryExact, LatestSamples, CountsOf, Categorised, report

\* An answer ends a call that counts, if it was open; nothing else ends.
LEMMA EndedStep ==
    ASSUME TypeOK, InOrder, NEW call \in Calls, Answers(call), NEW m
    PROVE  /\ Ours(m)' = Ours(m)
           /\ call \notin Ours(m) => Ended(m)' = Ended(m) /\ Good(m)' = Good(m)
           /\ call \in Ours(m) =>
                  /\ call \notin Ended(m) /\ call \notin Good(m)
                  /\ Ended(m)' = Ended(m) \cup {call}
                  /\ Good(m)' = IF told'[call] = 200 THEN Good(m) \cup {call} ELSE Good(m)
<1>1. UNCHANGED <<setting, opened, before>>
  BY AnswerStep
<1>2. /\ \A c \in Calls \ {call} : phase'[c] = phase[c] /\ told'[c] = told[c]
      /\ phase'[call] = "answered" /\ phase[call] \in {"new", "open"}
  BY AnswerStep
<1>3. Ours(m)' = Ours(m) /\ Ours(m) \subseteq Calls
  BY <1>1 DEF Ours, Asks, Mode, TypeOK
<1> QED BY <1>2, <1>3 DEF Ended, Good

\* Accepting a call adds it to those that count, unless it is for detect_map.
LEMMA OursStep ==
    ASSUME TypeOK, InOrder, NEW call \in Calls, Accept(call), NEW m
    PROVE  /\ call \notin Ours(m)
           /\ Ours(m)' = IF Asks(call) # "detect" /\ Mode(call) = m THEN Ours(m) \cup {call}
                         ELSE Ours(m)
           /\ Ended(m)' = Ended(m) /\ Good(m)' = Good(m)
<1>1. UNCHANGED <<setting, before, told>> /\ opened' = opened \cup {call}
  BY AcceptStep
<1>2. /\ \A c \in Calls \ {call} : phase'[c] = phase[c]
      /\ phase[call] = "new" /\ phase'[call] = "open"
  BY AcceptStep
<1>3. call \notin opened /\ call \notin before /\ opened \subseteq Calls
  BY <1>2 DEF InOrder, TypeOK
<1>4. /\ call \notin Ours(m) /\ Ours(m) \subseteq Calls
      /\ Ours(m)' = IF Asks(call) # "detect" /\ Mode(call) = m THEN Ours(m) \cup {call}
                    ELSE Ours(m)
  BY <1>1, <1>3 DEF Ours, Asks, Mode
<1> QED BY <1>1, <1>2, <1>4 DEF Ended, Good

\* One more.
LEMMA OneMore ==
    ASSUME NEW S, IsFiniteSet(S), NEW x, x \notin S
    PROVE  Cardinality(S \cup {x}) = Cardinality(S) + 1
BY FS_AddElement

\* The counters of a mode stay right if each grows by what its set does: q requests, g
\* successes and b failures.
LEMMA CountsGrow ==
    ASSUME NEW m \in {"safe", "full"}, NEW q \in Nat, NEW g \in Nat, NEW b \in Nat,
           TypeOK, CountsOf(m), UNCHANGED <<setting, before>>,
           modeCounters' \in [{"safe", "full"} -> [Events -> Nat]],
           Cardinality(Ours(m)') = Cardinality(Ours(m)) + q,
           Cardinality(Good(m)') = Cardinality(Good(m)) + g,
           Cardinality(Ended(m)') = Cardinality(Ended(m)) + g + b,
           modeCounters'[m]["requests"] = modeCounters[m]["requests"] + q,
           modeCounters'[m]["success"] = modeCounters[m]["success"] + g,
           modeCounters'[m]["failure"] = modeCounters[m]["failure"] + b
    PROVE  CountsOf(m)'
<1>1. /\ Cardinality(Ours(m)) \in Nat /\ Cardinality(Ended(m)) \in Nat
      /\ Cardinality(Good(m)) \in Nat
  BY FiniteCalls
<1>2. Earlier(m)' = Earlier(m) /\ Earlier(m) \in Nat
  BY ApiAssumption DEF Earlier, TypeOK
<1>3. /\ modeCounters[m]["requests"] = Cardinality(Ours(m)) + Earlier(m)
      /\ modeCounters[m]["success"] = Cardinality(Good(m)) + Earlier(m)
      /\ modeCounters[m]["failure"] = Cardinality(Ended(m)) - Cardinality(Good(m))
  BY CountsAre
<1>4. /\ modeCounters'[m]["requests"] = Cardinality(Ours(m)') + Earlier(m)'
      /\ modeCounters'[m]["success"] = Cardinality(Good(m)') + Earlier(m)'
      /\ modeCounters'[m]["failure"] = Cardinality(Ended(m)') - Cardinality(Good(m)')
  BY <1>1, <1>2, <1>3
<1>5. modeCounters'[m] \in [Events -> Nat]
  OBVIOUS
<1> QED BY <1>4, <1>5, CountersAre DEF CountsOf

\* An accepted call is a request of its mode.
LEMMA AcceptCounted ==
    ASSUME TypeOK, InOrder, TelemetryExact, NEW call \in Calls, Accept(call)
    PROVE  TelemetryExact'
<1>1. /\ UNCHANGED <<setting, before, errorCategories, latencySamples, latencies>>
      /\ modeCounters' \in [{"safe", "full"} -> [Events -> Nat]]
  BY ReportType DEF Accept
<1>2. LatestSamples'
  BY <1>1 DEF LatestSamples, TelemetryExact
<1> SUFFICES ASSUME "db" \notin setting.faults
             PROVE  /\ CountsOf("safe")' /\ CountsOf("full")'
                    /\ Categorised' = modeCounters'["safe"]["failure"]
                                          + modeCounters'["full"]["failure"]
  BY <1>1, <1>2 DEF TelemetryExact
<1> DEFINE Adds(m) == IF Asks(call) # "detect" /\ Mode(call) = m THEN 1 ELSE 0
<1>3. ASSUME NEW m \in {"safe", "full"}
      PROVE  /\ modeCounters'[m]["requests"] = modeCounters[m]["requests"] + Adds(m)
             /\ modeCounters'[m]["success"] = modeCounters[m]["success"] + 0
             /\ modeCounters'[m]["failure"] = modeCounters[m]["failure"] + 0
  <2>1. modeCounters[m] \in [Events -> Nat]
    BY DEF TypeOK
  <2>2. CASE Asks(call) = "detect"
    BY <2>1, <2>2 DEF Accept, Events
  <2>3. CASE Asks(call) # "detect"
    <3>1. Count(call, "requests")
      BY <2>3 DEF Accept
    <3> QED BY <2>1, <2>3, <3>1, CountStep DEF Events
  <2> QED BY <2>2, <2>3
<1>4. ASSUME NEW m \in {"safe", "full"} PROVE CountsOf(m)'
  <2>1. /\ Cardinality(Ours(m)) \in Nat /\ Cardinality(Ended(m)) \in Nat
        /\ Cardinality(Good(m)) \in Nat /\ IsFiniteSet(Ours(m))
    BY FiniteCalls
  <2>2. Cardinality(Ours(m)') = Cardinality(Ours(m)) + Adds(m)
    BY <2>1, OursStep, OneMore
  <2>3. /\ Cardinality(Good(m)') = Cardinality(Good(m)) + 0
        /\ Cardinality(Ended(m)') = Cardinality(Ended(m)) + 0 + 0
    BY <2>1, OursStep
  <2>4. CountsOf(m) /\ Adds(m) \in Nat
    BY <1>4 DEF TelemetryExact
  <2> HIDE DEF Adds
  <2> QED BY <1>1, <1>3, <2>2, <2>3, <2>4, CountsGrow
<1>5. Categorised' = Categorised
  BY <1>1 DEF Categorised
<1>6. \A m \in {"safe", "full"} : modeCounters'[m]["failure"] = modeCounters[m]["failure"]
  <2>1. \A m \in {"safe", "full"} : modeCounters[m]["failure"] \in Nat
    BY DEF TypeOK, Events
  <2> QED BY <1>3, <2>1
<1> QED BY <1>4, <1>5, <1>6 DEF TelemetryExact

\* A success is counted once, in its mode.
LEMMA SuccessCounted ==
    ASSUME TypeOK, InOrder, TelemetryExact, NEW call \in Calls,
           Succeed(call), Asks(call) # "detect"
    PROVE  TelemetryExact'
<1>1. RecordSuccess(call) /\ UNCHANGED <<setting, before, errorCategories>> /\ Answers(call)
  BY DEF Succeed, RecordSuccess, Answers
<1>2. LatestSamples' /\ modeCounters' \in [{"safe", "full"} -> [Events -> Nat]]
  BY <1>1, LatestRecorded, SuccessType DEF TelemetryExact
<1> SUFFICES ASSUME "db" \notin setting.faults
             PROVE  /\ CountsOf("safe")' /\ CountsOf("full")'
                    /\ Categorised' = modeCounters'["safe"]["failure"]
                                          + modeCounters'["full"]["failure"]
  BY <1>1, <1>2 DEF TelemetryExact
<1>3. phase[call] = "open" /\ told'[call] = 200
  BY DEF Succeed, Promise!Answer, TypeOK
<1>4. \A m \in {"safe", "full"} : call \in Ours(m) <=> Mode(call) = m
  BY <1>3 DEF Ours, InOrder
<1> DEFINE Adds(m) == IF Mode(call) = m THEN 1 ELSE 0
<1>5. ASSUME NEW m \in {"safe", "full"}
      PROVE  /\ modeCounters'[m]["requests"] = modeCounters[m]["requests"] + 0
             /\ modeCounters'[m]["success"] = modeCounters[m]["success"] + Adds(m)
             /\ modeCounters'[m]["failure"] = modeCounters[m]["failure"] + 0
  BY <1>1, CountStep DEF Events, RecordSuccess
<1>6. ASSUME NEW m \in {"safe", "full"} PROVE CountsOf(m)'
  <2>1. /\ Cardinality(Ours(m)) \in Nat /\ Cardinality(Ended(m)) \in Nat
        /\ Cardinality(Good(m)) \in Nat /\ IsFiniteSet(Ended(m)) /\ IsFiniteSet(Good(m))
    BY FiniteCalls
  <2>2. Cardinality(Ours(m)') = Cardinality(Ours(m)) + 0
    BY <1>1, <2>1, EndedStep
  <2>3. Cardinality(Good(m)') = Cardinality(Good(m)) + Adds(m)
    BY <1>1, <1>3, <1>4, <2>1, EndedStep, OneMore
  <2>4. Cardinality(Ended(m)') = Cardinality(Ended(m)) + Adds(m) + 0
    BY <1>1, <1>3, <1>4, <2>1, EndedStep, OneMore
  <2>5. CountsOf(m) /\ Adds(m) \in Nat
    BY <1>6 DEF TelemetryExact
  <2> HIDE DEF Adds
  <2> QED BY <1>1, <1>2, <1>5, <2>2, <2>3, <2>4, <2>5, CountsGrow
<1>7. Categorised' = Categorised
  BY <1>1 DEF Categorised
<1>8. \A m \in {"safe", "full"} : modeCounters'[m]["failure"] = modeCounters[m]["failure"]
  <2>1. \A m \in {"safe", "full"} : modeCounters[m]["failure"] \in Nat
    BY DEF TypeOK, Events
  <2> QED BY <1>5, <2>1
<1> QED BY <1>6, <1>7, <1>8 DEF TelemetryExact

\* A failure is counted once, in its mode and in one category.
LEMMA FailureCounted ==
    ASSUME TypeOK, InOrder, TelemetryExact, NEW call \in Calls, Fail(call)
    PROVE  TelemetryExact'
<1>1. PICK s \in {400, 401, 500, 503} : RecordFailure(call, s)
  BY DEF Fail
<1>2. /\ Count(call, "failure") /\ Answers(call)
      /\ UNCHANGED <<setting, before, latencySamples, latencies>>
  BY <1>1 DEF Fail, RecordFailure, Answers
<1>3. modeCounters' \in [{"safe", "full"} -> [Events -> Nat]]
  BY <1>1, FailureType
<1>10. LatestSamples'
  <2>1. LatestSamples
    BY DEF TelemetryExact
  <2> QED BY <1>2, <2>1 DEF LatestSamples
<1> SUFFICES ASSUME "db" \notin setting.faults
             PROVE  /\ CountsOf("safe")' /\ CountsOf("full")'
                    /\ Categorised' = modeCounters'["safe"]["failure"]
                                          + modeCounters'["full"]["failure"]
  BY <1>2, <1>10 DEF TelemetryExact
<1>4. phase[call] = "open" /\ told'[call] # 200
  BY DEF Fail, Promise!Answer, TypeOK
<1>5. \A m \in {"safe", "full"} : call \in Ours(m) <=> Mode(call) = m
  BY <1>4 DEF Ours, InOrder, Fail
<1> DEFINE Adds(m) == IF Mode(call) = m THEN 1 ELSE 0
<1>6. ASSUME NEW m \in {"safe", "full"}
      PROVE  /\ modeCounters'[m]["requests"] = modeCounters[m]["requests"] + 0
             /\ modeCounters'[m]["success"] = modeCounters[m]["success"] + 0
             /\ modeCounters'[m]["failure"] = modeCounters[m]["failure"] + Adds(m)
  BY <1>2, CountStep DEF Events
<1>7. ASSUME NEW m \in {"safe", "full"} PROVE CountsOf(m)'
  <2>1. /\ Cardinality(Ours(m)) \in Nat /\ Cardinality(Ended(m)) \in Nat
        /\ Cardinality(Good(m)) \in Nat /\ IsFiniteSet(Ended(m))
    BY FiniteCalls
  <2>2. Cardinality(Ours(m)') = Cardinality(Ours(m)) + 0
    BY <1>2, <2>1, EndedStep
  <2>3. Cardinality(Good(m)') = Cardinality(Good(m)) + 0
    BY <1>2, <1>4, <1>5, <2>1, EndedStep
  <2>4. Cardinality(Ended(m)') = Cardinality(Ended(m)) + 0 + Adds(m)
    BY <1>2, <1>4, <1>5, <2>1, EndedStep, OneMore
  <2>5. CountsOf(m) /\ Adds(m) \in Nat
    BY <1>7 DEF TelemetryExact
  <2> HIDE DEF Adds
  <2> QED BY <1>2, <1>3, <1>6, <2>2, <2>3, <2>4, <2>5, CountsGrow
<1>8. Categorised' = Categorised + 1
  BY <1>1, CategoryStep
<1>9. modeCounters'["safe"]["failure"] + modeCounters'["full"]["failure"]
          = modeCounters["safe"]["failure"] + modeCounters["full"]["failure"] + 1
  <2>1. \A m \in {"safe", "full"} : modeCounters[m]["failure"] \in Nat
    BY DEF TypeOK, Events
  <2>2. Mode(call) \in {"safe", "full"}
    BY DEF Mode
  <2> QED BY <1>6, <2>1, <2>2
<1> QED BY <1>7, <1>8, <1>9 DEF TelemetryExact

\* A killed process leaves no figures, and no calls that count.
LEMMA KillCounted ==
    ASSUME TypeOK, InOrder, Kill
    PROVE  TelemetryExact'
<1>1. /\ modeCounters' = NoCounts /\ errorCategories' = NoErrors
      /\ latencySamples' = <<>> /\ latencies' = <<>>
      /\ UNCHANGED opened /\ before' = opened
  BY DEF Kill
<1>2. PICK call \in Calls : phase[call] = "open"
  BY DEF Kill
<1>3. before' # {} /\ opened' \ before' = {}
  BY <1>1, <1>2 DEF InOrder
<1>4. \A m \in {"safe", "full"} :
         Ours(m)' = {} /\ Ended(m)' = {} /\ Good(m)' = {} /\ Earlier(m)' = 0
  BY <1>3 DEF Ours, Ended, Good, Earlier
<1>5. Cardinality({}) = 0
  BY FS_EmptySet
<1>6. ASSUME NEW m \in {"safe", "full"} PROVE CountsOf(m)'
  <2>1. modeCounters'[m] \in [Events -> Nat] /\ \A e \in Events : modeCounters'[m][e] = 0
    BY <1>1 DEF NoCounts
  <2> QED BY <1>4, <1>5, <2>1, CountersAre DEF CountsOf, Events
<1>7. /\ Categorised' = 0
      /\ modeCounters'["safe"]["failure"] = 0 /\ modeCounters'["full"]["failure"] = 0
  BY <1>1 DEF Categorised, NoErrors, NoCounts, Categories, Events
<1>8. LatestSamples'
  <2>1. Latest(latencySamples', latencies', 0) /\ <<>> \in Seq(Nat)
    BY <1>1, LimitType DEF Latest
  <2> QED BY <1>1, <2>1, LatestPointwise DEF LatestSamples
<1> QED BY <1>6, <1>7, <1>8 DEF TelemetryExact

\* What detect_map, a refused call and work at the site leave as it is.
LEMMA Uncounted ==
    ASSUME TypeOK, InOrder, TelemetryExact, NEW call \in Calls,
           UNCHANGED report,
           \/ Answers(call) /\ (phase[call] = "new" \/ Asks(call) = "detect")
           \/ Works(call)
    PROVE  TelemetryExact'
<1>1. CASE Answers(call) /\ (phase[call] = "new" \/ Asks(call) = "detect")
  <2>1. \A m \in {"safe", "full"} : call \notin Ours(m)
    BY <1>1 DEF Ours, InOrder
  <2>2. \A m \in {"safe", "full"} :
           Ours(m)' = Ours(m) /\ Ended(m)' = Ended(m) /\ Good(m)' = Good(m)
    BY <1>1, <2>1, EndedStep
  <2>3. UNCHANGED <<setting, before>>
    BY <1>1, AnswerStep
  <2> QED BY <2>2, <2>3, FiguresKept
<1>2. CASE Works(call)
  <2>1. UNCHANGED <<setting, phase, told, opened, before>>
    BY <1>2, WorkStep
  <2>2. \A m \in {"safe", "full"} :
           Ours(m)' = Ours(m) /\ Ended(m)' = Ended(m) /\ Good(m)' = Good(m)
    BY <2>1 DEF Ours, Ended, Good, Asks, Mode
  <2> QED BY <2>1, <2>2, FiguresKept
<1> QED BY <1>1, <1>2

\* Where commits fail, only the samples are exact.
LEMMA OnlySamples ==
    ASSUME TypeOK, TelemetryExact, "db" \in setting.faults, UNCHANGED setting,
           NEW call \in Calls,
           RecordSuccess(call) \/ UNCHANGED <<latencySamples, latencies>>
    PROVE  TelemetryExact'
<1>1. LatestSamples'
  <2>1. CASE RecordSuccess(call)
    BY <2>1, LatestRecorded DEF TelemetryExact
  <2>2. CASE UNCHANGED <<latencySamples, latencies>>
    BY <2>2 DEF TelemetryExact, LatestSamples
  <2> QED BY <2>1, <2>2
<1> QED BY <1>1 DEF TelemetryExact

\* Every step keeps the figures exact.
LEMMA TelemetryStep ==
    IInv /\ TelemetryExact /\ [Next]_vars => TelemetryExact'
<1> SUFFICES ASSUME TypeOK, InOrder, TelemetryExact, [Next]_vars PROVE TelemetryExact'
  BY DEF IInv
<1>1. ASSUME NEW call \in Calls,
             Unreadable(call) \/ Refuse(call) \/ Reject(call) \/ Forbid(call)
      PROVE  TelemetryExact'
  <2>1. UNCHANGED report /\ Answers(call) /\ phase[call] = "new"
    BY <1>1 DEF Unreadable, Refuse, Reject, Forbid, Sent, Answers
  <2> QED BY <2>1, Uncounted
<1>2. ASSUME NEW call \in Calls, Accept(call) PROVE TelemetryExact'
  BY <1>2, AcceptCounted
<1>3. ASSUME NEW call \in Calls, Work(call) PROVE TelemetryExact'
  BY <1>3, Uncounted DEF Work, Works
<1>4. ASSUME NEW call \in Calls, CountedTooEarly(call) PROVE TelemetryExact'
  BY <1>4, OnlySamples DEF CountedTooEarly
<1>5. ASSUME NEW call \in Calls, Succeed(call) PROVE TelemetryExact'
  <2>1. CASE Asks(call) = "detect"
    BY <1>5, <2>1, Uncounted DEF Succeed, Answers
  <2>2. CASE Asks(call) # "detect"
    BY <1>5, <2>2, SuccessCounted
  <2> QED BY <2>1, <2>2
<1>6. ASSUME NEW call \in Calls, Fail(call) PROVE TelemetryExact'
  BY <1>6, FailureCounted
<1>7. ASSUME NEW call \in Calls, FailUncounted(call) PROVE TelemetryExact'
  <2>1. CASE Asks(call) = "detect"
    BY <1>7, <2>1, Uncounted DEF FailUncounted, Answers
  <2>2. CASE Asks(call) # "detect"
    BY <1>7, <2>2, OnlySamples DEF FailUncounted, report
  <2> QED BY <2>1, <2>2
<1>8. CASE Kill
  BY <1>8, KillCounted
<1>9. CASE UNCHANGED vars
  <2>1. UNCHANGED <<setting, phase, told, opened, before, report>>
    BY <1>9 DEF vars, promise
  <2>2. \A m \in {"safe", "full"} :
           Ours(m)' = Ours(m) /\ Ended(m)' = Ended(m) /\ Good(m)' = Good(m)
    BY <2>1 DEF Ours, Ended, Good, Asks, Mode
  <2> QED BY <2>1, <2>2, FiguresKept
<1> QED BY <1>1, <1>2, <1>3, <1>4, <1>5, <1>6, <1>7, <1>8, <1>9 DEF Next

\* A process starts with the figures of the dry runs that it has served.
LEMMA TelemetryInit == Init => TelemetryExact
<1> SUFFICES ASSUME Init PROVE TelemetryExact
  OBVIOUS
<1>1. TypeOK
  BY InitInv DEF IInv
<1>2. setting.earlier \in 0..SampleLimit /\ SampleLimit \in Nat \ {0}
  BY <1>1, ApiAssumption, LimitType DEF TypeOK
<1>3. LatestSamples
  <2>1. latencies = [i \in 1..setting.earlier |-> i] /\ latencySamples = latencies
    BY DEF Init
  <2>2. latencies \in Seq(Nat) /\ Len(latencies) = setting.earlier
    BY <1>2, <2>1
  <2>3. Latest(latencySamples, latencies, 0)
    BY <1>2, <2>1, <2>2 DEF Latest
  <2> QED BY <2>1, <2>2, <2>3, LatestPointwise DEF LatestSamples
<1>4. \A m \in {"safe", "full"} :
         /\ Ours(m) = {} /\ Ended(m) = {} /\ Good(m) = {}
         /\ Earlier(m) = IF m = "safe" THEN setting.earlier ELSE 0
  BY DEF Init, Ours, Ended, Good, Earlier
<1>5. Cardinality({}) = 0
  BY FS_EmptySet
<1>6. \A m \in {"safe", "full"} :
         /\ modeCounters[m]["requests"] = Earlier(m)
         /\ modeCounters[m]["success"] = Earlier(m)
         /\ modeCounters[m]["failure"] = 0
  <2>1. modeCounters =
          [m \in {"safe", "full"} |->
             IF m = "safe" THEN [[e \in Events |-> 0] EXCEPT !["requests"] = setting.earlier,
                                                           !["success"] = setting.earlier]
             ELSE [e \in Events |-> 0]]
    BY DEF Init, NoCounts
  <2>2. /\ \A e \in Events : modeCounters["full"][e] = 0
        /\ modeCounters["safe"] = [[e \in Events |-> 0] EXCEPT !["requests"] = setting.earlier,
                                                             !["success"] = setting.earlier]
    BY <2>1
  <2>3. /\ modeCounters["safe"]["requests"] = setting.earlier
        /\ modeCounters["safe"]["success"] = setting.earlier
        /\ modeCounters["safe"]["failure"] = 0
    BY <2>2 DEF Events
  <2> QED BY <1>4, <2>2, <2>3 DEF Events
<1>7. \A m \in {"safe", "full"} : CountsOf(m)
  <2> SUFFICES ASSUME NEW m \in {"safe", "full"} PROVE CountsOf(m)
    OBVIOUS
  <2>1. /\ Cardinality(Ours(m)) = 0 /\ Cardinality(Ended(m)) = 0 /\ Cardinality(Good(m)) = 0
        /\ Earlier(m) \in Nat
    BY <1>2, <1>4, <1>5
  <2>2. /\ modeCounters[m]["requests"] = Cardinality(Ours(m)) + Earlier(m)
        /\ modeCounters[m]["success"] = Cardinality(Good(m)) + Earlier(m)
        /\ modeCounters[m]["failure"] = Cardinality(Ended(m)) - Cardinality(Good(m))
    BY <1>6, <2>1
  <2> QED BY <1>1, <2>2, CountsAre
<1>8. Categorised = 0
  BY DEF Init, NoErrors, Categorised, Categories
<1> QED BY <1>3, <1>6, <1>7, <1>8 DEF TelemetryExact

\* Unless a commit fails, /reports/operational shows what happened since the process
\* started, however many calls it served and however often it was killed
\* (app/automation/reporting.py, README.md:195).
THEOREM TelemetryKept == Spec => []TelemetryExact
BY TelemetryInit, TelemetryStep, Invariance, PTL DEF Spec

----------------------------------------------------------------------------
(* The percentiles                                                          *)

\* The samples that come before the i-th one when they are sorted.
Smaller(s, i) == {j \in DOMAIN s : s[j] < s[i] \/ (s[j] = s[i] /\ j < i)}

\* A place is one of those in the list.
LEMMA PlaceType ==
    ASSUME NEW s \in Seq(Nat), NEW i \in 1..Len(s)
    PROVE  /\ DOMAIN s = 1..Len(s) /\ IsFiniteSet(1..Len(s)) /\ Cardinality(1..Len(s)) = Len(s)
           /\ Smaller(s, i) \subseteq 1..Len(s) /\ IsFiniteSet(Smaller(s, i))
           /\ Place(s, i) = Cardinality(Smaller(s, i)) /\ Place(s, i) \in 0..Len(s) - 1
<1>1. DOMAIN s = 1..Len(s) /\ Len(s) \in Nat /\ Len(s) >= 1
  OBVIOUS
<1>2. IsFiniteSet(1..Len(s)) /\ Cardinality(1..Len(s)) = Len(s)
  BY <1>1, FS_Interval
<1>3. Smaller(s, i) \subseteq (1..Len(s)) \ {i}
  BY <1>1 DEF Smaller
<1>4. IsFiniteSet((1..Len(s)) \ {i}) /\ Cardinality((1..Len(s)) \ {i}) = Len(s) - 1
  BY <1>2, FS_RemoveElement
<1>5. IsFiniteSet(Smaller(s, i)) /\ Cardinality(Smaller(s, i)) <= Len(s) - 1
  BY <1>3, <1>4, FS_Subset
<1>6. Cardinality(Smaller(s, i)) \in Nat
  BY <1>5, FS_CardinalityType
<1>7. Place(s, i) = Cardinality(Smaller(s, i))
  BY DEF Place, Smaller
<1> QED BY <1>1, <1>2, <1>3, <1>5, <1>6, <1>7

\* What comes before another one has the lower place.
LEMMA PlaceOrder ==
    ASSUME NEW s \in Seq(Nat), NEW i \in 1..Len(s), NEW j \in 1..Len(s), i \in Smaller(s, j)
    PROVE  Place(s, i) < Place(s, j)
<1>1. DOMAIN s = 1..Len(s) /\ s \in [1..Len(s) -> Nat]
  OBVIOUS
<1>2. Smaller(s, i) \subseteq Smaller(s, j)
  <2> SUFFICES ASSUME NEW k \in Smaller(s, i) PROVE k \in Smaller(s, j)
    OBVIOUS
  <2>1. k \in 1..Len(s) /\ s[k] \in Nat /\ s[i] \in Nat /\ s[j] \in Nat
    BY <1>1 DEF Smaller
  <2> QED BY <1>1, <2>1 DEF Smaller
<1>3. i \notin Smaller(s, i)
  BY <1>1 DEF Smaller
<1>4. IsFiniteSet(Smaller(s, j)) /\ Smaller(s, i) # Smaller(s, j)
  BY <1>3, PlaceType
<1>5. /\ Cardinality(Smaller(s, i)) <= Cardinality(Smaller(s, j))
      /\ Cardinality(Smaller(s, i)) # Cardinality(Smaller(s, j))
  BY <1>2, <1>4, FS_Subset
<1> QED BY <1>5, PlaceType

\* Of two samples one comes before the other.
LEMMA PlaceTotal ==
    ASSUME NEW s \in Seq(Nat), NEW i \in 1..Len(s), NEW j \in 1..Len(s), i # j
    PROVE  i \in Smaller(s, j) \/ j \in Smaller(s, i)
<1>1. DOMAIN s = 1..Len(s) /\ s[i] \in Nat /\ s[j] \in Nat
  OBVIOUS
<1> QED BY <1>1 DEF Smaller

\* Every place is taken, since the places of different samples differ.
LEMMA PlaceTaken ==
    ASSUME NEW s \in Seq(Nat), NEW k \in 0..Len(s) - 1
    PROVE  \E i \in 1..Len(s) : Place(s, i) = k
<1> DEFINE N == 1..Len(s)
           f == [i \in N |-> Place(s, i) + 1]
<1>1. IsFiniteSet(N)
  BY FS_Interval
<1>2. \A i \in N : f[i] = Place(s, i) + 1 /\ f[i] \in N
  BY PlaceType
<1>3. f \in [N -> N]
  BY <1>2
<1> HIDE DEF f
<1>4. \A i, j \in N : i # j => f[i] # f[j]
  <2> SUFFICES ASSUME NEW i \in N, NEW j \in N, i # j PROVE f[i] # f[j]
    OBVIOUS
  <2>1. Place(s, i) < Place(s, j) \/ Place(s, j) < Place(s, i)
    BY PlaceTotal, PlaceOrder
  <2>2. Place(s, i) \in Nat /\ Place(s, j) \in Nat
    BY PlaceType
  <2> QED BY <1>2, <2>1, <2>2
<1>5. f \in Injection(N, N)
  BY <1>3, <1>4 DEF Injection, IsInjective
<1>6. f \in Surjection(N, N)
  BY <1>1, <1>5, FS_Injection
<1>7. \A m \in N : \E i \in N : f[i] = m
  BY <1>6 DEF Surjection
<1>8. PICK i \in N : f[i] = k + 1
  <2>1. k + 1 \in N
    OBVIOUS
  <2> QED BY <1>7, <2>1
<1>9. Place(s, i) \in Nat
  BY PlaceType
<1> QED BY <1>2, <1>8, <1>9

\* Sorted(s) has a sample with k others before it at index k.
LEMMA SortedAt ==
    ASSUME NEW s \in Seq(Nat), NEW k \in 0..Len(s) - 1
    PROVE  \E i \in 1..Len(s) : Place(s, i) = k /\ Sorted(s)[k + 1] = s[i]
<1> DEFINE i == CHOOSE i \in DOMAIN s : Place(s, i) = (k + 1) - 1
<1>1. DOMAIN s = 1..Len(s) /\ k + 1 \in DOMAIN s /\ (k + 1) - 1 = k
  OBVIOUS
<1>2. i \in DOMAIN s /\ Place(s, i) = (k + 1) - 1
  BY <1>1, PlaceTaken
<1>3. Sorted(s)[k + 1] = s[i]
  BY <1>1 DEF Sorted
<1> QED BY <1>1, <1>2, <1>3

\* round() is off by a half at most; the index needs no clamping.
LEMMA IndexNear ==
    ASSUME NEW n \in Nat \ {0}, NEW p \in 0..100
    PROVE  /\ Index(n, p) \in 0..n - 1
           /\ 100 * Index(n, p) <= p * (n - 1) + 50
           /\ 100 * Index(n, p) >= p * (n - 1) - 50
<1> DEFINE q == p * (n - 1)
           whole == q \div 100
           part == q % 100
<1>1. q \in Nat /\ q <= 100 * (n - 1)
  OBVIOUS
<1>2. whole \in Nat /\ part \in 0..99 /\ q = 100 * whole + part
  <2> HIDE DEF q
  <2> QED BY <1>1
<1>3. Index(n, p) = IF part > 50 \/ (part = 50 /\ whole % 2 = 1) THEN whole + 1 ELSE whole
  BY DEF Index
<1> HIDE DEF q, whole, part
<1>4. (Index(n, p) = whole /\ part <= 50) \/ (Index(n, p) = whole + 1 /\ part >= 50)
  BY <1>2, <1>3
<1>5. 100 * Index(n, p) <= q + 50 /\ 100 * Index(n, p) >= q - 50 /\ Index(n, p) \in Nat
  BY <1>1, <1>2, <1>4
<1>6. Index(n, p) <= n - 1
  BY <1>1, <1>5
<1> QED BY <1>5, <1>6 DEF q

\* The sample with k others before it has at most k below it and n - 1 - k above.
LEMMA PlaceBounds ==
    ASSUME NEW s \in Seq(Nat), NEW i \in 1..Len(s)
    PROVE  LET Below == {j \in 1..Len(s) : s[j] < s[i]}
               Above == {j \in 1..Len(s) : s[j] > s[i]}
           IN  /\ Cardinality(Below) \in Nat /\ Cardinality(Above) \in Nat
               /\ Cardinality(Below) <= Place(s, i)
               /\ Cardinality(Above) <= Len(s) - 1 - Place(s, i)
<1> DEFINE Below == {j \in 1..Len(s) : s[j] < s[i]}
           Above == {j \in 1..Len(s) : s[j] > s[i]}
           Rest == ((1..Len(s)) \ {i}) \ Smaller(s, i)
<1>1. /\ DOMAIN s = 1..Len(s) /\ IsFiniteSet(1..Len(s)) /\ Cardinality(1..Len(s)) = Len(s)
      /\ IsFiniteSet(Smaller(s, i)) /\ Smaller(s, i) \subseteq 1..Len(s)
      /\ Place(s, i) = Cardinality(Smaller(s, i)) /\ Place(s, i) \in Nat
  BY PlaceType
<1>2. \A j \in 1..Len(s) : s[j] \in Nat
  OBVIOUS
<1>3. Below \subseteq Smaller(s, i)
  BY <1>1 DEF Smaller
<1>4. Above \subseteq Rest
  BY <1>1, <1>2 DEF Smaller
<1>5. IsFiniteSet((1..Len(s)) \ {i}) /\ Cardinality((1..Len(s)) \ {i}) = Len(s) - 1
  BY <1>1, FS_RemoveElement
<1>6. Smaller(s, i) \subseteq (1..Len(s)) \ {i}
  BY <1>1, <1>2 DEF Smaller
<1>7. ((1..Len(s)) \ {i}) \cap Smaller(s, i) = Smaller(s, i)
  BY <1>6
<1>8. IsFiniteSet(Rest) /\ Cardinality(Rest) = Len(s) - 1 - Place(s, i)
  <2> DEFINE S == (1..Len(s)) \ {i}
             T == Smaller(s, i)
  <2>1. IsFiniteSet(S) /\ S \cap T = T
    BY <1>5, <1>7
  <2> HIDE DEF S, T
  <2>2. IsFiniteSet(S \ T) /\ Cardinality(S \ T) = Cardinality(S) - Cardinality(T)
    BY <2>1, FS_Difference
  <2> QED BY <1>1, <1>5, <2>2 DEF S, T
<1>9. IsFiniteSet(Below) /\ Cardinality(Below) <= Place(s, i)
  BY <1>1, <1>3, FS_Subset
<1>10. IsFiniteSet(Above) /\ Cardinality(Above) <= Len(s) - 1 - Place(s, i)
  BY <1>4, <1>8, FS_Subset
<1>11. Cardinality(Below) \in Nat /\ Cardinality(Above) \in Nat
  BY <1>9, <1>10, FS_CardinalityType
<1> QED BY <1>9, <1>10, <1>11

\* A percentile has its place, and with it a fitting rank.
LEMMA PercentileAt ==
    ASSUME latencySamples \in Seq(Nat), latencySamples # <<>>, NEW p \in 0..100
    PROVE  /\ RankFits(Percentile(latencySamples, p), p)
           /\ \E i \in 1..Len(latencySamples) :
                 /\ Percentile(latencySamples, p) = latencySamples[i]
                 /\ Place(latencySamples, i) = Index(Len(latencySamples), p)
<1> DEFINE s == latencySamples
           n == Len(s)
           k == Index(n, p)
<1>1. n \in Nat \ {0}
  OBVIOUS
<1>2. k \in 0..n - 1 /\ 100 * k <= p * (n - 1) + 50 /\ 100 * k >= p * (n - 1) - 50
  BY <1>1, IndexNear
<1>3. PICK i \in 1..n : Place(s, i) = k /\ Sorted(s)[k + 1] = s[i]
  BY <1>2, SortedAt
<1>4. Percentile(s, p) = s[i]
  BY <1>3 DEF Percentile
<1> DEFINE Below == {j \in 1..n : s[j] < s[i]}
           Above == {j \in 1..n : s[j] > s[i]}
<1>5. /\ Cardinality(Below) \in Nat /\ Cardinality(Above) \in Nat
      /\ Cardinality(Below) <= k /\ Cardinality(Above) <= n - 1 - k
  BY <1>3, PlaceBounds
<1>6. /\ 200 * Cardinality(Below) <= 2 * p * (n - 1) + 100
      /\ 200 * Cardinality(Above) <= 2 * (100 - p) * (n - 1) + 100
  <2> DEFINE q == p * (n - 1)
             b == Cardinality(Below)
             a == Cardinality(Above)
  <2>1. /\ q \in Int /\ 2 * p * (n - 1) = 2 * q
        /\ 2 * (100 - p) * (n - 1) = 200 * (n - 1) - 2 * q
    BY <1>1
  <2>2. 100 * k <= q + 50 /\ 100 * k >= q - 50 /\ k \in Int /\ b \in Nat /\ a \in Nat
        /\ b <= k /\ a <= n - 1 - k
    BY <1>2, <1>5
  <2> HIDE DEF q, b, a, k
  <2>3. 200 * b <= 2 * q + 100 /\ 200 * a <= 200 * (n - 1) - 2 * q + 100
    BY <1>1, <2>1, <2>2
  <2> QED BY <2>1, <2>3 DEF b, a
<1>7. RankFits(s[i], p)
  BY <1>6 DEF RankFits
<1> QED BY <1>3, <1>4, <1>7

\* A higher place is no smaller a sample.
LEMMA PlaceMonotone ==
    ASSUME NEW s \in Seq(Nat), NEW i \in 1..Len(s), NEW j \in 1..Len(s),
           Place(s, i) <= Place(s, j)
    PROVE  s[i] <= s[j]
<1> SUFFICES ASSUME s[j] < s[i] PROVE FALSE
  OBVIOUS
<1>1. j \in Smaller(s, i)
  BY DEF Smaller
<1>2. Place(s, j) < Place(s, i) /\ Place(s, i) \in Nat /\ Place(s, j) \in Nat
  BY <1>1, PlaceOrder, PlaceType
<1> QED BY <1>2

\* The largest sample is the one in the last place.
LEMMA MaxFact ==
    ASSUME NEW s \in Seq(Nat), s # <<>>
    PROVE  \A i \in 1..Len(s) : s[i] <= Max(ToSet(s))
<1>1. Len(s) - 1 \in 0..Len(s) - 1
  OBVIOUS
<1>2. PICK l \in 1..Len(s) : Place(s, l) = Len(s) - 1
  BY <1>1, PlaceTaken
<1>3. \A i \in 1..Len(s) : s[i] <= s[l]
  BY <1>2, PlaceType, PlaceMonotone
<1>4. ToSet(s) = {s[i] : i \in 1..Len(s)} /\ s[l] \in ToSet(s)
  BY DEF ToSet
<1>5. \A y \in ToSet(s) : s[l] >= y
  BY <1>3, <1>4
<1>6. Max(ToSet(s)) \in ToSet(s) /\ \A y \in ToSet(s) : Max(ToSet(s)) >= y
  BY <1>4, <1>5 DEF Max
<1> QED BY <1>4, <1>6

\* The latencies of /reports/operational are samples of the right rank, in order, however
\* many there are and however the rank has to be rounded (app/automation/reporting.py).
THEOREM ReportFits == Spec => []ReportSound
<1>1. IInv => ReportSound
  <2> SUFFICES ASSUME TypeOK, latencySamples # <<>> PROVE ReportSound
    BY DEF IInv, ReportSound
  <2> DEFINE s == latencySamples
             n == Len(s)
  <2>1. s \in Seq(Nat) /\ n \in Nat \ {0} /\ DOMAIN s = 1..n
    BY DEF TypeOK
  <2>2. PICK i \in 1..n : Percentile(s, 50) = s[i] /\ Place(s, i) = Index(n, 50)
    BY <2>1, PercentileAt
  <2>3. PICK j \in 1..n : Percentile(s, 95) = s[j] /\ Place(s, j) = Index(n, 95)
    BY <2>1, PercentileAt
  <2>4. /\ Index(n, 50) \in 0..n - 1 /\ 100 * Index(n, 50) <= 50 * (n - 1) + 50
        /\ Index(n, 95) \in 0..n - 1 /\ 100 * Index(n, 95) >= 95 * (n - 1) - 50
    BY <2>1, IndexNear
  <2>5. Index(n, 50) <= Index(n, 95)
    BY <2>1, <2>4
  <2>6. s[i] <= s[j]
    BY <2>1, <2>2, <2>3, <2>5, PlaceMonotone
  <2>7. s[j] <= Max(ToSet(s))
    BY <2>1, MaxFact
  <2>8. s[i] \in ToSet(s) /\ s[j] \in ToSet(s)
    BY <2>1 DEF ToSet
  <2>9. RankFits(Percentile(s, 50), 50) /\ RankFits(Percentile(s, 95), 95)
    BY <2>1, PercentileAt
  <2>10. /\ OperationalReport.p50 = s[i] /\ OperationalReport.p95 = s[j]
         /\ OperationalReport.max = Max(ToSet(s))
    BY <2>2, <2>3 DEF OperationalReport
  <2>11. RankFits(s[i], 50) /\ RankFits(s[j], 95)
    BY <2>2, <2>3, <2>9
  <2> DEFINE r == OperationalReport
  <2>12. {r.p50, r.p95} \subseteq ToSet(s)
    BY <2>8, <2>10
  <2>13. RankFits(r.p50, 50) /\ RankFits(r.p95, 95) /\ r.p50 <= r.p95 /\ r.p95 <= r.max
    BY <2>6, <2>7, <2>10, <2>11
  <2> QED BY <2>12, <2>13 DEF ReportSound
<1> QED BY <1>1, Invariance, PTL
=============================================================================
