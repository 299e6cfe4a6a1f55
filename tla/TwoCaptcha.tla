----------------------------- MODULE TwoCaptcha -----------------------------
(***************************************************************************)
(* TwoCaptchaProvider.solve_text_captcha,                                  *)
(* app/automation/captcha/twocaptcha.py: a task is posted and polled until *)
(* it is solved, fails, or its deadline passes; the next of MaxRetries     *)
(* attempts posts another task.  What the caller waits for meanwhile is a  *)
(* login page, see Login.                                                  *)
(*                                                                         *)
(* Time is in whole seconds and passes while the coroutine sleeps or a     *)
(* request is under way.                                                   *)
(***************************************************************************)
EXTENDS Integers, Sequences, FiniteSets

CONSTANTS
    max_retries, timeout_seconds, poll_seconds,   \* as __init__ clamps them
    CreateTimeout, PollTimeout,  \* the ClientTimeout of a request
    Lags,                        \* how long a request may take, bound
    CaptchaFaults                \* "net": a request raises; "odd": a poll is answered
                                 \*   by an error of the service (a rate limit, say)

ASSUME CaptchaAssumption ==
    /\ max_retries \in Int /\ timeout_seconds \in Nat /\ poll_seconds \in Nat \ {0}
    /\ CreateTimeout \in Nat /\ PollTimeout \in Nat
    /\ Lags \subseteq Nat
    /\ CaptchaFaults \subseteq {"net", "odd"}

MaxRetries == IF max_retries >= 1 THEN max_retries ELSE 1

VARIABLES
    captchaPc,        \* "create", "poll", "sleep", "done"
    attempt,   \* the loop variable
    tasks,     \* the site's view of the tasks posted, in order
    known,     \* the task this attempt polls, 0 if it has none
    now,       \* seconds since the call
    deadline,  \* of the task being polled
    missed,    \* history: attempts that ended in an exception
    expired,   \* history: attempts that ended at their deadline
    dropped,   \* history: attempts that ended on such an answer
    value      \* the task whose answer is returned, 0 if none is

captchaVars == <<captchaPc, attempt, tasks, known, now, deadline, missed, expired, dropped, value>>

CaptchaInit ==
    /\ captchaPc = "create"
    /\ attempt = 1
    /\ tasks = <<>>
    /\ known = 0
    /\ now = 0
    /\ deadline = 0
    /\ missed = {}
    /\ expired = {}
    /\ dropped = {}
    /\ value = 0

Elapse(limit) == \E lag \in {l \in Lags : l <= limit} : now' = now + lag

\* The loop of solve_text_captcha goes on or is over.
NextAttempt ==
    /\ known' = 0
    /\ attempt' = attempt + 1
    /\ captchaPc' = IF attempt < MaxRetries THEN "create" ELSE "done"

CreateTask ==
    /\ captchaPc = "create"
    /\ Elapse(CreateTimeout)
    /\ tasks' = Append(tasks, "working")
    /\ known' = Len(tasks')
    /\ deadline' = now' + timeout_seconds
    /\ captchaPc' = "poll"
    /\ UNCHANGED <<attempt, missed, expired, dropped, value>>

CreateRejected ==
    /\ captchaPc = "create"
    /\ Elapse(CreateTimeout)
    /\ NextAttempt
    /\ UNCHANGED <<tasks, deadline, missed, expired, dropped, value>>

\* A request raises, in time or at its timeout; it may have reached the site.
CreateFails ==
    /\ "net" \in CaptchaFaults
    /\ captchaPc = "create"
    /\ Elapse(CreateTimeout)
    /\ tasks' \in {tasks, Append(tasks, "working")}
    /\ missed' = missed \cup {attempt}
    /\ NextAttempt
    /\ UNCHANGED <<deadline, expired, dropped, value>>

PollFails ==
    /\ "net" \in CaptchaFaults
    /\ captchaPc = "poll" /\ now < deadline
    /\ Elapse(PollTimeout)
    /\ missed' = missed \cup {attempt}
    /\ NextAttempt
    /\ UNCHANGED <<tasks, deadline, expired, dropped, value>>

\* Mutant of PollNotReady: a task that is being solved is given up.
PollImpatient ==
    /\ captchaPc = "poll" /\ now < deadline
    /\ tasks[known] = "working"
    /\ Elapse(PollTimeout)
    /\ NextAttempt
    /\ UNCHANGED <<tasks, deadline, missed, expired, dropped, value>>

PollNotReady ==
    /\ captchaPc = "poll" /\ now < deadline
    /\ tasks[known] = "working"
    /\ Elapse(PollTimeout)
    /\ captchaPc' = "sleep"
    /\ UNCHANGED <<attempt, tasks, known, deadline, missed, expired, dropped, value>>

\* Mutant of Sleep: every pause starts the deadline anew.
SleepAnew ==
    /\ captchaPc = "sleep"
    /\ now' = now + poll_seconds
    /\ deadline' = now' + timeout_seconds
    /\ captchaPc' = "poll"
    /\ UNCHANGED <<attempt, tasks, known, missed, expired, dropped, value>>

Sleep ==
    /\ captchaPc = "sleep"
    /\ now' = now + poll_seconds
    /\ captchaPc' = "poll"
    /\ UNCHANGED <<attempt, tasks, known, deadline, missed, expired, dropped, value>>

\* Mutant of PollSolved: the answer to an earlier task is taken as well.
PollAnySolved ==
    /\ captchaPc = "poll" /\ now < deadline
    /\ \E i \in DOMAIN tasks : tasks[i] = "solved" /\ value' = i
    /\ Elapse(PollTimeout)
    /\ captchaPc' = "done"
    /\ UNCHANGED <<attempt, tasks, known, deadline, missed, expired, dropped>>

PollSolved ==
    /\ captchaPc = "poll" /\ now < deadline
    /\ tasks[known] = "solved"
    /\ Elapse(PollTimeout)
    /\ value' = known
    /\ captchaPc' = "done"
    /\ UNCHANGED <<attempt, tasks, known, deadline, missed, expired, dropped>>

\* The site gives the task up, or its answer is empty ("value or None"); but any answer
\* other than CAPCHA_NOT_READY ends the attempt, whatever has become of the task.
PollRefused ==
    /\ captchaPc = "poll" /\ now < deadline
    /\ Elapse(PollTimeout)
    /\ \/ tasks[known] = "failed" /\ UNCHANGED dropped
       \/ /\ "odd" \in CaptchaFaults
          /\ tasks[known] # "failed"
          /\ dropped' = dropped \cup {attempt}
    /\ NextAttempt
    /\ UNCHANGED <<tasks, deadline, missed, expired, value>>

Deadline ==
    /\ captchaPc = "poll" /\ now >= deadline
    /\ expired' = expired \cup {attempt}
    /\ NextAttempt
    /\ UNCHANGED <<tasks, now, deadline, missed, dropped, value>>

\* The site solves a task, or finds that it cannot be.
SiteFinishes(i) ==
    /\ captchaPc # "done"
    /\ tasks[i] = "working"
    /\ tasks' \in {[tasks EXCEPT ![i] = end] : end \in {"solved", "failed"}}
    /\ UNCHANGED <<captchaPc, attempt, known, now, deadline, missed, expired, dropped, value>>

CaptchaNext ==
    \/ CreateTask \/ CreateRejected \/ CreateFails
    \/ PollFails \/ PollNotReady \/ Sleep \/ PollSolved \/ PollRefused \/ Deadline
    \/ \E i \in DOMAIN tasks : SiteFinishes(i)

CaptchaSpec == CaptchaInit /\ [][CaptchaNext]_captchaVars

----------------------------------------------------------------------------
(* Properties                                                               *)

\* Every variable has its type.
CaptchaTypeOK ==
    /\ captchaPc \in {"create", "poll", "sleep", "done"}
    /\ attempt \in 1..MaxRetries + 1
    /\ tasks \in Seq({"working", "solved", "failed"})
    /\ known \in 0..Len(tasks)
    /\ now \in Nat
    /\ deadline \in Nat
    /\ missed \subseteq 1..MaxRetries
    /\ expired \subseteq 1..MaxRetries
    /\ dropped \subseteq 1..MaxRetries
    /\ value \in 0..Len(tasks)

\* At most one task is posted for an attempt (twocaptcha.py:34-41), and an answer
\* is that of the task posted last: a late answer to an earlier one is not mixed
\* up with it.
AnswerIsCurrent ==
    /\ Len(tasks) <= MaxRetries
    /\ value # 0 => value = Len(tasks) /\ tasks[value] = "solved"

\* The attempts that may leave a task behind that has not failed.
Excused == missed \cup expired \cup dropped

\* A task that was paid for is given up only after a fault, at its deadline or on an
\* error of the service: without any, an unsolved captcha means that the site failed
\* every task, and each of them costs one task at most.
PaidTaskUsed ==
    captchaPc = "done" /\ value = 0 =>
        Cardinality({i \in DOMAIN tasks : tasks[i] # "failed"}) <= Cardinality(Excused)

\* What one attempt may take: the deadline is looked at between polls only, so it may
\* be outlasted by one request and one pause.
AttemptTime == CreateTimeout + timeout_seconds - 1 + PollTimeout + poll_seconds

\* How long a login may stand at its captcha.
TimeBounded == now <= MaxRetries * AttemptTime

\* What is known, what was posted and what was done with it, attempt by attempt.
AttemptsInOrder ==
    /\ captchaPc = "create" =>
           attempt <= MaxRetries /\ known = 0 /\ Len(tasks) < attempt
    /\ captchaPc \in {"poll", "sleep"} =>
           attempt <= MaxRetries /\ known = Len(tasks) /\ Len(tasks) \in 1..attempt
    /\ captchaPc = "done" => attempt = MaxRetries + 1 \/ value # 0
    /\ value # 0 => captchaPc = "done" /\ known = value
    /\ value = 0 /\ captchaPc = "done" => known = 0
    /\ Len(tasks) <= MaxRetries
    /\ captchaPc # "done" => Excused \subseteq 1..attempt - 1

\* The tasks that may still be solved, or were, other than the one being polled.
Unused == {i \in DOMAIN tasks : tasks[i] # "failed"} \ {known}

\* How far the clock may be where the call stands.
OnTime ==
    LET before == (attempt - 1) * AttemptTime
    IN  /\ captchaPc = "create" => now <= before
        /\ captchaPc \in {"poll", "sleep"} => deadline <= before + CreateTimeout + timeout_seconds
        /\ captchaPc = "poll" => now <= deadline - 1 + PollTimeout + poll_seconds
        /\ captchaPc = "sleep" => now <= deadline - 1 + PollTimeout

\* The inductive invariant.
CaptchaIInv ==
    /\ CaptchaTypeOK /\ AttemptsInOrder /\ AnswerIsCurrent /\ OnTime /\ TimeBounded
    /\ value = 0 => Cardinality(Unused) <= Cardinality(Excused)
=============================================================================
