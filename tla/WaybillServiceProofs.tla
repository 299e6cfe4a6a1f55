------------------------ MODULE WaybillServiceProofs ------------------------
(***************************************************************************)
(* What TLAPS proves of WaybillService, for any number of requests, slots  *)
(* and attempts and whatever fails: that counts and answers agree with     *)
(* what was submitted, that no browser context is left behind, that the    *)
(* service implements WaybillPromise, and that slots and steps of a        *)
(* request are bounded.                                                    *)
(*                                                                         *)
(* A step is taken by one request; the slots apart, requests do not meet,  *)
(* so the invariant is a conjunction over the requests and each action is  *)
(* judged by what it does to its own.                                      *)
(***************************************************************************)
EXTENDS WaybillService, FiniteSetTheorems, TLAPS

\* What the invariant says of one request.
RequestInv(r) ==
    /\ InOrder(r) /\ TruthSoFar(r) /\ CountsSoFar(r)
    /\ pc[r] \in {"new", "commitRequest", "queue", "done"} => ~context[r]

\* What a step of another request leaves alone.
Same(r) ==
    UNCHANGED <<pc[r], attempt[r], after[r], context[r], posted[r], anomaly[r],
                mem[r], disk[r], answer[r]>>

----------------------------------------------------------------------------
(* Helpers                                                                  *)

\* The bounds of both retry loops.
LEMMA BoundTypes ==
    /\ MaxAttempts \in Nat \ {0}
    /\ GotoAttempts \in Nat \ {0}
    /\ Permits \in Nat \ {0}
BY ServiceAssumption DEF MaxAttempts, GotoAttempts, Permits, AtLeastOne

\* Every request has one of three modes.
LEMMA Modes ==
    ASSUME setting \in Settings, NEW r \in Requests
    PROVE  /\ setting.modeOf[r] \in {"safe", "full", "detect"}
           /\ setting.faults \subseteq AllFaults
           /\ setting.ALLOW_LIVE_SUBMIT \in BOOLEAN
BY ServiceAssumption

\* A request goes on elsewhere.
LEMMA GotoStep ==
    ASSUME TypeOK, NEW r \in Requests, NEW place \in Places, Goto(r, place)
    PROVE  /\ pc' \in [Requests -> Places]
           /\ pc'[r] = place
           /\ \A u \in Requests \ {r} : pc'[u] = pc[u]
<1>1. pc \in [Requests -> Places] /\ pc' = [pc EXCEPT ![r] = place]
  BY DEF TypeOK, Goto
<1> QED BY <1>1

\* The answer is decided.
LEMMA GiveUpStep ==
    ASSUME TypeOK, NEW r \in Requests, NEW status \in Statuses, GiveUp(r, status)
    PROVE  /\ answer' \in [Requests -> Statuses \cup {0}]
           /\ after' \in [Requests -> {"queue", "done"}]
           /\ answer'[r] = status /\ after'[r] = "done"
           /\ \A u \in Requests \ {r} : answer'[u] = answer[u] /\ after'[u] = after[u]
<1>1. /\ answer \in [Requests -> Statuses \cup {0}]
      /\ after \in [Requests -> {"queue", "done"}]
  BY DEF TypeOK
<1>2. answer' = [answer EXCEPT ![r] = status] /\ after' = [after EXCEPT ![r] = "done"]
  BY DEF GiveUp
<1> QED BY <1>1, <1>2

\* An event is counted in memory.
LEMMA CountStep ==
    ASSUME TypeOK, NEW r \in Requests, NEW e \in Counted, CountInMemory(r, e)
    PROVE  /\ mem' \in [Requests -> [Counted -> Nat]]
           /\ \A c \in Counted : mem'[r][c] = IF c = e THEN mem[r][c] + 1 ELSE mem[r][c]
           /\ \A u \in Requests \ {r} : mem'[u] = mem[u]
<1>1. mem[r] \in [Counted -> Nat] /\ mem \in [Requests -> [Counted -> Nat]]
  BY DEF TypeOK
<1>2. [mem[r] EXCEPT ![e] = @ + 1] \in [Counted -> Nat]
  BY <1>1
<1>3. mem' = [mem EXCEPT ![r] = [mem[r] EXCEPT ![e] = @ + 1]]
  BY DEF CountInMemory
<1> QED BY <1>1, <1>2, <1>3

\* A count is committed.
LEMMA CommitStep ==
    ASSUME TypeOK, NEW r \in Requests, NEW e \in Counted, Commit(r, e)
    PROVE  /\ disk' \in [Requests -> [Counted -> Nat]]
           /\ \A c \in Counted : disk'[r][c] = IF c = e THEN disk[r][c] + 1 ELSE disk[r][c]
           /\ \A u \in Requests \ {r} : disk'[u] = disk[u]
<1>1. disk[r] \in [Counted -> Nat] /\ disk \in [Requests -> [Counted -> Nat]]
  BY DEF TypeOK
<1>2. [disk[r] EXCEPT ![e] = @ + 1] \in [Counted -> Nat]
  BY <1>1
<1>3. disk' = [disk EXCEPT ![r] = [disk[r] EXCEPT ![e] = @ + 1]]
  BY DEF Commit
<1> QED BY <1>1, <1>2, <1>3

\* What an exception does to its request: a retry, a failure that is counted, or,
\* in detect_map, an answer.
LEMMA Handled ==
    ASSUME TypeOK, NEW r \in Requests, NEW kind \in Kinds,
           HandleException(r, kind) \/ (~Detects(r) /\ HandleWaybillError(r, kind))
    PROVE  \/ ~Detects(r) /\ Retry(r)
           \/ ~Detects(r) /\ \E status \in {400, 500, 503} : Refuse(r, status)
           \/ Detects(r) /\ Goto(r, "closing") /\ GiveUp(r, 500) /\ UNCHANGED mem
BY DEF HandleException, HandleWaybillError, Kinds

\* A step of another request does not touch this one.
LEMMA Untouched ==
    ASSUME NEW r \in Requests, RequestInv(r), setting' = setting, Same(r)
    PROVE  RequestInv(r)'
BY DEF Same, RequestInv, InOrder, TruthSoFar, CountsSoFar, Decided, Retried, Believed, Forbidden,
       Opened, Failed, Live, Detects

\* What the handlers leave behind.
HandledWell(r) ==
    /\ pc' \in [Requests -> Places]
    /\ after' \in [Requests -> {"queue", "done"}]
    /\ mem' \in [Requests -> [Counted -> Nat]]
    /\ answer' \in [Requests -> Statuses \cup {0}]
    /\ \A u \in Requests \ {r} : UNCHANGED <<pc[u], after[u], mem[u], answer[u]>>

\* A retry keeps the types.
LEMMA RetryType ==
    ASSUME TypeOK, NEW r \in Requests, Retry(r)
    PROVE  HandledWell(r)
<1>1. "backoff" \in Places /\ Goto(r, "backoff")
  BY DEF Retry, Places
<1>2. after' \in [Requests -> {"queue", "done"}] /\ \A u \in Requests \ {r} : after'[u] = after[u]
  BY DEF TypeOK, Retry
<1> QED BY <1>1, <1>2, GotoStep DEF HandledWell, Retry, TypeOK

\* A refusal keeps the types.
LEMMA RefuseType ==
    ASSUME TypeOK, NEW r \in Requests, NEW status \in Statuses, Refuse(r, status)
    PROVE  HandledWell(r)
<1>1. "commitFailure" \in Places /\ "failure" \in Counted
  BY DEF Places, Counted
<1> QED BY <1>1, GotoStep, CountStep, GiveUpStep DEF HandledWell, Refuse

\* So do the handlers.
LEMMA HandlersType ==
    ASSUME TypeOK, NEW r \in Requests, NEW kind \in Kinds,
           HandleException(r, kind) \/ (~Detects(r) /\ HandleWaybillError(r, kind))
    PROVE  HandledWell(r)
<1>1. {400, 500, 503} \subseteq Statuses /\ "closing" \in Places
  BY DEF Statuses, Places
<1>2. CASE Retry(r)
  BY <1>2, RetryType
<1>3. CASE \E status \in Statuses : Refuse(r, status)
  BY <1>3, RefuseType
<1>4. CASE Goto(r, "closing") /\ GiveUp(r, 500) /\ UNCHANGED mem
  BY <1>1, <1>4, GotoStep, GiveUpStep DEF HandledWell, TypeOK
<1> QED BY <1>1, <1>2, <1>3, <1>4, Handled

\* So does a success.
LEMMA CountSuccessType ==
    ASSUME TypeOK, NEW r \in Requests, CountSuccess(r)
    PROVE  HandledWell(r)
<1>1. "commitSuccess" \in Places /\ "success" \in Counted
  BY DEF Places, Counted
<1> QED BY <1>1, GotoStep, CountStep DEF HandledWell, CountSuccess, TypeOK

\* A submission keeps to the contract of the form.
LEMMA Outcomes ==
    ASSUME NEW faults, NEW o \in SubmitOutcomes(faults)
    PROVE  /\ o.posts \in 0..2 /\ o.believed \in {"success"} \cup Kinds
           /\ o.hidden \subseteq HidingFaults
           /\ o.hidden = {} => o.posts = IF o.believed = "success" THEN 1 ELSE 0
BY DEF SubmitOutcomes, Beliefs, HidingFaults, Kinds

\* Every step of a request keeps the types and leaves the other requests alone.
LEMMA StepType ==
    ASSUME TypeOK, NEW r \in Requests, RequestInv(r),
           Arrive(r) \/ EnterSlot(r) \/ Proceed(r)
    PROVE  /\ TypeOK'
           /\ setting' = setting
           /\ \A u \in Requests \ {r} : Same(u)
<1> USE DEF Same
<1>0. Places = {"new", "commitRequest", "queue", "prepare", "visit", "login", "form",
                "commitSuccess", "commitMap", "backoff", "commitFailure", "closing", "done"}
  BY DEF Places
<1>1. CASE Forbid(r) \/ RequestCommitFails(r)
  <2>1. answer' \in [Requests -> Statuses \cup {0}] /\ \A u \in Requests \ {r} : answer'[u] = answer[u]
    <3>1. answer \in [Requests -> Statuses \cup {0}] /\ 403 \in Statuses /\ 500 \in Statuses
      BY DEF TypeOK, Statuses
    <3> QED BY <1>1, <3>1 DEF Forbid, RequestCommitFails
  <2> QED BY <1>0, <1>1, <2>1, GotoStep DEF Forbid, RequestCommitFails, TypeOK, counts
<1>2. CASE Accept(r)
  BY <1>0, <1>2, CountStep, GotoStep DEF Accept, TypeOK, Counted
<1>3. CASE Validate(r)
  BY <1>3, CountSuccessType DEF Validate, TypeOK, HandledWell
<1>4. CASE RequestCommitted(r)
  <2>1. attempt' \in [Requests -> 0..MaxAttempts] /\ \A u \in Requests \ {r} : attempt'[u] = attempt[u]
    BY <1>4, BoundTypes DEF RequestCommitted, TypeOK
  <2> QED BY <1>0, <1>4, <2>1, CommitStep, GotoStep DEF RequestCommitted, TypeOK, Counted
<1>5. CASE FailureCommitted(r)
  BY <1>0, <1>5, CommitStep, GotoStep DEF FailureCommitted, TypeOK, Counted
<1>6. CASE EnterSlot(r) \/ StartDetect(r) \/ Visit(r) \/ LogIn(r) \/ BackOff(r)
  BY <1>0, <1>6, GotoStep DEF EnterSlot, StartDetect, Visit, LogIn, BackOff, TypeOK, counts
<1>7. CASE VisitAgain(r)
  <2>1. visits' \in [Requests -> 1..GotoAttempts]
    BY <1>7, BoundTypes DEF VisitAgain, TypeOK
  <2> QED BY <1>7, <2>1 DEF VisitAgain, TypeOK, counts
<1>8. CASE Prepare(r)
  <2>1. context' \in [Requests -> BOOLEAN] /\ \A u \in Requests \ {r} : context'[u] = context[u]
    BY <1>8 DEF Prepare, TypeOK
  <2> QED BY <1>0, <1>8, <2>1, GotoStep DEF Prepare, TypeOK, counts
<1>9. CASE PrepareFails(r) \/ VisitFails(r) \/ FormFails(r) \/ CommitFails(r)
  <2>1. PICK kind \in Kinds :
            HandleException(r, kind) \/ (~Detects(r) /\ HandleWaybillError(r, kind))
    BY <1>9 DEF PrepareFails, VisitFails, FormFails, CommitFails, RequestInv, InOrder
  <2>2. context' \in [Requests -> BOOLEAN] /\ \A u \in Requests \ {r} : context'[u] = context[u]
    BY <1>9 DEF PrepareFails, VisitFails, FormFails, CommitFails, TypeOK
  <2>3. /\ anomaly' \in [Requests -> SUBSET AllFaults]
        /\ \A u \in Requests \ {r} : anomaly'[u] = anomaly[u]
    BY <1>9 DEF PrepareFails, VisitFails, FormFails, CommitFails, TypeOK, AllFaults
  <2>4. UNCHANGED <<setting, attempt, visits, posted, disk>>
    BY <1>9 DEF PrepareFails, VisitFails, FormFails, CommitFails
  <2> QED BY <2>1, <2>2, <2>3, <2>4, HandlersType DEF TypeOK, HandledWell
<1>10. CASE LoginFails(r)
  <2>1. "other" \in Kinds /\ 401 \in Statuses
    BY DEF Kinds, Statuses
  <2>2. HandledWell(r)
    BY <1>10, <2>1, RefuseType, HandlersType DEF LoginFails
  <2> QED BY <1>10, <2>2 DEF LoginFails, TypeOK, HandledWell
<1>11. CASE Submit(r)
  <2>1. PICK o \in SubmitOutcomes(setting.faults) :
          /\ posted' = [posted EXCEPT ![r] = @ + o.posts]
          /\ anomaly' = [anomaly EXCEPT ![r] = @ \cup o.hidden]
          /\ \/ o.believed = "success" /\ CountSuccess(r)
             \/ o.believed # "success" /\ HandleWaybillError(r, o.believed)
    BY <1>11 DEF Submit
  <2>2. o.posts \in 0..2 /\ o.believed \in {"success"} \cup Kinds /\ o.hidden \subseteq AllFaults
    BY Outcomes DEF AllFaults
  <2>3. posted' \in [Requests -> Nat] /\ \A u \in Requests \ {r} : posted'[u] = posted[u]
    BY <2>1, <2>2 DEF TypeOK
  <2>4. /\ anomaly' \in [Requests -> SUBSET AllFaults]
        /\ \A u \in Requests \ {r} : anomaly'[u] = anomaly[u]
    BY <2>1, <2>2 DEF TypeOK
  <2>5. ~Detects(r)
    BY <1>11 DEF Submit, RequestInv, InOrder
  <2>6. HandledWell(r)
    BY <2>1, <2>2, <2>5, HandlersType, CountSuccessType
  <2> QED BY <1>11, <2>3, <2>4, <2>6 DEF Submit, TypeOK, HandledWell
<1>12. CASE SuccessCommitted(r)
  <2>1. 200 \in Statuses /\ "success" \in Counted
    BY DEF Statuses, Counted
  <2>2. /\ answer' \in [Requests -> Statuses \cup {0}]
        /\ after' \in [Requests -> {"queue", "done"}]
        /\ pc' \in [Requests -> Places]
        /\ \A u \in Requests \ {r} : UNCHANGED <<pc[u], answer[u], after[u]>>
    BY <1>0, <1>12, <2>1, GiveUpStep, GotoStep DEF SuccessCommitted, Succeed, TypeOK
  <2>3. /\ disk' \in [Requests -> [Counted -> Nat]]
        /\ \A u \in Requests \ {r} : disk'[u] = disk[u]
    BY <1>12, <2>1, CommitStep DEF SuccessCommitted
  <2> QED BY <1>12, <2>2, <2>3 DEF SuccessCommitted, TypeOK
<1>13. CASE MapCommitted(r) \/ FailureCommitFails(r)
  <2>1. PICK status \in Statuses : GiveUp(r, status) /\ Goto(r, "closing")
    BY <1>13 DEF MapCommitted, FailureCommitFails, Succeed, Statuses
  <2>2. UNCHANGED <<setting, attempt, visits, context, posted, anomaly, mem, disk>>
    BY <1>13 DEF MapCommitted, FailureCommitFails, counts
  <2> QED BY <1>0, <2>1, <2>2, GotoStep, GiveUpStep DEF TypeOK
<1>14. CASE CleanUp(r)
  <2>1. after[r] \in Places /\ (after[r] = "queue" => attempt[r] < MaxAttempts)
    BY <1>0, <1>14 DEF CleanUp, RequestInv, InOrder, Retried, TypeOK
  <2>2. context' \in [Requests -> BOOLEAN] /\ \A u \in Requests \ {r} : context'[u] = context[u]
    BY <1>14 DEF CleanUp, CloseContext, TypeOK
  <2>3. attempt' \in [Requests -> 0..MaxAttempts] /\ \A u \in Requests \ {r} : attempt'[u] = attempt[u]
    BY <1>14, <2>1, BoundTypes DEF CleanUp, TypeOK
  <2> QED BY <1>14, <2>1, <2>2, <2>3, GotoStep DEF CleanUp, TypeOK, counts
<1> QED
  BY <1>1, <1>2, <1>3, <1>4, <1>5, <1>6, <1>7, <1>8, <1>9, <1>10, <1>11, <1>12, <1>13, <1>14
  DEF Arrive, Proceed

----------------------------------------------------------------------------
(* The invariant                                                            *)

\* Before the loop.
LEMMA ArrivalInv ==
    ASSUME TypeOK, NEW r \in Requests, RequestInv(r),
           Arrive(r) \/ RequestCommitted(r) \/ RequestCommitFails(r)
    PROVE  RequestInv(r)'
<1>0. /\ setting.modeOf[r] \in {"safe", "full", "detect"} /\ setting' = setting
      /\ {"new", "commitRequest", "queue", "prepare", "done"} \subseteq Places
  BY Modes, StepType DEF TypeOK, Places, Proceed
<1> USE DEF RequestInv, InOrder, TruthSoFar, CountsSoFar, Decided, Retried, Believed,
            Forbidden, Opened, Failed, Live, Detects
<1>1. CASE Forbid(r)
  BY <1>0, <1>1, GotoStep DEF Forbid, TypeOK, counts
<1>2. CASE Accept(r)
  BY <1>0, <1>2, GotoStep, CountStep DEF Accept, TypeOK, Counted
<1>3. CASE StartDetect(r)
  BY <1>0, <1>3, GotoStep DEF StartDetect, TypeOK, counts
<1>4. CASE RequestCommitted(r)
  BY <1>0, <1>4, GotoStep, CommitStep DEF RequestCommitted, TypeOK, Counted
<1>5. CASE RequestCommitFails(r)
  BY <1>0, <1>5, GotoStep DEF RequestCommitFails, TypeOK, counts
<1> QED BY <1>1, <1>2, <1>3, <1>4, <1>5 DEF Arrive

\* A handler judges right whatever ended the attempt, as long as nothing was
\* submitted or it was hidden: a post that was not hidden does not come here.
LEMMA HandlersInv ==
    ASSUME TypeOK, NEW r \in Requests, RequestInv(r),
           UNCHANGED <<setting, attempt, disk>>,
           pc[r] \in {"prepare", "visit", "login", "form", "commitSuccess", "commitMap"},
           anomaly'[r] = {} => /\ anomaly[r] = {} /\ posted'[r] = posted[r]
                              /\ pc[r] \in {"prepare", "visit", "login", "form"},
           Live(r) \/ posted'[r] = posted[r],
           "db" \in anomaly'[r] => "db" \in setting.faults,
           "db" \in setting.faults \/ pc[r] \in {"prepare", "visit", "login", "form"},
           \/ ~Detects(r) /\ Retry(r)
           \/ ~Detects(r) /\ \E status \in {400, 401, 500, 503} : Refuse(r, status)
           \/ Detects(r) /\ Goto(r, "closing") /\ GiveUp(r, 500) /\ UNCHANGED mem
    PROVE  RequestInv(r)'
<1>0. /\ setting.modeOf[r] \in {"safe", "full", "detect"}
      /\ {"backoff", "commitFailure", "closing"} \subseteq Places
      /\ {400, 401, 500, 503} \subseteq Statuses /\ "failure" \in Counted
  BY Modes DEF TypeOK, Places, Statuses, Counted
<1> USE DEF RequestInv, InOrder, TruthSoFar, CountsSoFar, Decided, Retried, Believed,
            Forbidden, Opened, Failed, Live, Detects
<1>1. CASE ~Detects(r) /\ Retry(r)
  <2>1. pc'[r] = "backoff" /\ after'[r] = "queue" /\ attempt[r] < MaxAttempts
    BY <1>0, <1>1, GotoStep DEF Retry, TypeOK, AttemptsLeft
  <2>2. answer[r] = 0
    OBVIOUS
  <2> QED BY <1>0, <1>1, <2>1, <2>2 DEF Retry, TypeOK, Counted
<1>2. ASSUME ~Detects(r), NEW status \in {400, 401, 500, 503}, Refuse(r, status)
      PROVE  RequestInv(r)'
  <2>1. pc'[r] = "commitFailure" /\ after'[r] = "done" /\ answer'[r] = status
    BY <1>0, <1>2, GotoStep, GiveUpStep DEF Refuse
  <2>2. \A c \in Counted : mem'[r][c] = IF c = "failure" THEN mem[r][c] + 1 ELSE mem[r][c]
    BY <1>0, <1>2, CountStep DEF Refuse
  <2> QED BY <1>0, <1>2, <2>1, <2>2 DEF TypeOK, Counted
<1>3. CASE Detects(r) /\ Goto(r, "closing") /\ GiveUp(r, 500) /\ UNCHANGED mem
  <2>1. pc'[r] = "closing" /\ after'[r] = "done" /\ answer'[r] = 500
    BY <1>0, <1>3, GotoStep, GiveUpStep
  <2> QED BY <1>0, <1>3, <2>1 DEF TypeOK, Counted
<1> QED BY <1>1, <1>2, <1>3

\* So does a success that is counted.
LEMMA CountSuccessInv ==
    ASSUME TypeOK, NEW r \in Requests, RequestInv(r),
           UNCHANGED <<setting, attempt, disk, context>>,
           pc[r] = "form",
           Live(r) /\ anomaly'[r] = {} => posted'[r] = 1,
           Live(r) \/ posted'[r] = posted[r],
           "db" \in anomaly'[r] => "db" \in setting.faults,
           CountSuccess(r)
    PROVE  RequestInv(r)'
<1>0. /\ setting.modeOf[r] \in {"safe", "full", "detect"}
      /\ "commitSuccess" \in Places /\ "success" \in Counted
  BY Modes DEF TypeOK, Places, Counted
<1>1. pc'[r] = "commitSuccess" /\ UNCHANGED <<after, answer>>
  BY <1>0, GotoStep DEF CountSuccess
<1>2. \A c \in Counted : mem'[r][c] = IF c = "success" THEN mem[r][c] + 1 ELSE mem[r][c]
  BY <1>0, CountStep DEF CountSuccess
<1> QED BY <1>0, <1>1, <1>2
    DEF TypeOK, Counted, RequestInv, InOrder, TruthSoFar, CountsSoFar, Decided, Retried,
        Believed, Forbidden, Opened, Failed, Live, Detects

\* The faults of an attempt, and its success.
LEMMA AttemptInv ==
    ASSUME TypeOK, NEW r \in Requests, RequestInv(r),
           \/ PrepareFails(r) \/ VisitFails(r) \/ LoginFails(r) \/ FormFails(r)
           \/ CommitFails(r) \/ Validate(r) \/ Submit(r)
    PROVE  RequestInv(r)'
<1>0. setting.modeOf[r] \in {"safe", "full", "detect"} /\ Kinds \cap setting.faults \subseteq Kinds
  BY Modes DEF TypeOK
<1>1. CASE PrepareFails(r) \/ VisitFails(r) \/ FormFails(r)
  <2>1. PICK kind \in Kinds :
            HandleException(r, kind) \/ (~Detects(r) /\ HandleWaybillError(r, kind))
    BY <1>1 DEF PrepareFails, VisitFails, FormFails, RequestInv, InOrder
  <2>2. /\ UNCHANGED <<setting, attempt, disk, posted, anomaly>>
        /\ pc[r] \in {"prepare", "visit", "login", "form"}
    BY <1>1 DEF PrepareFails, VisitFails, FormFails
  <2>3. "db" \in anomaly[r] => "db" \in setting.faults
    BY DEF RequestInv, CountsSoFar
  <2> QED BY <2>1, <2>2, <2>3, Handled, HandlersInv
<1>2. CASE LoginFails(r)
  <2>1. /\ UNCHANGED <<setting, attempt, disk, posted, anomaly>>
        /\ pc[r] = "login" /\ ~Detects(r)
    BY <1>2 DEF LoginFails, RequestInv, InOrder
  <2>2. Refuse(r, 401) \/ HandleException(r, "other")
    BY <1>2 DEF LoginFails
  <2>3. "db" \in anomaly[r] => "db" \in setting.faults
    BY DEF RequestInv, CountsSoFar
  <2>4. "other" \in Kinds
    BY DEF Kinds
  <2> QED BY <2>1, <2>2, <2>3, <2>4, Handled, HandlersInv
<1>3. CASE CommitFails(r)
  <2>1. PICK kind \in Kinds : HandleException(r, kind)
    BY <1>3 DEF CommitFails
  <2>2. /\ UNCHANGED <<setting, attempt, disk, posted>>
        /\ pc[r] \in {"commitSuccess", "commitMap"} /\ "db" \in setting.faults
        /\ "db" \in anomaly'[r]
    BY <1>3 DEF CommitFails, TypeOK
  <2> QED BY <2>1, <2>2, Handled, HandlersInv
<1>4. CASE Validate(r)
  <2>1. ~Live(r)
    BY <1>4 DEF Validate, DryRun, Live
  <2>2. "db" \in anomaly[r] => "db" \in setting.faults
    BY DEF RequestInv, CountsSoFar
  <2> QED BY <1>4, <2>1, <2>2, CountSuccessInv DEF Validate
<1>5. CASE Submit(r)
  <2>1. PICK o \in SubmitOutcomes(setting.faults) :
          /\ posted' = [posted EXCEPT ![r] = @ + o.posts]
          /\ anomaly' = [anomaly EXCEPT ![r] = @ \cup o.hidden]
          /\ \/ o.believed = "success" /\ CountSuccess(r)
             \/ o.believed # "success" /\ HandleWaybillError(r, o.believed)
    BY <1>5 DEF Submit
  <2>2. /\ o.posts \in 0..2 /\ o.believed \in {"success"} \cup Kinds
        /\ o.hidden \subseteq HidingFaults
        /\ o.hidden = {} => o.posts = IF o.believed = "success" THEN 1 ELSE 0
    BY Outcomes
  <2>3. /\ UNCHANGED <<setting, attempt, disk, context>> /\ pc[r] = "form"
        /\ ~Detects(r) /\ Live(r)
    BY <1>0, <1>5 DEF Submit, DryRun, Detects, Live, RequestInv, InOrder
  <2>4. posted'[r] = posted[r] + o.posts /\ anomaly'[r] = anomaly[r] \cup o.hidden
    BY <2>1 DEF TypeOK
  <2>5. anomaly[r] = {} => posted[r] = 0
    BY <2>3 DEF RequestInv, TruthSoFar, InOrder, Believed, Decided
  <2>6. "db" \in anomaly'[r] => "db" \in setting.faults
    BY <2>2, <2>4 DEF RequestInv, CountsSoFar, HidingFaults
  <2>7. CASE o.believed = "success" /\ CountSuccess(r)
    <3>1. anomaly'[r] = {} => posted'[r] = 1
      BY <2>2, <2>4, <2>5, <2>7
    <3> QED BY <2>3, <2>6, <2>7, <3>1, CountSuccessInv
  <2>8. CASE o.believed # "success" /\ HandleWaybillError(r, o.believed)
    <3>1. anomaly'[r] = {} => anomaly[r] = {} /\ posted'[r] = posted[r]
      BY <2>2, <2>4, <2>5, <2>8
    <3> QED BY <2>2, <2>3, <2>6, <2>8, <3>1, Handled, HandlersInv
  <2> QED BY <2>1, <2>7, <2>8
<1> QED BY <1>1, <1>2, <1>3, <1>4, <1>5

\* The steps that go as they should, and those after an attempt.
LEMMA ProgressInv ==
    ASSUME TypeOK, NEW r \in Requests, RequestInv(r),
           \/ EnterSlot(r) \/ Prepare(r) \/ Visit(r) \/ VisitAgain(r) \/ LogIn(r)
           \/ SuccessCommitted(r) \/ MapCommitted(r) \/ BackOff(r)
           \/ FailureCommitted(r) \/ FailureCommitFails(r) \/ CleanUp(r)
    PROVE  RequestInv(r)'
<1>0. /\ setting.modeOf[r] \in {"safe", "full", "detect"}
      /\ setting.ALLOW_LIVE_SUBMIT \in BOOLEAN
      /\ 200 \in Statuses /\ 500 \in Statuses
      /\ Counted = {"requests", "success", "failure"}
      /\ Places = {"new", "commitRequest", "queue", "prepare", "visit", "login", "form",
                   "commitSuccess", "commitMap", "backoff", "commitFailure", "closing", "done"}
  BY Modes DEF TypeOK, Places, Statuses, Counted
<1> USE DEF RequestInv, InOrder, TruthSoFar, CountsSoFar, Decided, Retried, Believed,
            Forbidden, Opened, Failed, Live, Detects
<1>1. CASE EnterSlot(r) \/ Prepare(r) \/ Visit(r) \/ LogIn(r) \/ BackOff(r)
  <2>1. /\ UNCHANGED <<setting, attempt, after, posted, anomaly, mem, disk, answer>>
        /\ \/ pc[r] = "queue" /\ pc'[r] = "prepare"
           \/ pc[r] = "prepare" /\ pc'[r] = "visit" /\ Detects(r)
           \/ pc[r] = "prepare" /\ pc'[r] = "login" /\ ~Detects(r)
           \/ pc[r] = "visit" /\ pc'[r] = "commitMap"
           \/ pc[r] = "login" /\ pc'[r] = "form"
           \/ pc[r] = "backoff" /\ pc'[r] = "closing"
    BY <1>0, <1>1, GotoStep DEF EnterSlot, Prepare, Visit, LogIn, BackOff, counts
  <2> QED BY <1>0, <2>1 DEF TypeOK
<1>2. CASE VisitAgain(r)
  BY <1>2 DEF VisitAgain, counts
<1>3. CASE SuccessCommitted(r)
  <2>1. \A c \in Counted : disk'[r][c] = IF c = "success" THEN disk[r][c] + 1 ELSE disk[r][c]
    BY <1>0, <1>3, CommitStep DEF SuccessCommitted
  <2>2. \/ pc'[r] = "closing" /\ after'[r] = "done" /\ answer'[r] = 200
        \/ pc'[r] = "commitMap" /\ UNCHANGED <<after, answer>>
    BY <1>0, <1>3, GotoStep, GiveUpStep DEF SuccessCommitted, Succeed
  <2> QED BY <1>0, <1>3, <2>1, <2>2 DEF SuccessCommitted, TypeOK
<1>4. CASE MapCommitted(r)
  <2>1. pc'[r] = "closing" /\ after'[r] = "done" /\ answer'[r] = 200
    BY <1>0, <1>4, GotoStep, GiveUpStep DEF MapCommitted, Succeed
  <2> QED BY <1>0, <1>4, <2>1 DEF MapCommitted, TypeOK, counts
<1>5. CASE FailureCommitted(r)
  <2>1. \A c \in Counted : disk'[r][c] = IF c = "failure" THEN disk[r][c] + 1 ELSE disk[r][c]
    BY <1>0, <1>5, CommitStep DEF FailureCommitted
  <2>2. pc'[r] = "closing"
    BY <1>0, <1>5, GotoStep DEF FailureCommitted
  <2> QED BY <1>0, <1>5, <2>1, <2>2 DEF FailureCommitted, TypeOK
<1>6. CASE FailureCommitFails(r)
  <2>1. pc'[r] = "closing" /\ after'[r] = "done" /\ answer'[r] = 500
    BY <1>0, <1>6, GotoStep, GiveUpStep DEF FailureCommitFails
  <2> QED BY <1>0, <1>6, <2>1 DEF FailureCommitFails, TypeOK, counts
<1>7. CASE CleanUp(r)
  <2>1. after[r] \in {"queue", "done"} /\ pc'[r] = after[r] /\ ~context'[r]
    BY <1>0, <1>7, GotoStep DEF CleanUp, CloseContext, TypeOK
  <2>2. attempt'[r] = IF after[r] = "queue" THEN attempt[r] + 1 ELSE attempt[r]
    BY <1>7 DEF CleanUp, TypeOK
  <2> QED BY <1>0, <1>7, <2>1, <2>2 DEF CleanUp, TypeOK, counts
<1> QED BY <1>1, <1>2, <1>3, <1>4, <1>5, <1>6, <1>7

\* The answers tell the truth because what the code believes is the truth.
LEMMA TruthTold ==
    ASSUME TypeOK, \A r \in Requests : RequestInv(r)
    PROVE  AnswersTruthfully
<1> SUFFICES ASSUME NEW r \in Requests, Live(r), anomaly[r] = {}
             PROVE  /\ posted[r] <= 1
                    /\ answer[r] # 0 => posted[r] = IF answer[r] = 200 THEN 1 ELSE 0
  BY DEF AnswersTruthfully
<1>1. posted[r] = IF Believed(r) THEN 1 ELSE 0
  BY DEF RequestInv, TruthSoFar
<1>2. answer[r] # 0 => (Believed(r) <=> answer[r] = 200)
  BY DEF RequestInv, InOrder, Believed, Decided
<1> QED BY <1>1, <1>2

\* The invariant is what its parts say of each request.
LEMMA InvParts == IInv <=> TypeOK /\ \A r \in Requests : RequestInv(r)
BY TruthTold DEF IInv, RequestInv, NoContextLeft

\* The initial state satisfies the invariant.
LEMMA InitInv == Init => IInv
<1> SUFFICES ASSUME Init PROVE TypeOK /\ \A r \in Requests : RequestInv(r)
  BY InvParts
<1>1. TypeOK
  BY BoundTypes DEF Init, TypeOK, Places, AllFaults
<1>2. \A r \in Requests : RequestInv(r)
  BY Modes
  DEF Init, RequestInv, InOrder, TruthSoFar, CountsSoFar, Decided, Retried, Believed,
      Forbidden, Opened, Failed, Live, Detects, Counted, Places
<1> QED BY <1>1, <1>2

\* Every step keeps the invariant of every request.
LEMMA NextParts ==
    ASSUME TypeOK, \A r \in Requests : RequestInv(r), [Next]_vars
    PROVE  TypeOK' /\ \A r \in Requests : RequestInv(r)'
<1>1. ASSUME NEW r \in Requests, Arrive(r) \/ EnterSlot(r) \/ Proceed(r)
      PROVE  TypeOK' /\ \A u \in Requests : RequestInv(u)'
  <2>1. RequestInv(r)'
    BY <1>1, ArrivalInv, AttemptInv, ProgressInv DEF Proceed
  <2>2. TypeOK' /\ setting' = setting /\ \A u \in Requests \ {r} : Same(u)
    BY <1>1, StepType
  <2>3. \A u \in Requests \ {r} : RequestInv(u)'
    BY <2>2, Untouched
  <2> QED BY <2>1, <2>2, <2>3
<1>2. CASE UNCHANGED vars
  <2>1. TypeOK' /\ setting' = setting
    BY <1>2 DEF vars, counts, TypeOK
  <2>2. \A u \in Requests : Same(u)
    BY <1>2 DEF vars, counts, Same
  <2>3. \A u \in Requests : RequestInv(u)'
    BY <2>1, <2>2, Untouched
  <2> QED BY <2>1, <2>3
<1> QED BY <1>1, <1>2 DEF Next

\* Whatever is retried and fails on the way, the answers are true, the counts
\* agree with them and no context is left to the next attempt.
THEOREM Invariance == Spec => []IInv
<1> DEFINE Parts == TypeOK /\ \A r \in Requests : RequestInv(r)
<1>1. Init => Parts
  BY InitInv, InvParts
<1>2. Parts /\ [Next]_vars => Parts'
  BY NextParts
<1>3. Parts => IInv
  BY InvParts
<1> QED BY <1>1, <1>2, <1>3, PTL DEF Spec

\* A request that was counted and has ended counts as one success or one failure,
\* a success exactly when it was answered 200, and the rows show what memory shows.
THEOREM EveryRequestAccounted == Spec => []Accounted
<1>1. IInv => Accounted
  <2> SUFFICES ASSUME IInv, NEW r \in Requests, pc[r] = "done", ~Detects(r)
               PROVE  /\ answer[r] = 200 => disk[r]["success"] >= 1
                      /\ "db" \notin setting.faults =>
                            /\ mem[r]["requests"] = mem[r]["success"] + mem[r]["failure"]
                            /\ mem[r]["success"] = IF answer[r] = 200 THEN 1 ELSE 0
                            /\ disk[r] = mem[r]
    BY DEF Accounted
  <2>1. TypeOK /\ InOrder(r) /\ CountsSoFar(r)
    BY DEF IInv
  <2>2. CASE "db" \in setting.faults
    BY <2>1, <2>2 DEF CountsSoFar
  <2>3. CASE "db" \notin setting.faults
    <3>1. Decided(r) /\ answer[r] # 0 /\ (Forbidden(r) => answer[r] = 403)
      BY <2>1 DEF InOrder, Decided
    <3>2. \A e \in Counted : disk[r][e] = mem[r][e] /\ mem[r][e] \in Nat
      BY <2>1, <2>3 DEF CountsSoFar, Counted, TypeOK
    <3>3. disk[r] = mem[r]
      BY <2>1, <3>2 DEF TypeOK
    <3> QED BY <2>1, <2>3, <3>1, <3>3 DEF CountsSoFar, Believed, Opened, Failed
  <2> QED BY <2>2, <2>3
<1> QED BY <1>1, Invariance, PTL

\* No context outlives its request or its attempt.
THEOREM ContextsClosed == Spec => []NoContextLeft
<1>1. IInv => NoContextLeft
  BY DEF IInv
<1> QED BY <1>1, Invariance, PTL

----------------------------------------------------------------------------
(* The service implements WaybillPromise                                    *)

\* Before the first request the promise is kept.
LEMMA InitPromise == Init => Promise!Init
<1> SUFFICES ASSUME Init PROVE Promise!Init
  OBVIOUS
<1>1. MayPost \in SUBSET Requests /\ Hidden = {}
  BY DEF Init, MayPost, Hidden
<1>2. Phase = [r \in Requests |-> "new"] /\ Told = [r \in Requests |-> 0]
  BY DEF Init, Phase, Told
<1> QED BY <1>1, <1>2 DEF Init, Promise!Init

\* What a step of r does to the promise's state, by what it does to r's.
LEMMA PromiseStep ==
    ASSUME NEW r \in Requests, setting' = setting, \A u \in Requests \ {r} : Same(u)
    PROVE  /\ MayPost' = MayPost
           /\ pc[r] \notin {"new", "done"} /\ pc'[r] \notin {"new", "done"}
                 => UNCHANGED <<Phase, Told>>
           /\ pc'[r] \notin {"new", "done"}
                 => /\ Phase' = [Phase EXCEPT ![r] = "open"]
                    /\ pc[r] # "done" => Told' = Told
           /\ pc'[r] = "done"
                 => /\ Phase' = [Phase EXCEPT ![r] = "answered"]
                    /\ Told' = [Told EXCEPT ![r] = answer'[r]]
           /\ anomaly'[r] = anomaly[r] => Hidden' = Hidden
           /\ anomaly'[r] # {} => Hidden' = Hidden \cup {r}
<1>1. MayPost' = MayPost
  BY DEF MayPost, Live
<1>2. ASSUME pc'[r] \notin {"new", "done"} PROVE Phase' = [Phase EXCEPT ![r] = "open"]
  BY <1>2 DEF Phase, Same
<1>3. ASSUME pc'[r] \notin {"new", "done"}, pc[r] # "done" PROVE Told' = Told
  BY <1>3 DEF Told, Same
<1>4. ASSUME pc'[r] = "done" PROVE Phase' = [Phase EXCEPT ![r] = "answered"]
  BY <1>4 DEF Phase, Same
<1>5. ASSUME pc'[r] = "done" PROVE Told' = [Told EXCEPT ![r] = answer'[r]]
  BY <1>5 DEF Told, Same
<1>6. ASSUME pc[r] \notin {"new", "done"}, pc'[r] \notin {"new", "done"}
      PROVE  UNCHANGED <<Phase, Told>>
  BY <1>6 DEF Phase, Told, Same
<1>7. ASSUME anomaly'[r] = anomaly[r] PROVE Hidden' = Hidden
  BY <1>7 DEF Hidden, Same
<1>8. ASSUME anomaly'[r] # {} PROVE Hidden' = Hidden \cup {r}
  BY <1>8 DEF Hidden, Same
<1> QED BY <1>1, <1>2, <1>3, <1>4, <1>5, <1>6, <1>7, <1>8

\* A request is opened; or forbidden, and told so.
LEMMA ArrivalPromise ==
    ASSUME IInv, NEW r \in Requests, setting' = setting, \A u \in Requests \ {r} : Same(u),
           Arrive(r)
    PROVE  Promise!Next
<1>1. pc[r] = "new" /\ UNCHANGED <<posted, anomaly>> /\ Phase[r] = "new"
  BY DEF Arrive, Forbid, Accept, StartDetect, Phase, counts
<1>2. CASE Forbid(r)
  <2>1. pc'[r] = "done" /\ answer'[r] = 403 /\ r \notin MayPost
    BY <1>2 DEF Forbid, Goto, IInv, TypeOK, MayPost
  <2>2. Promise!Answer(r, 403)
    BY <1>1, <2>1, PromiseStep DEF Promise!Answer
  <2> QED BY <2>2 DEF Promise!Next, Statuses
<1>3. CASE Accept(r) \/ StartDetect(r)
  <2>1. pc'[r] \notin {"new", "done"} /\ pc[r] # "done"
    BY <1>1, <1>3 DEF Accept, StartDetect, Goto, IInv, TypeOK
  <2>2. Promise!Open(r)
    BY <1>1, <2>1, PromiseStep DEF Promise!Open
  <2> QED BY <2>2 DEF Promise!Next
<1> QED BY <1>2, <1>3 DEF Arrive

\* A submission takes what the site took, and hides it or not.
LEMMA SubmitPromise ==
    ASSUME IInv, NEW r \in Requests, setting' = setting, \A u \in Requests \ {r} : Same(u),
           Submit(r), pc'[r] \notin {"new", "done"}
    PROVE  [Promise!Next]_(Promise!promiseVars)
<1>1. PICK o \in SubmitOutcomes(setting.faults) :
         /\ posted' = [posted EXCEPT ![r] = @ + o.posts]
         /\ anomaly' = [anomaly EXCEPT ![r] = @ \cup o.hidden]
         /\ \/ o.believed = "success" /\ CountSuccess(r)
            \/ o.believed # "success" /\ HandleWaybillError(r, o.believed)
  BY DEF Submit
<1>2. /\ o.posts \in 0..2 /\ o.hidden \subseteq HidingFaults
      /\ o.hidden = {} => o.posts \in 0..1
  BY Outcomes
<1>3. /\ anomaly'[r] = anomaly[r] \cup o.hidden
      /\ posted'[r] = posted[r] + o.posts /\ posted[r] \in Nat
  BY <1>1 DEF IInv, TypeOK
<1>4. pc[r] = "form" /\ r \in MayPost /\ Phase[r] = "open"
  <2>1. pc[r] = "form" /\ setting.modeOf[r] \in {"safe", "full", "detect"}
    BY Modes DEF Submit, IInv, TypeOK
  <2>2. Live(r) /\ setting.ALLOW_LIVE_SUBMIT
    BY <2>1 DEF Submit, DryRun, Live, IInv, InOrder, Detects, Forbidden
  <2> QED BY <2>1, <2>2 DEF MayPost, Phase
<1>5. UNCHANGED <<MayPost, Phase, Told>>
  BY <1>4, PromiseStep
<1>6. r \notin Hidden => posted[r] = 0
  BY <1>4 DEF Hidden, MayPost, IInv, InOrder, TruthSoFar, Believed, Decided
<1>7. CASE o.posts = 0
  <2>1. posted' = posted
    BY <1>1, <1>7 DEF IInv, TypeOK
  <2>2. CASE anomaly'[r] = {}
    <3>1. Hidden' = Hidden
      BY <1>3, <2>2, PromiseStep
    <3> QED BY <1>5, <2>1, <3>1 DEF Promise!promiseVars
  <2>3. CASE anomaly'[r] # {}
    <3>1. Promise!Hide(r)
      BY <1>4, <1>5, <2>1, <2>3, PromiseStep DEF Promise!Hide
    <3> QED BY <3>1 DEF Promise!Next
  <2> QED BY <2>2, <2>3
<1>8. CASE o.posts # 0
  <2>1. o.posts \in 1..2
    BY <1>2, <1>8
  <2>2. \/ Hidden' = Hidden \cup {r}
        \/ r \notin Hidden /\ posted'[r] = 1 /\ Hidden' = Hidden
    <3>1. CASE anomaly'[r] = {}
      <4>1. o.hidden = {} /\ anomaly[r] = {}
        BY <1>3, <3>1
      <4>2. r \notin Hidden /\ Hidden' = Hidden
        BY <3>1, <4>1, PromiseStep DEF Hidden
      <4> QED BY <1>2, <1>3, <1>6, <1>8, <4>1, <4>2
    <3>2. CASE anomaly'[r] # {}
      BY <3>2, PromiseStep
    <3> QED BY <3>1, <3>2
  <2>3. Promise!Take(r, o.posts)
    BY <1>1, <1>4, <1>5, <2>2 DEF Promise!Take
  <2> QED BY <2>1, <2>3 DEF Promise!Next
<1> QED BY <1>7, <1>8

\* Every other step answers, hides or is none of the promise's.
LEMMA ProceedPromise ==
    ASSUME IInv, TypeOK', NEW r \in Requests, RequestInv(r)', setting' = setting,
           \A u \in Requests \ {r} : Same(u),
           EnterSlot(r) \/ Proceed(r), ~Submit(r)
    PROVE  [Promise!Next]_(Promise!promiseVars)
<1>1. /\ posted' = posted
      /\ anomaly' = anomaly \/ CommitFails(r)
  BY DEF EnterSlot, Proceed, RequestCommitted, RequestCommitFails, Prepare, PrepareFails, Visit,
         VisitAgain, VisitFails, LogIn, LoginFails, Validate, FormFails, SuccessCommitted,
         MapCommitted, CommitFails, BackOff, FailureCommitted, FailureCommitFails, CleanUp, counts
<1>2. pc[r] \notin {"new", "done"} /\ Phase[r] = "open"
  <2>1. pc[r] \notin {"new", "done"}
    BY DEF EnterSlot, Proceed, RequestCommitted, RequestCommitFails, Prepare, PrepareFails,
           Visit, VisitAgain, VisitFails, LogIn, LoginFails, Validate, FormFails,
           SuccessCommitted, MapCommitted, CommitFails, BackOff, FailureCommitted,
           FailureCommitFails, CleanUp, counts
  <2> QED BY <2>1 DEF Phase
<1>3. pc'[r] # "new"
  <2>1. ASSUME NEW place \in Places, place # "new", Goto(r, place) PROVE pc'[r] # "new"
    BY <2>1, GotoStep DEF IInv
  <2>2. ASSUME NEW kind \in Kinds,
               HandleException(r, kind) \/ (~Detects(r) /\ HandleWaybillError(r, kind))
        PROVE  pc'[r] # "new"
    BY <2>1, <2>2, Handled DEF IInv, Retry, Refuse, Places
  <2>3. "other" \in Kinds /\ after[r] \in {"queue", "done"} /\ (pc[r] = "form" => ~Detects(r))
    <3>1. after[r] \in {"queue", "done"}
      BY DEF IInv, TypeOK
    <3>2. pc[r] = "form" => ~Detects(r)
      BY DEF IInv, InOrder
    <3> QED BY <3>1, <3>2 DEF Kinds
  <2>4. CASE PrepareFails(r) \/ VisitFails(r) \/ LoginFails(r) \/ FormFails(r) \/ CommitFails(r)
    BY <2>1, <2>2, <2>3, <2>4
    DEF PrepareFails, VisitFails, LoginFails, FormFails, CommitFails, Refuse, Places
  <2>5. CASE ~(PrepareFails(r) \/ VisitFails(r) \/ LoginFails(r) \/ FormFails(r) \/ CommitFails(r))
    BY <1>2, <2>1, <2>3, <2>5
    DEF EnterSlot, Proceed, RequestCommitted, RequestCommitFails, Prepare, Visit, VisitAgain,
        LogIn, Validate, CountSuccess, SuccessCommitted, Succeed, MapCommitted, BackOff,
        FailureCommitted, FailureCommitFails, CleanUp, Places
  <2> QED BY <2>4, <2>5
<1>4. CASE CommitFails(r)
  <2>1. pc'[r] # "done" /\ anomaly'[r] # {}
    <3>1. PICK kind \in Kinds : HandleException(r, kind)
      BY <1>4 DEF CommitFails
    <3>2. \E place \in {"backoff", "commitFailure", "closing"} : Goto(r, place)
      BY <3>1, Handled DEF IInv, Retry, Refuse
    <3>3. pc'[r] # "done"
      BY <3>2, GotoStep DEF IInv, Places
    <3>4. anomaly'[r] # {}
      BY <1>4 DEF CommitFails, IInv, TypeOK
    <3> QED BY <3>3, <3>4
  <2>2. Promise!Hide(r)
    BY <1>1, <1>2, <1>3, <2>1, PromiseStep DEF Promise!Hide
  <2> QED BY <2>2 DEF Promise!Next
<1>5. CASE anomaly' = anomaly /\ pc'[r] # "done"
  <2>1. UNCHANGED <<MayPost, Phase, Hidden, Told>>
    BY <1>2, <1>3, <1>5, PromiseStep
  <2> QED BY <1>1, <2>1 DEF Promise!promiseVars
<1>6. CASE anomaly' = anomaly /\ pc'[r] = "done"
  <2>1. answer'[r] \in Statuses
    BY <1>6 DEF TypeOK, RequestInv, InOrder, Decided
  <2>2. r \in MayPost \ Hidden => posted[r] = IF answer'[r] = 200 THEN 1 ELSE 0
    BY <1>1, <1>6 DEF MayPost, Hidden, Live, RequestInv, TruthSoFar, Believed
  <2>3. UNCHANGED <<MayPost, Hidden>> /\ Phase' = [Phase EXCEPT ![r] = "answered"]
        /\ Told' = [Told EXCEPT ![r] = answer'[r]]
    BY <1>6, PromiseStep
  <2>4. Promise!Answer(r, answer'[r])
    BY <1>1, <1>2, <2>2, <2>3 DEF Promise!Answer
  <2> QED BY <2>1, <2>4 DEF Promise!Next
<1> QED BY <1>1, <1>4, <1>5, <1>6

\* Every step of the service is a step of the promise or leaves it alone.
LEMMA NextPromise ==
    ASSUME IInv, IInv', [Next]_vars
    PROVE  [Promise!Next]_(Promise!promiseVars)
<1>1. ASSUME NEW r \in Requests, Arrive(r) \/ EnterSlot(r) \/ Proceed(r)
      PROVE  [Promise!Next]_(Promise!promiseVars)
  <2>1. setting' = setting /\ \A u \in Requests \ {r} : Same(u)
    BY <1>1, StepType, InvParts
  <2>2. TypeOK' /\ RequestInv(r)'
    BY DEF IInv, RequestInv, NoContextLeft
  <2>3. CASE Arrive(r)
    BY <2>1, <2>3, ArrivalPromise
  <2>4. CASE Submit(r)
    <3>1. pc'[r] \notin {"new", "done"}
      <4>1. PICK o \in SubmitOutcomes(setting.faults) :
               \/ o.believed = "success" /\ CountSuccess(r)
               \/ o.believed # "success" /\ HandleWaybillError(r, o.believed)
        BY <2>4 DEF Submit
      <4>2. \E place \in {"commitSuccess", "backoff", "commitFailure"} : Goto(r, place)
        BY <4>1 DEF CountSuccess, HandleWaybillError, Retry, Refuse
      <4> QED BY <4>2, GotoStep DEF IInv, Places
    <3> QED BY <2>1, <2>4, <3>1, SubmitPromise
  <2>5. CASE (EnterSlot(r) \/ Proceed(r)) /\ ~Submit(r)
    BY <2>1, <2>2, <2>5, ProceedPromise
  <2> QED BY <1>1, <2>3, <2>4, <2>5
<1>2. CASE UNCHANGED vars
  BY <1>2 DEF vars, counts, Promise!promiseVars, MayPost, Phase, Hidden, Told, Live
<1> QED BY <1>1, <1>2 DEF Next

\* A request submits only what it may, one waybill at most unless that was hidden
\* from the code, is told the truth about it, and is over once answered.
THEOREM PromiseKept == Spec => ImplementsPromise
<1>1. Init => Promise!Init
  BY InitPromise
<1>2. IInv /\ IInv' /\ [Next]_vars => [Promise!Next]_(Promise!promiseVars)
  BY NextPromise
<1> QED BY <1>1, <1>2, Invariance, PTL DEF Spec, ImplementsPromise, Promise!Spec

----------------------------------------------------------------------------
(* How long a request can be                                                *)

\* The places in the order in which an attempt passes them, the last one first.
PlaceNumber(place) ==
    [done |-> 0, commitRequest |-> 1, closing |-> 1, backoff |-> 2, commitFailure |-> 2,
     commitMap |-> 3, commitSuccess |-> 4, form |-> 5, login |-> 6, visit |-> 6,
     prepare |-> 7, queue |-> 8, new |-> 8][place]

\* What the loop of r has left: visits of detect_map, attempts of eight steps otherwise.
RoundsLeft(r) ==
    IF Detects(r) THEN GotoAttempts - visits[r] ELSE 8 * (MaxAttempts - attempt[r])

\* A bound of the steps that r has before it.
StepsLeft(r) == PlaceNumber(pc[r]) + RoundsLeft(r)

\* A step leaves its request less to do, and the other requests as much as before:
\* nobody's retry starts the loop of somebody else again.
StepsRunOut ==
    [][\E r \in Requests :
          /\ StepsLeft(r)' < StepsLeft(r)
          /\ \A u \in Requests \ {r} : StepsLeft(u)' = StepsLeft(u)]_vars

\* How many steps a request may have.
StepsBounded ==
    \A r \in Requests :
        StepsLeft(r) \in 0..(IF Detects(r) THEN 7 + GotoAttempts ELSE 8 + 8 * MaxAttempts)

\* The number of each place.
LEMMA PlaceNumbers ==
    /\ PlaceNumber("done") = 0 /\ PlaceNumber("commitRequest") = 1
    /\ PlaceNumber("closing") = 1 /\ PlaceNumber("backoff") = 2
    /\ PlaceNumber("commitFailure") = 2 /\ PlaceNumber("commitMap") = 3
    /\ PlaceNumber("commitSuccess") = 4 /\ PlaceNumber("form") = 5
    /\ PlaceNumber("login") = 6 /\ PlaceNumber("visit") = 6 /\ PlaceNumber("prepare") = 7
    /\ PlaceNumber("queue") = 8 /\ PlaceNumber("new") = 8
BY DEF PlaceNumber

\* Numbers and rounds are numbers.
LEMMA LeftTypes ==
    ASSUME TypeOK, NEW r \in Requests
    PROVE  /\ PlaceNumber(pc[r]) \in 0..8
           /\ RoundsLeft(r) \in 0..(IF Detects(r) THEN GotoAttempts - 1 ELSE 8 * MaxAttempts)
<1>1. pc[r] \in Places /\ attempt[r] \in 0..MaxAttempts /\ visits[r] \in 1..GotoAttempts
  BY DEF TypeOK
<1>2. PlaceNumber(pc[r]) \in 0..8
  BY <1>1, PlaceNumbers DEF Places
<1>3. RoundsLeft(r) \in 0..(IF Detects(r) THEN GotoAttempts - 1 ELSE 8 * MaxAttempts)
  BY <1>1, BoundTypes DEF RoundsLeft
<1> QED BY <1>2, <1>3

\* A step within a round leads to a place nearer to its end.
LEMMA NearerShortens ==
    ASSUME TypeOK, NEW r \in Requests, UNCHANGED <<setting, attempt, visits>>,
           NEW place \in Places, Goto(r, place), PlaceNumber(place) < PlaceNumber(pc[r])
    PROVE  StepsLeft(r)' < StepsLeft(r)
<1>1. pc'[r] = place
  BY GotoStep
<1>2. RoundsLeft(r)' = RoundsLeft(r)
  BY DEF RoundsLeft, Detects
<1>3. PlaceNumber(pc[r]) \in Int /\ RoundsLeft(r) \in Int /\ PlaceNumber(place) \in Int
  BY LeftTypes, BoundTypes, PlaceNumbers DEF Places
<1> QED BY <1>1, <1>2, <1>3 DEF StepsLeft

\* Whatever ends an attempt leads to its end.
LEMMA HandlersShorten ==
    ASSUME TypeOK, NEW r \in Requests, RequestInv(r), UNCHANGED <<setting, attempt, visits>>,
           pc[r] \in {"prepare", "visit", "login", "form", "commitSuccess", "commitMap"},
           \/ \E kind \in Kinds : HandleException(r, kind)
           \/ ~Detects(r) /\ \E kind \in Kinds : HandleWaybillError(r, kind)
           \/ Refuse(r, 401)
    PROVE  StepsLeft(r)' < StepsLeft(r)
<1>1. \E place \in {"backoff", "commitFailure", "closing"} : Goto(r, place)
  BY DEF HandleException, HandleWaybillError, Retry, Refuse
<1>2. PICK place \in {"backoff", "commitFailure", "closing"} : Goto(r, place)
  BY <1>1
<1>3. place \in Places /\ PlaceNumber(place) <= 2 /\ PlaceNumber(pc[r]) >= 3
      /\ PlaceNumber(place) \in Int /\ PlaceNumber(pc[r]) \in Int
  BY <1>2, PlaceNumbers DEF Places
<1> QED BY <1>2, <1>3, NearerShortens

\* Every step of a request leaves it less to do.
LEMMA StepShortens ==
    ASSUME TypeOK, NEW r \in Requests, RequestInv(r),
           Arrive(r) \/ EnterSlot(r) \/ Proceed(r)
    PROVE  StepsLeft(r)' < StepsLeft(r)
<1>0. Places = {"new", "commitRequest", "queue", "prepare", "visit", "login", "form",
                "commitSuccess", "commitMap", "backoff", "commitFailure", "closing", "done"}
  BY DEF Places
<1>1. CASE Arrive(r) \/ RequestCommitFails(r)
  <2>1. UNCHANGED <<setting, attempt, visits>>
    BY <1>1 DEF Arrive, Forbid, Accept, StartDetect, RequestCommitFails
  <2>2. CASE Forbid(r) \/ RequestCommitFails(r)
    <3>1. Goto(r, "done") /\ pc[r] \in {"new", "commitRequest"}
      BY <2>2 DEF Forbid, RequestCommitFails
    <3> QED BY <1>0, <2>1, <3>1, PlaceNumbers, NearerShortens
  <2>3. CASE Accept(r)
    BY <1>0, <2>1, <2>3, PlaceNumbers, NearerShortens DEF Accept
  <2>4. CASE StartDetect(r)
    BY <1>0, <2>1, <2>4, PlaceNumbers, NearerShortens DEF StartDetect
  <2> QED BY <1>1, <2>2, <2>3, <2>4 DEF Arrive
<1>2. CASE RequestCommitted(r)
  <2>1. /\ attempt[r] = 0 /\ ~Detects(r) /\ pc[r] = "commitRequest"
    BY <1>2 DEF RequestCommitted, RequestInv, InOrder
  <2>2. attempt'[r] = 1 /\ pc'[r] = "queue" /\ setting' = setting
    BY <1>0, <1>2, GotoStep DEF RequestCommitted, TypeOK
  <2> QED BY <2>1, <2>2, PlaceNumbers, BoundTypes DEF StepsLeft, RoundsLeft, Detects
<1>3. CASE EnterSlot(r) \/ Prepare(r) \/ Visit(r) \/ LogIn(r) \/ BackOff(r)
  <2>1. UNCHANGED <<setting, attempt, visits>>
    BY <1>3 DEF EnterSlot, Prepare, Visit, LogIn, BackOff
  <2>2. CASE EnterSlot(r)
    BY <1>0, <2>1, <2>2, PlaceNumbers, NearerShortens DEF EnterSlot
  <2>3. CASE Prepare(r)
    <3>1. PICK place \in {"visit", "login"} : Goto(r, place)
      BY <2>3 DEF Prepare
    <3> QED BY <1>0, <2>1, <2>3, <3>1, PlaceNumbers, NearerShortens DEF Prepare
  <2>4. CASE Visit(r)
    BY <1>0, <2>1, <2>4, PlaceNumbers, NearerShortens DEF Visit
  <2>5. CASE LogIn(r)
    BY <1>0, <2>1, <2>5, PlaceNumbers, NearerShortens DEF LogIn
  <2>6. CASE BackOff(r)
    BY <1>0, <2>1, <2>6, PlaceNumbers, NearerShortens DEF BackOff
  <2> QED BY <1>3, <2>2, <2>3, <2>4, <2>5, <2>6
<1>4. CASE VisitAgain(r)
  <2>1. Detects(r)
    BY <1>4 DEF VisitAgain, RequestInv, InOrder
  <2>2. visits[r] \in 1..GotoAttempts /\ visits'[r] = visits[r] + 1 /\ UNCHANGED <<pc, setting>>
    BY <1>4 DEF VisitAgain, TypeOK
  <2>3. PlaceNumber(pc[r]) \in Int
    BY LeftTypes
  <2> QED BY <2>1, <2>2, <2>3, BoundTypes DEF StepsLeft, RoundsLeft, Detects
<1>5. CASE PrepareFails(r) \/ VisitFails(r) \/ LoginFails(r) \/ FormFails(r) \/ CommitFails(r)
  <2>1. UNCHANGED <<setting, attempt, visits>>
    BY <1>5 DEF PrepareFails, VisitFails, LoginFails, FormFails, CommitFails
  <2>2. pc[r] \in {"prepare", "visit", "login", "form", "commitSuccess", "commitMap"}
    BY <1>5 DEF PrepareFails, VisitFails, LoginFails, FormFails, CommitFails
  <2>3. \/ \E kind \in Kinds : HandleException(r, kind)
        \/ ~Detects(r) /\ \E kind \in Kinds : HandleWaybillError(r, kind)
        \/ Refuse(r, 401)
    BY <1>5 DEF PrepareFails, VisitFails, LoginFails, FormFails, CommitFails, RequestInv,
                InOrder, Kinds
  <2> QED BY <2>1, <2>2, <2>3, HandlersShorten
<1>6. CASE Validate(r) \/ Submit(r)
  <2>1. UNCHANGED <<setting, attempt, visits>> /\ pc[r] = "form" /\ ~Detects(r)
    BY <1>6 DEF Validate, Submit, RequestInv, InOrder
  <2>2. CASE CountSuccess(r)
    BY <1>0, <2>1, <2>2, PlaceNumbers, NearerShortens DEF CountSuccess
  <2>3. CASE \E kind \in Kinds : HandleWaybillError(r, kind)
    BY <2>1, <2>3, HandlersShorten
  <2>4. CountSuccess(r) \/ \E kind \in Kinds : HandleWaybillError(r, kind)
    BY <1>6, Outcomes DEF Validate, Submit
  <2> QED BY <2>2, <2>3, <2>4
<1>7. CASE SuccessCommitted(r) \/ MapCommitted(r)
  <2>1. UNCHANGED <<setting, attempt, visits>>
    BY <1>7 DEF SuccessCommitted, MapCommitted
  <2>2. CASE SuccessCommitted(r)
    <3>1. PICK place \in {"closing", "commitMap"} : Goto(r, place)
      BY <2>2 DEF SuccessCommitted, Succeed
    <3> QED BY <1>0, <2>1, <2>2, <3>1, PlaceNumbers, NearerShortens DEF SuccessCommitted
  <2>3. CASE MapCommitted(r)
    BY <1>0, <2>1, <2>3, PlaceNumbers, NearerShortens DEF MapCommitted, Succeed
  <2> QED BY <1>7, <2>2, <2>3
<1>8. CASE FailureCommitted(r) \/ FailureCommitFails(r)
  <2>1. UNCHANGED <<setting, attempt, visits>> /\ pc[r] = "commitFailure" /\ Goto(r, "closing")
    BY <1>8 DEF FailureCommitted, FailureCommitFails
  <2> QED BY <1>0, <2>1, PlaceNumbers, NearerShortens
<1>9. CASE CleanUp(r)
  <2>1. UNCHANGED <<setting, visits>> /\ pc[r] = "closing" /\ after[r] \in {"queue", "done"}
        /\ attempt[r] \in 0..MaxAttempts
    BY <1>9 DEF CleanUp, TypeOK
  <2>2. pc'[r] = after[r]
    BY <1>0, <1>9, <2>1, GotoStep DEF CleanUp
  <2>3. CASE after[r] = "queue"
    <3>1. attempt[r] < MaxAttempts /\ ~Detects(r)
      BY <2>1, <2>3 DEF RequestInv, InOrder, Retried
    <3>2. attempt'[r] = attempt[r] + 1
      BY <1>9, <2>3 DEF CleanUp, TypeOK
    <3> QED BY <2>1, <2>2, <2>3, <3>1, <3>2, PlaceNumbers, BoundTypes
        DEF StepsLeft, RoundsLeft, Detects
  <2>4. CASE after[r] = "done"
    <3>1. attempt'[r] = attempt[r]
      BY <1>9, <2>4 DEF CleanUp, TypeOK
    <3>2. RoundsLeft(r)' = RoundsLeft(r) /\ RoundsLeft(r) \in Int
      BY <2>1, <3>1, LeftTypes, BoundTypes DEF RoundsLeft, Detects
    <3> QED BY <2>1, <2>2, <2>4, <3>2, PlaceNumbers DEF StepsLeft
  <2> QED BY <2>1, <2>3, <2>4
<1> QED
  BY <1>1, <1>2, <1>3, <1>4, <1>5, <1>6, <1>7, <1>8, <1>9 DEF Arrive, Proceed

\* It leaves every other request as it was.
LEMMA OthersKeep ==
    ASSUME TypeOK, NEW r \in Requests, RequestInv(r),
           Arrive(r) \/ EnterSlot(r) \/ Proceed(r), NEW u \in Requests \ {r}
    PROVE  StepsLeft(u)' = StepsLeft(u)
<1>1. setting' = setting /\ Same(u)
  BY StepType
<1>2. visits'[u] = visits[u]
  <2>1. CASE VisitAgain(r)
    BY <2>1 DEF VisitAgain, TypeOK
  <2>2. CASE ~VisitAgain(r)
    BY <2>2 DEF Arrive, EnterSlot, Proceed, Forbid, Accept, StartDetect, RequestCommitted,
       RequestCommitFails, Prepare, PrepareFails, Visit, VisitFails, LogIn, LoginFails,
       Validate, FormFails, Submit, SuccessCommitted, MapCommitted, CommitFails, BackOff,
       FailureCommitted, FailureCommitFails, CleanUp
  <2> QED BY <2>1, <2>2
<1> QED BY <1>1, <1>2 DEF Same, StepsLeft, RoundsLeft, Detects

\* Neither loop (the attempts of create_waybill_with_map, waybill_service.py:69-204,
\* and the visits of detect_map, lines 34-51) goes round without using up one of its
\* rounds, also when what fails is the report of a success or of a failure; and no
\* request makes another one begin again.
THEOREM RunsOut == Spec => StepsRunOut
<1>1. IInv /\ [Next]_vars =>
          [\E r \in Requests :
              /\ StepsLeft(r)' < StepsLeft(r)
              /\ \A u \in Requests \ {r} : StepsLeft(u)' = StepsLeft(u)]_vars
  <2> SUFFICES ASSUME IInv, Next
               PROVE  \E r \in Requests :
                         /\ StepsLeft(r)' < StepsLeft(r)
                         /\ \A u \in Requests \ {r} : StepsLeft(u)' = StepsLeft(u)
    OBVIOUS
  <2>1. TypeOK /\ \A r \in Requests : RequestInv(r)
    BY InvParts
  <2>2. PICK r \in Requests : Arrive(r) \/ EnterSlot(r) \/ Proceed(r)
    BY DEF Next
  <2> QED BY <2>1, <2>2, StepShortens, OthersKeep
<1> QED BY <1>1, Invariance, PTL DEF Spec, StepsRunOut

\* So a waybill takes at most 8 * (MaxAttempts + 1) steps, and the detection of a map
\* at most 7 + GotoAttempts.
THEOREM RunsShort == Spec => []StepsBounded
<1>1. IInv => StepsBounded
  <2> SUFFICES ASSUME IInv, NEW r \in Requests
               PROVE  StepsLeft(r) \in
                          0..(IF Detects(r) THEN 7 + GotoAttempts ELSE 8 + 8 * MaxAttempts)
    BY DEF StepsBounded
  <2> QED BY LeftTypes, BoundTypes DEF IInv, StepsLeft
<1> QED BY <1>1, Invariance, PTL

----------------------------------------------------------------------------
(* The slots                                                                *)

\* No more attempts at work than there are slots.
SlotsRespected == Cardinality(InSlot) <= Permits

\* Nothing but EnterSlot brings a request into the body of a slot.
LEMMA NobodySlipsIn ==
    ASSUME TypeOK, NEW r \in Requests, RequestInv(r), Arrive(r) \/ Proceed(r)
    PROVE  InSlot' \subseteq InSlot
<1>0. Places = {"new", "commitRequest", "queue", "prepare", "visit", "login", "form",
                "commitSuccess", "commitMap", "backoff", "commitFailure", "closing", "done"}
  BY DEF Places
<1>1. setting' = setting /\ \A u \in Requests \ {r} : pc'[u] = pc[u]
  BY StepType DEF Same
<1>2. ~Detects(r) /\ pc'[r] \in {"prepare", "login", "form", "commitSuccess", "commitMap"}
          => pc[r] \in {"prepare", "login", "form", "commitSuccess", "commitMap"}
  <2>1. CASE Arrive(r) \/ RequestCommitted(r) \/ RequestCommitFails(r)
    BY <1>0, <2>1, GotoStep
    DEF Arrive, Forbid, Accept, StartDetect, RequestCommitted, RequestCommitFails
  <2>2. CASE BackOff(r) \/ FailureCommitted(r) \/ FailureCommitFails(r)
    BY <1>0, <2>2, GotoStep DEF BackOff, FailureCommitted, FailureCommitFails
  <2>3. CASE CleanUp(r)
    BY <1>0, <2>3, GotoStep DEF CleanUp, TypeOK
  <2>4. CASE pc[r] \in {"prepare", "login", "form", "commitSuccess", "commitMap"}
    BY <2>4
  <2>5. CASE pc[r] = "visit"
    BY <2>5 DEF RequestInv, InOrder
  <2>6. \/ Arrive(r) \/ RequestCommitted(r) \/ RequestCommitFails(r)
        \/ BackOff(r) \/ FailureCommitted(r) \/ FailureCommitFails(r) \/ CleanUp(r)
        \/ pc[r] \in {"prepare", "login", "form", "commitSuccess", "commitMap", "visit"}
    BY DEF Proceed, Prepare, PrepareFails, Visit, VisitAgain, VisitFails, LogIn, LoginFails,
           Validate, FormFails, Submit, SuccessCommitted, MapCommitted, CommitFails
  <2> QED BY <2>1, <2>2, <2>3, <2>4, <2>5, <2>6
<1> QED BY <1>1, <1>2 DEF InSlot, Detects

\* An attempt gives its slot back before its request pauses, answers or asks for another
\* one (waybill_service.py:75-204): so there are never more requests in slots than
\* slots, whatever fails.
THEOREM SlotsKept == Spec => []SlotsRespected
<1>0. IsFiniteSet(InSlot) /\ Cardinality(InSlot) \in Nat
  BY ServiceAssumption, FS_Subset, FS_CardinalityType DEF InSlot
<1>1. Init => SlotsRespected
  <2> SUFFICES ASSUME Init PROVE SlotsRespected
    OBVIOUS
  <2>1. InSlot = {}
    BY DEF Init, InSlot
  <2> QED BY <2>1, FS_EmptySet, BoundTypes DEF SlotsRespected
<1>2. IInv /\ SlotsRespected /\ [Next]_vars => SlotsRespected'
  <2> SUFFICES ASSUME IInv, SlotsRespected, [Next]_vars PROVE Cardinality(InSlot') <= Permits
    BY DEF SlotsRespected, Permits
  <2>1. TypeOK /\ \A r \in Requests : RequestInv(r)
    BY InvParts
  <2>2. ASSUME InSlot' \subseteq InSlot PROVE Cardinality(InSlot') <= Permits
    <3>1. Cardinality(InSlot') <= Cardinality(InSlot) /\ Cardinality(InSlot') \in Nat
      BY <1>0, <2>2, FS_Subset, FS_CardinalityType
    <3> QED BY <1>0, <3>1, BoundTypes DEF SlotsRespected
  <2>3. ASSUME NEW r \in Requests, EnterSlot(r) PROVE Cardinality(InSlot') <= Permits
    <3>1. setting' = setting /\ \A u \in Requests \ {r} : pc'[u] = pc[u]
      BY <2>1, <2>3, StepType DEF Same
    <3>2. InSlot' \subseteq InSlot \cup {r}
      BY <3>1 DEF InSlot, Detects
    <3>3. /\ IsFiniteSet(InSlot \cup {r})
          /\ Cardinality(InSlot \cup {r}) <= Cardinality(InSlot) + 1
          /\ Cardinality(InSlot \cup {r}) \in Nat
      <4>1. /\ IsFiniteSet(InSlot \cup {r})
            /\ \/ Cardinality(InSlot \cup {r}) = Cardinality(InSlot)
               \/ Cardinality(InSlot \cup {r}) = Cardinality(InSlot) + 1
        BY <1>0, FS_AddElement
      <4> QED BY <1>0, <4>1
    <3>4. Cardinality(InSlot') <= Cardinality(InSlot \cup {r}) /\ Cardinality(InSlot') \in Nat
      BY <3>2, <3>3, FS_Subset, FS_CardinalityType
    <3>5. Cardinality(InSlot) < Permits
      BY <2>3 DEF EnterSlot
    <3> QED BY <1>0, <3>3, <3>4, <3>5, BoundTypes
  <2>4. CASE UNCHANGED vars
    BY <2>2, <2>4 DEF vars, InSlot, Detects
  <2> QED BY <2>1, <2>2, <2>3, <2>4, NobodySlipsIn DEF Next
<1> QED BY <1>1, <1>2, Invariance, PTL DEF Spec
=============================================================================
