------------------------- MODULE WaybillFormProofs -------------------------
(***************************************************************************)
(* What TLAPS proves of WaybillForm, for any number of retries, any forms, *)
(* requests and faults: that a run keeps to SubmitContract, on which       *)
(* WaybillService relies, that nothing is taken, or called ready, that     *)
(* lacks what was asked, and how many steps a run can have.                *)
(***************************************************************************)
EXTENDS WaybillForm, TLAPS

\* The places before anything is submitted.
Reaching == {"visit", "ensure", "recover", "links", "menu", "urls", "verdict", "fill"}

\* Every step of the manager up to the submission.
Approach ==
    \/ Visit \/ VisitFails \/ Ensure \/ Move \/ MovesUsedUp \/ Links \/ Verdict
    \/ FillStage \/ FillFails \/ Filled

\* Every step of the submission.
Submission == SubmitClick \/ ClickAgain \/ ClickElsewhere \/ ClickFails \/ Judge

----------------------------------------------------------------------------
(* The stages and their values                                              *)

\* There are seven stages, each has values, and the wizard goes on after two.
LEMMA StageFacts ==
    /\ Len(Stages) = 7
    /\ \A i \in 1..7 :
          /\ ValuesOf[Stages[i]] \subseteq Values
          /\ Stages[i] \in {"sender", "receiver"} => i \in 1..2
<1>1. Len(Stages) = 7
  BY DEF Stages
<1>2. ASSUME NEW i \in 1..7 PROVE Stages[i] \in {"sender", "receiver"} => i \in 1..2
  BY DEF Stages
<1>3. ASSUME NEW i \in 1..7 PROVE ValuesOf[Stages[i]] \subseteq Values
  <2>1. /\ ValuesOf["sender"] \subseteq Values /\ ValuesOf["receiver"] \subseteq Values
        /\ ValuesOf["origin"] \subseteq Values /\ ValuesOf["destination"] \subseteq Values
        /\ ValuesOf["cargo"] \subseteq Values /\ ValuesOf["vehicle"] \subseteq Values
        /\ ValuesOf["financial"] \subseteq Values
    BY DEF ValuesOf, Values, Optional, Choices
  <2>2. Stages[i] \in {"sender", "receiver", "origin", "destination", "cargo", "vehicle",
                       "financial"}
    BY DEF Stages
  <2> QED BY <2>1, <2>2
<1> QED BY <1>1, <1>2, <1>3

\* No value is left out by all of them.
LEMMA StagesCoverValues == \A v \in Values : \E i \in 1..7 : v \in ValuesOf[Stages[i]]
<1>1. /\ ValuesOf[Stages[1]] = SenderTexts
      /\ ValuesOf[Stages[2]] = ReceiverTexts
      /\ ValuesOf[Stages[3]] = {"origin"}
      /\ ValuesOf[Stages[4]] = {"destination"}
      /\ ValuesOf[Stages[5]] = CargoTexts \cup {"cargoType"}
      /\ ValuesOf[Stages[6]] = VehicleTexts \cup {"vehicleType"}
      /\ ValuesOf[Stages[7]] = FinancialTexts \cup {"payment"}
  BY DEF Stages, ValuesOf
<1>2. ASSUME NEW v \in Values
      PROVE  \/ v \in SenderTexts \/ v \in ReceiverTexts \/ v \in {"origin"}
             \/ v \in {"destination"} \/ v \in CargoTexts \cup {"cargoType"}
             \/ v \in VehicleTexts \cup {"vehicleType"} \/ v \in FinancialTexts \cup {"payment"}
  <2>1. Values = SenderTexts \cup ReceiverTexts \cup {"origin", "destination"} \cup CargoTexts
                     \cup ({"description"} \cup VehicleTexts \cup FinancialTexts \cup Choices)
    BY DEF Values, Optional
  <2>2. "description" \in CargoTexts /\ Choices = {"cargoType", "vehicleType", "payment"}
    BY DEF CargoTexts, Choices
  <2> QED BY <2>1, <2>2
<1> QED BY <1>1, <1>2

\* Once every stage is passed, the form holds all that was asked, choices apart.
LEMMA Complete ==
    ASSUME TypeOK, EnteredSoFar, stage > Len(Stages), pc \notin {"judge", "done"}
    PROVE  reloaded \/ asked \ onForm \subseteq Choices
<1>1. stage - 1 = 7
  BY StageFacts DEF TypeOK
<1> SUFFICES ASSUME ~reloaded, NEW v \in asked, v \notin onForm PROVE v \in Choices
  OBVIOUS
<1>2. PICK i \in 1..7 : v \in ValuesOf[Stages[i]]
  BY StagesCoverValues DEF TypeOK
<1>3. (ValuesOf[Stages[i]] \cap asked) \ Choices \subseteq onForm
  BY <1>1 DEF EnteredSoFar
<1> QED BY <1>2, <1>3

\* There is at least one visit.
LEMMA GotoBound == GotoAttempts \in Nat \ {0}
BY FormAssumption DEF GotoAttempts

\* A form is a page.
LEMMA Pages == Forms \subseteq SitePages /\ Page("menu", "elsewhere") \in SitePages
BY DEF SitePages

----------------------------------------------------------------------------
(* Types and places                                                         *)

\* A page that is reached is a page of the site.
LEMMA ArriveStep ==
    ASSUME TypeOK, InOrder, NEW p \in SitePages \cup {page}, Arrive(p), stage' = stage
    PROVE  /\ page' \in SitePages \cup AfterSubmit
           /\ step' \in 1..3 /\ step' <= stage'
<1>1. page' = p /\ step' \in {step, 1}
  BY DEF Arrive
<1> QED BY <1>1 DEF TypeOK, InOrder

\* The wizard is never ahead of the stages, so it has at most three steps.
LEMMA WizardStep ==
    ASSUME TypeOK, InOrder, ~AllFilled, NextStep, stage' = stage + 1
    PROVE  step' \in 1..3 /\ step' <= stage' /\ stage' \in 1..Len(Stages) + 1
<1>1. stage \in 1..7 /\ Len(Stages) = 7
  BY StageFacts DEF TypeOK, AllFilled
<1>2. CASE UNCHANGED step
  BY <1>1, <1>2 DEF TypeOK, InOrder
<1>3. CASE Stages[stage] \in {"sender", "receiver"} /\ step' = step + 1
  <2>1. stage \in 1..2
    BY <1>1, <1>3, StageFacts
  <2> QED BY <1>1, <1>3, <2>1 DEF TypeOK, InOrder
<1> QED BY <1>2, <1>3 DEF NextStep

\* Until the submission nothing is taken and nothing hidden, and it stays so.
LEMMA ApproachKeeps ==
    ASSUME TypeOK, InOrder, Approach
    PROVE  /\ UNCHANGED <<input, outcome>>
           /\ pc \in Reaching
           /\ Posts = 0 /\ hidden = {} /\ Posts' = 0 /\ hidden' = {}
           /\ result = "none"
           /\ pc' = "done" <=> result' # "none"
           /\ result' \in {"none", "net", "other", "validated"}
           /\ result' = "net" => "net" \in Faults
           /\ result' = "validated" => Filled
           /\ pc' \in Reaching \cup {"submit", "done"}
           /\ pc' = "submit" => ~dryRun /\ Filled
<1>1. Visit => UNCHANGED <<input, outcome, result>> /\ pc = "visit" /\ pc' = "ensure"
  BY DEF Visit
<1>2. VisitFails =>
          /\ UNCHANGED <<input, outcome>> /\ pc = "visit"
          /\ \/ pc' = "visit" /\ result' = result
             \/ pc' = "done" /\ result' = "net" /\ "net" \in Faults
             \/ pc' = "done" /\ result' = "other"
  BY DEF VisitFails, Raise
<1>3. Ensure => /\ UNCHANGED <<input, outcome, result>> /\ pc = "ensure"
                /\ pc' \in {"fill", "recover", "links"}
  BY DEF Ensure
<1>4. Move => /\ UNCHANGED <<input, outcome, result>> /\ pc \in {"recover", "menu", "urls"}
              /\ pc' \in {"fill", pc}
  BY DEF Move, Searching
<1>5. MovesUsedUp =>
          /\ UNCHANGED <<input, outcome, result>> /\ pc \in {"recover", "menu", "urls"}
          /\ pc' \in {"links", "urls", "verdict"}
  BY DEF MovesUsedUp, Searching, NextSearch
<1>6. Links => /\ UNCHANGED <<input, outcome>> /\ pc = "links"
               /\ \/ pc' = "done" /\ result' = "other"
                  \/ pc' = "menu" /\ result' = result
  BY DEF Links, Raise
<1>7. Verdict => /\ UNCHANGED <<input, outcome>> /\ pc = "verdict"
                 /\ \/ pc' = "done" /\ result' = "other"
                    \/ pc' = "fill" /\ result' = result
  BY DEF Verdict, Raise
<1>8. FillStage => UNCHANGED <<input, outcome, result>> /\ pc = "fill" /\ pc' = pc
  BY DEF FillStage
<1>9. FillFails =>
          /\ UNCHANGED <<input, outcome>> /\ pc = "fill" /\ pc' = "done"
          /\ result' = "other" \/ (result' = "net" /\ "net" \in Faults)
  BY DEF FillFails, Raise
<1>10. Filled => /\ UNCHANGED <<input, outcome>> /\ pc = "fill"
                 /\ \/ pc' = "done" /\ result' = "validated"
                    \/ pc' = "submit" /\ result' = result /\ ~dryRun
  BY DEF Filled, StopsHere
<1>11. UNCHANGED <<input, outcome>> /\ pc \in Reaching
  BY <1>1, <1>2, <1>3, <1>4, <1>5, <1>6, <1>7, <1>8, <1>9, <1>10 DEF Approach, Reaching
<1>12. Posts = 0 /\ hidden = {} /\ result = "none"
  BY <1>11 DEF InOrder, Reaching
<1>13. Posts' = 0 /\ hidden' = {}
  BY <1>11, <1>12 DEF Posts, outcome
<1> QED BY <1>1, <1>2, <1>3, <1>4, <1>5, <1>6, <1>7, <1>8, <1>9, <1>10, <1>11, <1>12, <1>13
        DEF Approach, Reaching

\* An approach keeps the types.
LEMMA ApproachType ==
    ASSUME TypeOK, InOrder, EnteredSoFar, Approach
    PROVE  TypeOK' /\ step' <= stage'
<1>1. /\ UNCHANGED <<dryRun, asked, reloaded, taken, hidden>>
      /\ pc' \in Places /\ result' \in Beliefs \cup {"validated", "none"}
  <2>1. Reaching \cup {"submit", "done"} \subseteq Places
    BY DEF Reaching, Places
  <2> QED BY <2>1, ApproachKeeps DEF input, outcome, Beliefs
<1> SUFFICES /\ tries' \in 1..GotoAttempts
             /\ moves' \in 0..RecoveryMoves
             /\ page' \in SitePages \cup AfterSubmit
             /\ step' \in 1..3
             /\ stage' \in 1..Len(Stages) + 1
             /\ onForm' \subseteq Values
             /\ step' <= stage'
  BY <1>1 DEF TypeOK
<1>2. CASE Visit
  BY <1>2, ArriveStep DEF Visit, TypeOK
<1>3. CASE VisitFails
  BY <1>3, GotoBound DEF VisitFails, VisitsLeft, TypeOK, InOrder
<1>4. CASE Ensure
  BY <1>4 DEF Ensure, TypeOK, InOrder, RecoveryMoves
<1>5. CASE Move
  <2>1. PICK p \in SitePages \cup {page} : Arrive(p)
    BY <1>5 DEF Move
  <2>2. UNCHANGED <<tries, stage, onForm>> /\ moves > 0 /\ moves' = moves - 1
    BY <1>5 DEF Move
  <2>3. page' \in SitePages \cup AfterSubmit /\ step' \in 1..3 /\ step' <= stage'
    BY <2>1, <2>2, ArriveStep
  <2> QED BY <2>2, <2>3 DEF TypeOK, RecoveryMoves
<1>6. CASE MovesUsedUp
  <2>1. pc' \in {"links", "urls", "verdict"}
    BY <1>6 DEF MovesUsedUp, Searching, NextSearch
  <2>2. moves' \in {0, UrlMoves}
    BY <1>6, <2>1 DEF MovesUsedUp
  <2> QED BY <1>6, <2>2 DEF MovesUsedUp, TypeOK, InOrder, RecoveryMoves, UrlMoves
<1>7. CASE Links
  BY <1>7 DEF Links, TypeOK, InOrder, RecoveryMoves, MenuMoves
<1>8. CASE Verdict
  BY <1>8 DEF Verdict, TypeOK, InOrder
<1>9. CASE FillStage
  <2>1. onForm' \subseteq Values
    <3>1. Due \subseteq Values
      BY DEF Due, TypeOK
    <3> QED BY <1>9, <3>1 DEF FillStage, TypeOK
  <2> QED BY <1>9, <2>1, WizardStep DEF FillStage, TypeOK
<1>10. CASE FillFails
  BY <1>10 DEF FillFails, TypeOK, InOrder
<1>11. CASE Filled
  BY <1>11 DEF Filled, TypeOK, InOrder
<1> QED BY <1>2, <1>3, <1>4, <1>5, <1>6, <1>7, <1>8, <1>9, <1>10, <1>11 DEF Approach

\* What the form holds, after an approach.
LEMMA ApproachEntered ==
    ASSUME TypeOK, InOrder, EnteredSoFar, Approach
    PROVE  EnteredSoFar'
<1>0. pc \in Reaching
  BY ApproachKeeps
<1>1. CASE FillStage
  <2>1. PICK passed \in SUBSET (Due \cap Choices) : onForm' = onForm \cup (Due \ passed)
    BY <1>1 DEF FillStage
  <2>2. UNCHANGED <<asked, reloaded>> /\ stage' = stage + 1
    BY <1>1 DEF FillStage, input, outcome
  <2>3. onForm' \subseteq asked'
    BY <2>1, <2>2 DEF EnteredSoFar, Due
  <2>4. ASSUME ~reloaded, NEW i \in 1..stage
        PROVE  (ValuesOf[Stages[i]] \cap asked) \ Choices \subseteq onForm'
    <3>1. CASE i = stage
      BY <2>1, <3>1 DEF Due
    <3>2. CASE i # stage
      <4>1. i \in 1..stage - 1
        BY <3>2 DEF TypeOK
      <4> QED BY <1>0, <2>1, <2>4, <4>1 DEF EnteredSoFar, Reaching
    <3> QED BY <3>1, <3>2
  <2>5. 1..stage' - 1 = 1..stage
    BY <2>2 DEF TypeOK
  <2> QED BY <2>2, <2>3, <2>4, <2>5 DEF EnteredSoFar
<1>2. CASE ~FillStage
  <2>1. UNCHANGED <<onForm, asked, reloaded, stage>>
    BY <1>2 DEF Approach, Visit, VisitFails, Ensure, Move, MovesUsedUp, Links, Verdict, FillFails,
                Filled, input, outcome
  <2> QED BY <1>0, <2>1 DEF EnteredSoFar, Reaching
<1> QED BY <1>1, <1>2

\* What has happened, after an approach.
LEMMA ApproachOrder ==
    ASSUME TypeOK, InOrder, EnteredSoFar, Approach
    PROVE  InOrder'
<1>1. pc' = "fill" => reloaded' \/ IsForm(page)'
  <2>1. CASE Ensure \/ Verdict \/ FillStage
    BY <2>1 DEF Ensure, Verdict, FillStage, InOrder, IsForm, outcome, Raise
  <2>2. CASE Move
    BY <2>2 DEF Move, Searching, IsForm
  <2>3. CASE Visit \/ VisitFails \/ MovesUsedUp \/ Links \/ FillFails \/ Filled
    BY <2>3 DEF Visit, VisitFails, MovesUsedUp, Searching, NextSearch, Links, FillFails, Filled, Raise
  <2> QED BY <2>1, <2>2, <2>3 DEF Approach
<1>2. pc' = "submit" => stage' > Len(Stages) /\ (reloaded' \/ IsForm(page)')
  BY ApproachKeeps DEF Filled, AllFilled, InOrder, IsForm, outcome
<1>3. step' <= stage'
  BY ApproachType
<1>4. pc' \notin {"again", "judge"}
  BY ApproachKeeps DEF Reaching
<1>5. dryRun' = dryRun /\ hidden' = {} /\ Posts' = 0
  BY ApproachKeeps DEF input
<1> QED BY <1>1, <1>2, <1>3, <1>4, <1>5, ApproachKeeps DEF InOrder

----------------------------------------------------------------------------
(* The submission                                                           *)

\* What the site does with a click, and where it leads.
LEMMA SiteStep ==
    ASSUME TypeOK, SiteReacts
    PROVE  /\ page' \in SitePages \cup AfterSubmit
           /\ taken' \in Seq(SUBSET Values)
           /\ \/ taken' = taken /\ Posts' = Posts
              \/ taken' = Append(taken, onForm) /\ Posts' = Posts + 1
<1>1. CASE taken' = Append(taken, onForm)
  BY <1>1 DEF TypeOK, SiteReacts, Posts
<1>2. CASE taken' = taken
  BY <1>2 DEF TypeOK, SiteReacts, Posts
<1> QED BY <1>1, <1>2 DEF SiteReacts, TypeOK

\* A submission leaves the request and the stages as they are.  The form it hands in
\* is the one that was filled, unless it was shown anew.
LEMMA SubmissionKeeps ==
    ASSUME TypeOK, InOrder, EnteredSoFar, Submission
    PROVE  /\ UNCHANGED <<dryRun, asked, tries, moves, stage, reloaded>>
           /\ pc \in {"submit", "again", "judge"}
           /\ ~dryRun /\ stage > Len(Stages) /\ result = "none"
           /\ step' \in 1..3 /\ step' <= stage'
           /\ onForm' \subseteq Values
           /\ EnteredSoFar'
<1>1. CASE ClickElsewhere
  <2>1. /\ UNCHANGED <<dryRun, asked, tries, moves, stage, reloaded, result>>
        /\ pc \in {"submit", "again"} /\ onForm' = {}
        /\ pc' = "judge" \/ (pc = "submit" /\ ~IsForm(page))
    BY <1>1 DEF ClickElsewhere, HasButton, input, outcome
  <2>2. PICK p \in SitePages \cup {page} : Arrive(p)
    BY <1>1 DEF ClickElsewhere
  <2>3. step' \in 1..3 /\ step' <= stage'
    BY <2>1, <2>2, ArriveStep
  <2>4. pc' = "judge" \/ reloaded
    BY <2>1 DEF InOrder
  <2>5. EnteredSoFar'
    BY <2>1, <2>4 DEF EnteredSoFar
  <2> QED BY <2>1, <2>3, <2>5 DEF InOrder
<1>2. CASE ~ClickElsewhere
  <2>1. /\ UNCHANGED <<dryRun, asked, tries, moves, step, stage, onForm, reloaded>>
        /\ pc \in {"submit", "again", "judge"}
        /\ pc = "judge" => pc' = "done"
    BY <1>2
    DEF Submission, SubmitClick, ClickAgain, ClickFails, Judge, Raise, input, outcome
  <2>2. EnteredSoFar'
    BY <2>1 DEF EnteredSoFar
  <2> QED BY <2>1, <2>2 DEF TypeOK, InOrder
<1> QED BY <1>1, <1>2

\* Where each click leads, and what it adds to what was taken and hidden.
LEMMA ClickStep ==
    ASSUME TypeOK, InOrder, EnteredSoFar,
           SubmitClick \/ ClickAgain \/ ClickElsewhere \/ ClickFails
    PROVE  /\ page' \in SitePages \cup AfterSubmit
           /\ taken' \in Seq(SUBSET Values)
           /\ hidden' \subseteq HidingFaults \cap Faults /\ hidden' \subseteq {"late"}
           /\ taken' = taken \/ taken' = Append(taken, onForm)
           /\ \/ pc' = "again" /\ result' = "none" /\ Posts' = IF "late" \in hidden' THEN 1 ELSE 0
              \/ /\ pc' = "judge" /\ result' = "none"
                 /\ Posts' \in 0..2
                 /\ Posts' = 2 => "late" \in hidden'
                 /\ "late" \in hidden' => Posts' >= 1
              \/ /\ pc' = "done" /\ result' = "other"
                 /\ Posts' \in 0..2
                 /\ Posts' >= 1 <=> "late" \in hidden'
<1>1. hidden \subseteq HidingFaults \cap Faults /\ result = "none" /\ Posts \in Nat
  BY SubmissionKeeps DEF TypeOK, Submission, Posts
<1>2. CASE SubmitClick
  <2>1. Posts = 0 /\ hidden = {} /\ result' = "none"
    BY <1>1, <1>2 DEF SubmitClick, InOrder
  <2>2. SiteReacts
    BY <1>2 DEF SubmitClick
  <2>3. "late" \in HidingFaults
    BY DEF HidingFaults
  <2>4. CASE page' # page /\ pc' = "judge" /\ UNCHANGED hidden
    BY <2>1, <2>2, <2>4, SiteStep
  <2>5. CASE /\ "late" \in Faults \/ taken' = taken
             /\ pc' = "again"
             /\ hidden' = IF taken' # taken THEN hidden \cup {"late"} ELSE hidden
    <3>1. taken' # taken => "late" \in Faults /\ Posts' = 1
      BY <2>1, <2>2, <2>5, SiteStep
    <3>2. taken' = taken => Posts' = 0
      BY <2>1 DEF Posts
    <3> QED BY <2>1, <2>2, <2>3, <2>5, <3>1, <3>2, SiteStep
  <2> QED BY <1>2, <2>4, <2>5 DEF SubmitClick
<1>3. CASE ClickAgain
  <2>1. Posts = (IF "late" \in hidden THEN 1 ELSE 0) /\ hidden \subseteq {"late"}
    BY <1>3 DEF ClickAgain, InOrder
  <2>2. SiteReacts
    BY <1>3 DEF ClickAgain
  <2>3. "late" \in HidingFaults
    BY DEF HidingFaults
  <2>4. CASE pc' = "judge" /\ UNCHANGED <<hidden, result>>
    BY <1>1, <2>1, <2>2, <2>4, SiteStep
  <2>5. CASE /\ "late" \in Faults /\ taken' # taken
             /\ hidden' = hidden \cup {"late"}
             /\ Raise("other")
    BY <1>1, <2>1, <2>2, <2>3, <2>5, SiteStep DEF Raise
  <2> QED BY <1>3, <2>4, <2>5 DEF ClickAgain
<1>4. CASE ClickFails
  <2>1. /\ Posts = (IF "late" \in hidden THEN 1 ELSE 0) /\ hidden \subseteq {"late"}
    BY <1>4 DEF ClickFails, InOrder
  <2>2. UNCHANGED <<page, taken, hidden>> /\ Posts' = Posts
    BY <1>4 DEF ClickFails, outcome, Posts
  <2>3. \/ pc' = "again" /\ result' = "none"
        \/ pc' = "done" /\ result' = "other"
    BY <1>1, <1>4 DEF ClickFails, Raise
  <2>4. taken' \in Seq(SUBSET Values) /\ page' \in SitePages \cup AfterSubmit
    BY <2>2 DEF TypeOK
  <2> QED BY <1>1, <2>1, <2>2, <2>3, <2>4
<1>5. CASE ClickElsewhere
  <2>1. /\ UNCHANGED <<taken, hidden>> /\ Posts' = Posts /\ result' = "none"
        /\ pc' = "judge" \/ (pc' = "again" /\ pc = "submit")
        /\ pc \in {"submit", "again"}
    BY <1>1, <1>5 DEF ClickElsewhere, outcome, Posts
  <2>2. PICK p \in SitePages \cup {page} : Arrive(p)
    BY <1>5 DEF ClickElsewhere
  <2>3. taken' \in Seq(SUBSET Values) /\ page' \in SitePages \cup AfterSubmit
    BY <2>1, <2>2 DEF TypeOK, Arrive
  <2>4. CASE pc = "submit"
    BY <1>1, <2>1, <2>3, <2>4 DEF InOrder
  <2>5. CASE pc = "again"
    BY <1>1, <2>1, <2>3, <2>5 DEF InOrder
  <2> QED BY <2>1, <2>4, <2>5
<1> QED BY <1>2, <1>3, <1>4, <1>5

\* The verdict on the page: what it says, and what it hides.
LEMMA JudgeStep ==
    ASSUME TypeOK, InOrder, Judge
    PROVE  /\ UNCHANGED <<page, taken>> /\ Posts' = Posts
           /\ Posts \in 0..2 /\ hidden \subseteq {"late"}
           /\ Posts = 2 => "late" \in hidden
           /\ "late" \in hidden => Posts >= 1
           /\ pc' = "done"
           /\ hidden' \subseteq HidingFaults \cap Faults
           /\ \/ /\ result' = "success"
                 /\ hidden' = IF Posts = 0 THEN hidden \cup {"assumed"} ELSE hidden
              \/ /\ result' = "other" \/ (result' = "net" /\ "net" \in Faults)
                 /\ hidden' = IF Posts > 0 THEN hidden \cup {"unconfirmed"} ELSE hidden
<1>1. /\ Posts \in 0..2 /\ hidden \subseteq {"late"}
      /\ Posts = 2 => "late" \in hidden
      /\ "late" \in hidden => Posts >= 1
  <2>1. pc = "judge" /\ Posts \in Nat
    BY DEF Judge, TypeOK, Posts
  <2> QED BY <2>1 DEF InOrder
<1>2. UNCHANGED <<page, taken>> /\ Posts' = Posts
  BY DEF Judge, Posts
<1>3. \/ /\ result' = "success" /\ pc' = "done"
         /\ Posts = 0 => "assumed" \in Faults
         /\ hidden' = IF Posts = 0 THEN hidden \cup {"assumed"} ELSE hidden
      \/ /\ result' = "other" \/ (result' = "net" /\ "net" \in Faults)
         /\ pc' = "done"
         /\ Posts > 0 => "unconfirmed" \in Faults
         /\ hidden' = IF Posts > 0 THEN hidden \cup {"unconfirmed"} ELSE hidden
  BY DEF Judge, Raise
<1>4. hidden' \subseteq HidingFaults \cap Faults
  BY <1>3 DEF TypeOK, HidingFaults
<1> QED BY <1>1, <1>2, <1>3, <1>4

\* A submission keeps the types.
LEMMA SubmissionType ==
    ASSUME TypeOK, InOrder, EnteredSoFar, Submission
    PROVE  TypeOK'
<1>1. /\ page' \in SitePages \cup AfterSubmit
      /\ taken' \in Seq(SUBSET Values)
      /\ hidden' \subseteq HidingFaults \cap Faults
      /\ pc' \in Places /\ result' \in Beliefs \cup {"validated", "none"}
  <2>1. {"again", "judge", "done"} \subseteq Places /\ {"success", "net", "other"} \subseteq Beliefs
    BY DEF Places, Beliefs
  <2>2. CASE Judge
    BY <2>1, <2>2, JudgeStep DEF TypeOK
  <2>3. CASE ~Judge
    BY <2>1, <2>3, ClickStep DEF Submission
  <2> QED BY <2>2, <2>3
<1> QED BY <1>1, SubmissionKeeps DEF TypeOK

\* What has happened, after a step of the submission.
LEMMA SubmissionOrder ==
    ASSUME TypeOK, InOrder, EnteredSoFar, Submission
    PROVE  InOrder'
<1>1. dryRun' = dryRun /\ stage' = stage /\ ~dryRun /\ stage > Len(Stages)
  BY SubmissionKeeps
<1>2. step' <= stage'
  BY SubmissionKeeps
<1>3. CASE Judge
  <2>1. pc' = "done" /\ result' # "none"
    BY <1>3, JudgeStep
  <2> QED BY <1>1, <1>2, <2>1 DEF InOrder
<1>4. CASE ~Judge
  <2>1. SubmitClick \/ ClickAgain \/ ClickElsewhere \/ ClickFails
    BY <1>4 DEF Submission
  <2>2. CASE pc' = "again"
    BY <1>1, <1>2, <2>1, <2>2, ClickStep DEF InOrder
  <2>3. CASE pc' = "judge"
    BY <1>1, <1>2, <2>1, <2>3, ClickStep DEF InOrder
  <2>4. CASE pc' = "done"
    BY <1>1, <1>2, <2>1, <2>4, ClickStep DEF InOrder
  <2> QED BY <2>1, <2>2, <2>3, <2>4, ClickStep
<1> QED BY <1>3, <1>4

----------------------------------------------------------------------------
(* The contract and the waybills                                            *)

\* When an outcome is one that the contract allows.
LEMMA AllowedOutcome ==
    ASSUME NEW posts \in 0..2, NEW believed \in Beliefs,
           NEW hid \in SUBSET (HidingFaults \cap Faults),
           posts = 2 => "late" \in hid,
           "late" \in hid => posts >= 1,
           "assumed" \in hid <=> posts = 0 /\ believed = "success",
           "unconfirmed" \in hid => posts >= 1 /\ believed # "success",
           posts >= 1 /\ believed # "success" => hid # {},
           posts = 0 /\ believed = "net" => "net" \in Faults
    PROVE  [posts |-> posts, believed |-> believed, hidden |-> hid] \in SubmitOutcomes(Faults)
BY DEF SubmitOutcomes

\* A run that ends before the submission keeps to the contract.
LEMMA ApproachContract ==
    ASSUME TypeOK, InOrder, EnteredSoFar, Approach
    PROVE  HonoursContract'
<1> SUFFICES ASSUME pc' = "done" PROVE HonoursContract'
  BY DEF HonoursContract
<1>1. TypeOK'
  BY ApproachType
<1>2. Posts' = 0 /\ hidden' = {} /\ taken' = <<>>
  <2>1. Posts' = 0 /\ hidden' = {}
    BY ApproachKeeps
  <2> QED BY <1>1, <2>1 DEF TypeOK, Posts
<1>3. CASE Filled
  <2>1. dryRun' /\ result' = "validated"
    BY <1>3 DEF Filled, StopsHere, input
  <2> QED BY <1>2, <2>1 DEF HonoursContract
<1>4. CASE ~Filled
  <2>1. result' \in {"net", "other"} /\ (result' = "net" => "net" \in Faults)
    BY <1>4, ApproachKeeps
  <2>2. [posts |-> Posts', believed |-> result', hidden |-> hidden'] \in SubmitOutcomes(Faults)
    BY <1>2, <2>1, AllowedOutcome DEF Beliefs
  <2> QED BY <1>2, <2>1, <2>2 DEF HonoursContract
<1> QED BY <1>3, <1>4

\* So does a run that ends with it.
LEMMA SubmissionContract ==
    ASSUME TypeOK, InOrder, EnteredSoFar, Submission
    PROVE  HonoursContract'
<1> SUFFICES ASSUME pc' = "done"
             PROVE  [posts |-> Posts', believed |-> result', hidden |-> hidden']
                        \in SubmitOutcomes(Faults)
  BY SubmissionKeeps DEF HonoursContract
<1>1. CASE Judge
  BY <1>1, JudgeStep, AllowedOutcome DEF Beliefs
<1>2. CASE ~Judge
  BY <1>2, ClickStep, AllowedOutcome DEF Submission, Beliefs
<1> QED BY <1>1, <1>2

\* Nothing is taken, and a dry run is content, only with a complete form.
LEMMA ApproachTaken ==
    ASSUME TypeOK, InOrder, EnteredSoFar, TakenComplete, Approach
    PROVE  TakenComplete'
<1>1. UNCHANGED <<taken, reloaded, asked>>
  BY ApproachKeeps DEF outcome, input
<1>2. CASE result' = "validated"
  <2>1. Filled
    BY <1>2, ApproachKeeps
  <2>2. UNCHANGED <<page, onForm>> /\ pc = "fill" /\ stage > Len(Stages)
    BY <2>1 DEF Filled, AllFilled
  <2>3. reloaded \/ IsForm(page)
    BY <2>2 DEF InOrder
  <2>4. reloaded \/ asked \ onForm \subseteq Choices
    BY <2>2, Complete
  <2> QED BY <1>1, <2>2, <2>3, <2>4 DEF TakenComplete, IsForm
<1>3. CASE result' # "validated"
  BY <1>1, <1>3 DEF TakenComplete
<1> QED BY <1>2, <1>3

\* What a click hands in is what the stages entered.
LEMMA SubmissionTaken ==
    ASSUME TypeOK, InOrder, EnteredSoFar, TakenComplete, Submission
    PROVE  TakenComplete'
<1>1. UNCHANGED <<reloaded, asked>> /\ stage > Len(Stages) /\ result' # "validated"
  <2>1. result' \in {"none", "success", "net", "other"}
    BY JudgeStep, ClickStep DEF Submission
  <2> QED BY <2>1, SubmissionKeeps
<1>2. taken' = taken \/ (taken' = Append(taken, onForm) /\ pc # "judge")
  BY JudgeStep, ClickStep DEF Submission, SubmitClick, ClickAgain, ClickElsewhere, ClickFails
<1>3. pc # "judge" => reloaded \/ asked \ onForm \subseteq Choices
  BY <1>1, SubmissionKeeps, Complete
<1>4. reloaded \/ \A i \in DOMAIN taken' : asked \ taken'[i] \subseteq Choices
  <2>1. CASE taken' = taken
    BY <2>1 DEF TakenComplete
  <2>2. CASE taken' = Append(taken, onForm) /\ pc # "judge"
    <3> SUFFICES ASSUME ~reloaded, NEW i \in DOMAIN taken'
                 PROVE  asked \ taken'[i] \subseteq Choices
      OBVIOUS
    <3>1. i \in 1..Len(taken) \/ i = Len(taken) + 1
      BY <2>2 DEF TypeOK
    <3>2. CASE i \in 1..Len(taken)
      <4>1. taken'[i] = taken[i] /\ i \in DOMAIN taken
        BY <2>2, <3>2 DEF TypeOK
      <4> QED BY <4>1 DEF TakenComplete
    <3>3. CASE i = Len(taken) + 1
      <4>1. taken'[i] = onForm
        BY <2>2, <3>3 DEF TypeOK
      <4> QED BY <1>3, <2>2, <4>1
    <3> QED BY <3>1, <3>2, <3>3
  <2> QED BY <1>2, <2>1, <2>2
<1> QED BY <1>1, <1>4 DEF TakenComplete

----------------------------------------------------------------------------
(* The invariant                                                            *)

\* A form that is shown anew is empty; what is judged later is excused by it.
LEMMA ReloadStep ==
    ASSUME IInv, Reload
    PROVE  IInv'
<1> USE DEF IInv
<1>1. /\ UNCHANGED <<dryRun, asked, pc, tries, moves, stage, taken, hidden, result>>
      /\ pc = "fill" /\ page' \in SitePages /\ step' = 1 /\ onForm' = {} /\ reloaded'
  BY DEF Reload, input
<1>2. reloaded' = TRUE
  BY DEF Reload
<1>3. TypeOK'
  BY <1>1, <1>2 DEF TypeOK
<1>4. InOrder'
  <2>1. Posts' = Posts /\ step' <= stage'
    BY <1>1 DEF Posts, TypeOK
  <2> QED BY <1>1, <2>1 DEF InOrder
<1>5. EnteredSoFar' /\ TakenComplete' /\ HonoursContract'
  BY <1>1 DEF EnteredSoFar, TakenComplete, HonoursContract
<1> QED BY <1>3, <1>4, <1>5

\* The initial states.
LEMMA InitInv == Init => IInv
<1> SUFFICES ASSUME Init PROVE IInv
  OBVIOUS
<1>1. TypeOK
  <2>1. "visit" \in Places /\ "none" \in Beliefs \cup {"validated", "none"}
    BY DEF Places
  <2>2. asked \subseteq Values
    BY ExtrasAssumption DEF Init, Values
  <2>3. page \in SitePages \cup AfterSubmit /\ tries \in 1..GotoAttempts
    BY GotoBound, Pages DEF Init
  <2>4. stage \in 1..Len(Stages) + 1 /\ moves \in 0..RecoveryMoves
    BY StageFacts DEF Init, RecoveryMoves
  <2>5. taken \in Seq(SUBSET Values)
    <3>1. taken = <<>>
      BY DEF Init
    <3> QED BY <3>1
  <2>6. step \in 1..3 /\ onForm \subseteq Values
    BY DEF Init
  <2>7. dryRun \in BOOLEAN /\ reloaded \in BOOLEAN
    BY Zenon DEF Init
  <2>8. pc \in Places /\ hidden \subseteq HidingFaults \cap Faults
    BY <2>1 DEF Init
  <2>9. result \in Beliefs \cup {"validated", "none"}
    BY <2>1 DEF Init
  <2> QED BY <2>1, <2>2, <2>3, <2>4, <2>5, <2>6, <2>7, <2>8, <2>9 DEF TypeOK
<1>2. InOrder
  BY DEF Init, InOrder, Posts
<1>3. EnteredSoFar /\ HonoursContract /\ TakenComplete
  BY DEF Init, EnteredSoFar, HonoursContract, TakenComplete
<1> QED BY <1>1, <1>2, <1>3 DEF IInv

\* Every step keeps the invariant.
LEMMA NextInv == IInv /\ [Next]_vars => IInv'
<1> SUFFICES ASSUME IInv, [Next]_vars PROVE IInv'
  OBVIOUS
<1>1. CASE Approach
  BY <1>1, ApproachType, ApproachOrder, ApproachEntered, ApproachContract, ApproachTaken DEF IInv
<1>2. CASE Submission
  <2>1. EnteredSoFar'
    BY <1>2, SubmissionKeeps DEF IInv
  <2> QED BY <1>2, <2>1, SubmissionType, SubmissionOrder, SubmissionContract, SubmissionTaken
          DEF IInv
<1>3. CASE Reload
  BY <1>3, ReloadStep
<1>4. CASE UNCHANGED vars
  <2>1. UNCHANGED <<dryRun, asked, pc, tries, moves, page, step, stage, onForm, reloaded, taken,
                    hidden, result>>
    BY <1>4 DEF vars, input, outcome
  <2> QED BY <2>1 DEF IInv, TypeOK, InOrder, EnteredSoFar, HonoursContract, TakenComplete, Posts, IsForm
<1> QED BY <1>1, <1>2, <1>3, <1>4 DEF Next, Steps, Approach, Submission

\* The inductive invariant of a run against the site holds, however many retries
\* there are, whatever the site shows, loses, takes and hides
\* (create_waybill_with_map, waybill_enhanced.py:92-191).
THEOREM Invariance == Spec => []IInv
BY InitInv, NextInv, PTL DEF Spec

\* What the caller of _submit_waybill is told differs from what the site did only
\* in the ways on which WaybillService builds, and a dry run submits nothing
\* (waybill_enhanced.py:172-181, 704-739).
THEOREM ContractHonoured == Spec => []HonoursContract
<1>1. IInv => HonoursContract
  BY DEF IInv
<1> QED BY <1>1, Invariance, PTL

\* What the site takes, and what a dry run calls ready, lacks nothing that was
\* asked but choices without a menu, unless the form was shown anew while it was
\* filled (waybill_enhanced.py:122-181).
THEOREM CompleteTaken == Spec => []TakenComplete
<1>1. IInv => TakenComplete
  BY DEF IInv
<1> QED BY <1>1, Invariance, PTL

----------------------------------------------------------------------------
(***************************************************************************)
(* How long a run may be.  EveryRunEnds is liveness and left to TLC; that  *)
(* no loop of the code can go on for ever is not.                          *)
(***************************************************************************)

\* An upper bound of the steps left at a place: more than at any place that may come
\* after it and, in a loop, one for each visit t, entry m or stage s that is left.
LeftAt(place, t, m, s) ==
    [visit |-> 30 + t, ensure |-> 30,
     recover |-> 23 + m, links |-> 22, menu |-> 18 + m, urls |-> 13 + m,
     verdict |-> 12, fill |-> 12 - s,
     submit |-> 3, again |-> 2, judge |-> 1, done |-> 0][place]

StepsLeft == LeftAt(pc, tries, moves, stage)

\* Every step of the code leaves less to do: it uses up a retry, an entry of a list, a
\* stage or a click.  A site that shows the form anew adds nothing.
StepsRunOut ==
    [][\/ Steps /\ StepsLeft' < StepsLeft
       \/ Reload /\ StepsLeft' = StepsLeft]_vars

\* How many steps a run may have, and that it has none left only when it is over.
StepsBounded ==
    /\ StepsLeft \in 0..30 + GotoAttempts
    /\ StepsLeft = 0 <=> pc = "done"

\* The bound at each place.
LEMMA LeftFacts ==
    ASSUME NEW t, NEW m, NEW s
    PROVE  /\ LeftAt("visit", t, m, s) = 30 + t /\ LeftAt("ensure", t, m, s) = 30
           /\ LeftAt("recover", t, m, s) = 23 + m /\ LeftAt("links", t, m, s) = 22
           /\ LeftAt("menu", t, m, s) = 18 + m /\ LeftAt("urls", t, m, s) = 13 + m
           /\ LeftAt("verdict", t, m, s) = 12 /\ LeftAt("fill", t, m, s) = 12 - s
           /\ LeftAt("submit", t, m, s) = 3 /\ LeftAt("again", t, m, s) = 2
           /\ LeftAt("judge", t, m, s) = 1 /\ LeftAt("done", t, m, s) = 0
BY DEF LeftAt

\* A step on the way to the form, or one that fills it, leaves less to do.
LEMMA ApproachShortens ==
    ASSUME IInv, Approach
    PROVE  StepsLeft' < StepsLeft
<1>1. /\ pc \in Places /\ tries \in Nat \ {0} /\ moves \in 0..RecoveryMoves /\ stage \in 1..8
      /\ Len(Stages) = 7
  BY GotoBound DEF IInv, TypeOK, Stages
<1> USE <1>1, LeftFacts DEF StepsLeft
<1>2. CASE Visit
  BY <1>2 DEF Visit
<1>3. CASE VisitFails
  BY <1>3 DEF VisitFails, Raise
<1>4. CASE Ensure
  BY <1>4 DEF Ensure, RecoveryMoves
<1>5. CASE Move
  BY <1>5 DEF Move, Searching
<1>6. CASE MovesUsedUp
  BY <1>6 DEF MovesUsedUp, Searching, NextSearch, MenuMoves, UrlMoves
<1>7. CASE Links
  BY <1>7 DEF Links, Raise, MenuMoves
<1>8. CASE Verdict
  BY <1>8 DEF Verdict, Raise
<1>9. CASE FillStage
  BY <1>9 DEF FillStage, AllFilled
<1>10. CASE FillFails
  BY <1>10 DEF FillFails, AllFilled, Raise
<1>11. CASE Filled
  BY <1>11 DEF Filled, AllFilled
<1> QED BY <1>2, <1>3, <1>4, <1>5, <1>6, <1>7, <1>8, <1>9, <1>10, <1>11 DEF Approach

\* So does a step of submitting it.
LEMMA SubmissionShortens ==
    ASSUME IInv, Submission
    PROVE  StepsLeft' < StepsLeft
<1> USE LeftFacts DEF StepsLeft
<1>1. CASE SubmitClick
  BY <1>1 DEF SubmitClick
<1>2. CASE ClickAgain
  BY <1>2 DEF ClickAgain, Raise
<1>3. CASE ClickFails
  BY <1>3 DEF ClickFails, Raise
<1>4. CASE Judge
  BY <1>4 DEF Judge, Raise
<1>5. CASE ClickElsewhere
  BY <1>5 DEF ClickElsewhere
<1> QED BY <1>1, <1>2, <1>3, <1>4, <1>5 DEF Submission

\* No loop of create_waybill_with_map (retries of a visit, waybill_enhanced.py:64-85;
\* the three lists of the search, lines 230-320; the stages, lines 122-169; the two
\* clicks, lines 704-718) goes round without using up one of its rounds, whatever the
\* site shows.
THEOREM RunsOut == Spec => StepsRunOut
<1>1. IInv /\ [Next]_vars =>
          [\/ Steps /\ StepsLeft' < StepsLeft
           \/ Reload /\ StepsLeft' = StepsLeft]_vars
  <2>1. ASSUME IInv, Steps PROVE StepsLeft' < StepsLeft
    BY <2>1, ApproachShortens, SubmissionShortens DEF Steps, Approach, Submission
  <2>2. ASSUME Reload PROVE StepsLeft' = StepsLeft
    BY <2>2 DEF Reload, StepsLeft, input
  <2> QED BY <2>1, <2>2 DEF Next
<1> QED BY <1>1, Invariance, PTL DEF Spec, StepsRunOut

\* So a run has at most 30 + GotoAttempts steps of its own, and has used them up only
\* when it is over.
THEOREM RunsShort == Spec => []StepsBounded
<1>1. IInv => StepsBounded
  <2> SUFFICES ASSUME IInv PROVE StepsBounded
    OBVIOUS
  <2>1. /\ pc \in Places /\ tries \in 1..GotoAttempts /\ moves \in 0..6 /\ stage \in 1..8
        /\ GotoAttempts \in Nat \ {0}
    BY GotoBound DEF IInv, TypeOK, Stages, RecoveryMoves
  <2> QED BY <2>1, LeftFacts DEF StepsBounded, StepsLeft, Places
<1> QED BY <1>1, Invariance, PTL
=============================================================================
