----------------------------- MODULE LoginProofs -----------------------------
(***************************************************************************)
(* What TLAPS proves of Login, for any settings, any number of login URLs  *)
(* and whatever fails: where the credentials are sent, that a refusal      *)
(* tells the truth, who is asked to solve the captcha, and how many steps  *)
(* an attempt can have; and, at the end, the same for the captcha provider *)
(* it waits for, TwoCaptcha: whose answer is returned, what is paid for,   *)
(* and for how long and in how many steps.                                 *)
(***************************************************************************)
EXTENDS Login, TwoCaptcha, FiniteSetTheorems, TLAPS

\* What the waybill page shows depends on the session only.
LEMMA WaybillPagesFacts ==
    ASSUME NEW p \in WaybillPages
    PROVE  /\ p \in {"login", "form", "other"} \cup KeptPage
           /\ session => p # "login"
           /\ p = "kept" => session
           /\ ~session /\ p # "login" => "errorPage" \in Faults
BY DEF WaybillPages, KeptPage

\* Who looks signed in, and which faults can make him look so.
LEMMA LoggedInFacts ==
    ASSUME LooksLoggedIn
    PROVE  /\ page' \in {"login", "form", "other"} /\ (page' = "login" => ~session)
           /\ hidden \subseteq hidden'
           /\ hidden' \subseteq hidden \cup ({"errorPage", "missed"} \cap Faults)
BY WaybillPagesFacts DEF LooksLoggedIn, KeptPage

\* Who does not, and which faults hide a session.
LEMMA LoggedOutFacts ==
    ASSUME LooksLoggedOut
    PROVE  /\ page' \in {page, "login"} \cup KeptPage
           /\ page' = "login" => ~session \/ page = "login"
           /\ page' = "kept" => session \/ page = "kept"
           /\ hidden \subseteq hidden'
           /\ hidden' \subseteq hidden \cup ({"net", "other", "kept"} \cap Faults)
           /\ session => hidden' \ {"errorPage", "missed"} # {}
<1>1. CASE page' \in WaybillPages \cap {"login", "kept"} /\ hidden' = hidden \cup Hiding'
  BY <1>1, WaybillPagesFacts DEF Hiding, KeptPage
<1>2. CASE /\ \E kind \in {"net", "other"} \cap Faults :
                 hidden' = IF session THEN hidden \cup {kind} ELSE hidden
           /\ UNCHANGED page
  BY <1>2
<1> QED BY <1>1, <1>2 DEF LooksLoggedOut

\* What a click does, and what the site may do with it.
LEMMA ClickFacts ==
    ASSUME TypeOK, InOrder, Click
    PROVE  /\ session' \in BOOLEAN /\ page' \in {"login", "form", "rules", "other"} \cup KeptPage
           /\ clicks' = clicks + 1
           /\ astray' \subseteq astray \cup {"page", "captcha"}
           /\ "page" \in astray' => "page" \in astray \/ page # "login"
           /\ "captcha" \in astray' => "captcha" \in astray \/ captcha = "empty"
           /\ hidden \subseteq hidden' /\ hidden' \subseteq hidden \cup ({"late"} \cap Faults)
           /\ page' = "login" /\ session' => "late" \in hidden'
           /\ page' = "kept" => session'
           /\ page' = page /\ session' => session \/ "late" \in hidden'
<1>1. /\ clicks' = clicks + 1
      /\ astray' \subseteq astray \cup {"page", "captcha"}
      /\ "page" \in astray' => "page" \in astray \/ page # "login"
      /\ "captcha" \in astray' => "captcha" \in astray \/ captcha = "empty"
  BY DEF Click
<1> USE <1>1 DEF TypeOK, InOrder
<1>2. CASE page = "login" /\ LetsIn /\ UNCHANGED hidden
  BY <1>2 DEF LetsIn, KeptPage
<1>3. CASE page = "login" /\ ShowsError /\ UNCHANGED hidden
  BY <1>3 DEF ShowsError
<1>4. CASE /\ page = "login" /\ "late" \in Faults /\ session' \in {session, TRUE}
           /\ hidden' = hidden \cup {"late"} /\ UNCHANGED page
  BY <1>4
<1>5. CASE page # "login" /\ page' \in {page, "other"} /\ UNCHANGED <<session, hidden>>
  BY <1>5
<1>6. CASE UNCHANGED <<session, page, hidden>>
  BY <1>6
<1> QED BY <1>2, <1>3, <1>4, <1>5, <1>6 DEF Click

\* Every step keeps the types.
LEMMA TypeStep == TypeOK /\ InOrder /\ [Next]_vars => TypeOK'
<1> SUFFICES ASSUME TypeOK, InOrder, [Next]_vars PROVE TypeOK'
  OBVIOUS
<1> USE LoginAssumption
<1>1. CASE Check
  BY <1>1, LoggedInFacts, LoggedOutFacts DEF Check, TypeOK, Places
<1>2. CASE Visit
  BY <1>2 DEF Visit, KeptPage, NextUrl, history, TypeOK, Places
<1>3. CASE VisitFails
  BY <1>3 DEF VisitFails, NextUrl, history, TypeOK
<1>4. CASE NoFormFound
  BY <1>4 DEF NoFormFound, Refuse, history, TypeOK, Places
<1>5. CASE FillFields
  BY <1>5 DEF FillFields, history, TypeOK, Places
<1>6. CASE FieldsFail
  BY <1>6 DEF FieldsFail, TryNextUrl, NextUrl, history, TypeOK, InOrder, Places
<1>7. CASE HandleCaptcha
  <2>1. asked' \subseteq {"provider", "operator"} /\ captcha' \in {"none", "empty", "filled"}
    BY <1>7 DEF HandleCaptcha, Answer, AskOperator, TypeOK
  <2>2. pc' \in Places /\ err' \in BOOLEAN /\ result' \in {"none", "in", "refused", "unconfigured"}
    BY <1>7 DEF HandleCaptcha, Answer, AskOperator, Refuse, TypeOK, Places
  <2> QED BY <1>7, <2>1, <2>2 DEF HandleCaptcha, TypeOK
<1>8. CASE Provided
  BY <1>8 DEF Provided, Answer, AskOperator, Refuse, TypeOK, Places
<1>9. CASE OperatorAnswers
  BY <1>9 DEF OperatorAnswers, history, TypeOK, Places
<1>10. CASE OperatorSubmits
  BY <1>10 DEF OperatorSubmits, LetsIn, KeptPage, TypeOK
<1>11. CASE OperatorTimeout
  BY <1>11 DEF OperatorTimeout, Refuse, history, TypeOK, Places
<1>12. CASE Submit
  <2>0. Click
    BY <1>12 DEF Submit
  <2>1. session' \in BOOLEAN
    BY <2>0, ClickFacts
  <2>2. UNCHANGED <<config, url, captcha, err, asked, saved, result>>
    BY <1>12 DEF Submit
  <2>3. clicks' \in Nat /\ astray' \subseteq {"page", "captcha"}
    BY <2>0 DEF Click, TypeOK
  <2>4. page' \in {"login", "form", "rules", "other"} \cup KeptPage /\ pc' \in Places /\ hidden' \subseteq Faults
    BY <1>12, <2>0, ClickFacts DEF Submit, TypeOK, Places
  <2> QED BY <2>1, <2>2, <2>3, <2>4 DEF TypeOK
<1>13. CASE SubmitFails
  BY <1>13 DEF SubmitFails, history, TypeOK, Places
<1>14. CASE ClickAgain
  <2>0. Click
    BY <1>14 DEF ClickAgain
  <2>1. session' \in BOOLEAN
    BY <2>0, ClickFacts
  <2>2. UNCHANGED <<config, url, captcha, err, asked, saved, result>>
    BY <1>14 DEF ClickAgain
  <2>3. clicks' \in Nat /\ astray' \subseteq {"page", "captcha"}
    BY <2>0 DEF Click, TypeOK
  <2>4. page' \in {"login", "form", "rules", "other"} \cup KeptPage /\ pc' \in Places /\ hidden' \subseteq Faults
    BY <1>14, <2>0, ClickFacts DEF ClickAgain, TypeOK, Places
  <2> QED BY <2>1, <2>2, <2>3, <2>4 DEF TypeOK
<1>15. CASE ClickFails
  BY <1>15 DEF ClickFails, TryNextUrl, NextUrl, history, TypeOK, InOrder, Places
<1>16. CASE Judge
  <2>1. err' \in BOOLEAN
    BY <1>16 DEF Judge, Hiding, TryNextUrl, TypeOK
  <2>2. /\ UNCHANGED <<config, page, session, captcha, asked, clicks, astray, saved>>
        /\ hidden' \subseteq Faults
    BY <1>16 DEF Judge, Hiding, KeptPage, TypeOK
  <2>3. url' \in 1..LoginUrls + 1 /\ pc' \in Places /\ result' = result
    BY <1>16 DEF Judge, Hiding, TryNextUrl, NextUrl, TypeOK, InOrder, Places
  <2> QED BY <2>1, <2>2, <2>3 DEF TypeOK
<1>17. CASE AcceptRules
  BY <1>17 DEF AcceptRules, KeptPage, history, TypeOK, Places
<1>18. CASE RulesFail
  BY <1>18 DEF RulesFail, Hiding, KeptPage, TryNextUrl, NextUrl, TypeOK, InOrder, Places
<1>19. CASE Recheck
  <2>1. err' \in BOOLEAN
    BY <1>19 DEF Recheck, TryNextUrl
  <2>2. UNCHANGED <<config, session, captcha, asked, clicks, astray, saved>>
    BY <1>19 DEF Recheck
  <2>3. page' \in {"login", "form", "rules", "other"} \cup KeptPage /\ hidden' \subseteq Faults
    BY <1>19, LoggedInFacts, LoggedOutFacts DEF Recheck, TypeOK
  <2>4. url' \in 1..LoginUrls + 1 /\ pc' \in Places /\ result' = result
    BY <1>19 DEF Recheck, TryNextUrl, NextUrl, TypeOK, InOrder, Places
  <2> QED BY <2>1, <2>2, <2>3, <2>4 DEF TypeOK
<1>20. CASE Save
  BY <1>20 DEF Save, history, TypeOK, Places
<1>22. CASE Arrive
  BY <1>22 DEF Arrive, LetsIn, ShowsError, KeptPage, TypeOK
<1>21. CASE UNCHANGED vars
  BY <1>21 DEF vars, TypeOK
<1> QED BY <1>1, <1>2, <1>3, <1>4, <1>5, <1>6, <1>7, <1>8, <1>9, <1>10, <1>11, <1>12, <1>13,
        <1>14, <1>15, <1>16, <1>17, <1>18, <1>19, <1>20, <1>21, <1>22 DEF Next

\* Every step keeps what holds at each place.
LEMMA OrderStep == TypeOK /\ InOrder /\ NoBlindClick /\ [Next]_vars => InOrder'
<1> SUFFICES ASSUME TypeOK, InOrder, NoBlindClick, [Next]_vars PROVE InOrder'
  OBVIOUS
<1> USE LoginAssumption DEF HidesSession, history
<1>1. CASE Check
  BY <1>1, LoggedInFacts, LoggedOutFacts DEF Check, InOrder, NoBlindClick
<1>2. CASE Visit
  BY <1>2 DEF Visit, KeptPage, NextUrl, history, TypeOK, InOrder, NoBlindClick
<1>3. CASE VisitFails
  BY <1>3 DEF VisitFails, NextUrl, history, TypeOK, InOrder, NoBlindClick
<1>4. CASE NoFormFound
  BY <1>4 DEF NoFormFound, Refuse, InOrder, NoBlindClick
<1>5. CASE FillFields
  BY <1>5 DEF FillFields, history, InOrder, NoBlindClick
<1>6. CASE FieldsFail
  BY <1>6 DEF FieldsFail, TryNextUrl, NextUrl, history, TypeOK, InOrder, NoBlindClick
<1>7. CASE HandleCaptcha
  BY <1>7 DEF HandleCaptcha, Answer, AskOperator, Refuse, InOrder, NoBlindClick
<1>8. CASE Provided
  BY <1>8 DEF Provided, Answer, AskOperator, Refuse, InOrder, NoBlindClick
<1>9. CASE OperatorAnswers
  BY <1>9 DEF OperatorAnswers, history, InOrder, NoBlindClick
<1>10. CASE OperatorSubmits
  <2>1. "operator" \in hidden' /\ hidden' \ {"errorPage", "missed"} # {}
    BY <1>10 DEF OperatorSubmits
  <2>2. hidden' \cap {"late", "operator"} # {} /\ hidden' \cap {"missed", "late", "operator"} # {}
    BY <2>1
  <2>3. /\ page' = "login" /\ session' => "late" \in hidden'
        /\ page' = "kept" => session'
    BY <1>10 DEF OperatorSubmits, LetsIn, KeptPage, InOrder
  <2> QED BY <1>10, <2>1, <2>2, <2>3 DEF OperatorSubmits, InOrder
<1>11. CASE OperatorTimeout
  BY <1>11 DEF OperatorTimeout, Refuse, InOrder, NoBlindClick
<1>12. CASE Submit
  BY <1>12, ClickFacts DEF Submit, TypeOK, InOrder, NoBlindClick
<1>13. CASE SubmitFails
  BY <1>13 DEF SubmitFails, history, TypeOK, InOrder, NoBlindClick
<1>14. CASE ClickAgain
  BY <1>14, ClickFacts DEF ClickAgain, InOrder, NoBlindClick
<1>15. CASE ClickFails
  BY <1>15 DEF ClickFails, TryNextUrl, NextUrl, history, TypeOK, InOrder, NoBlindClick
<1>16. CASE Judge
  BY <1>16 DEF Judge, Hiding, TryNextUrl, NextUrl, history, TypeOK, InOrder, NoBlindClick
<1>17. CASE AcceptRules
  BY <1>17 DEF AcceptRules, InOrder, NoBlindClick
<1>18. CASE RulesFail
  BY <1>18 DEF RulesFail, Hiding, TryNextUrl, NextUrl, TypeOK, InOrder, NoBlindClick
<1>19. CASE Recheck
  BY <1>19, LoggedInFacts, LoggedOutFacts DEF Recheck, TryNextUrl, NextUrl,
     TypeOK, InOrder, NoBlindClick
<1>20. CASE Save
  BY <1>20 DEF Save, InOrder, NoBlindClick
<1>22. CASE Arrive
  BY <1>22 DEF Arrive, LetsIn, ShowsError, KeptPage, TypeOK, InOrder, NoBlindClick
<1>21. CASE UNCHANGED vars
  BY <1>21 DEF vars, InOrder, NoBlindClick
<1> QED BY <1>1, <1>2, <1>3, <1>4, <1>5, <1>6, <1>7, <1>8, <1>9, <1>10, <1>11, <1>12, <1>13,
        <1>14, <1>15, <1>16, <1>17, <1>18, <1>19, <1>20, <1>21, <1>22 DEF Next

\* A click goes where it should.
LEMMA BlindStep == TypeOK /\ InOrder /\ NoBlindClick /\ [Next]_vars => NoBlindClick'
<1> SUFFICES ASSUME TypeOK, InOrder, NoBlindClick, [Next]_vars PROVE NoBlindClick'
  OBVIOUS
<1>1. CASE Check
  BY <1>1, LoggedInFacts, LoggedOutFacts DEF Check, NoBlindClick
<1>2. CASE Visit
  BY <1>2 DEF Visit, KeptPage, NextUrl, history, TypeOK, NoBlindClick
<1>3. CASE VisitFails
  BY <1>3 DEF VisitFails, NextUrl, history, TypeOK, NoBlindClick
<1>4. CASE NoFormFound
  BY <1>4 DEF NoFormFound, Refuse, history, NoBlindClick
<1>5. CASE FillFields
  BY <1>5 DEF FillFields, history, NoBlindClick
<1>6. CASE FieldsFail
  BY <1>6 DEF FieldsFail, TryNextUrl, NextUrl, history, TypeOK, NoBlindClick
<1>7. CASE HandleCaptcha
  BY <1>7 DEF HandleCaptcha, Answer, AskOperator, Refuse, NoBlindClick
<1>8. CASE Provided
  BY <1>8 DEF Provided, Answer, AskOperator, Refuse, NoBlindClick
<1>9. CASE OperatorAnswers
  BY <1>9 DEF OperatorAnswers, history, NoBlindClick
<1>10. CASE OperatorSubmits
  BY <1>10 DEF OperatorSubmits, LetsIn, KeptPage, NoBlindClick
<1>11. CASE OperatorTimeout
  BY <1>11 DEF OperatorTimeout, Refuse, history, NoBlindClick
<1>12. CASE Submit
  BY <1>12, ClickFacts DEF Submit, TypeOK, InOrder, NoBlindClick
<1>13. CASE SubmitFails
  BY <1>13 DEF SubmitFails, history, NoBlindClick
<1>14. CASE ClickAgain
  BY <1>14, ClickFacts DEF ClickAgain, TypeOK, InOrder, NoBlindClick
<1>15. CASE ClickFails
  BY <1>15 DEF ClickFails, TryNextUrl, NextUrl, history, TypeOK, NoBlindClick
<1>16. CASE Judge
  BY <1>16 DEF Judge, Hiding, TryNextUrl, NextUrl, history, TypeOK, NoBlindClick
<1>17. CASE AcceptRules
  BY <1>17 DEF AcceptRules, history, NoBlindClick
<1>18. CASE RulesFail
  BY <1>18 DEF RulesFail, Hiding, TryNextUrl, NextUrl, TypeOK, NoBlindClick
<1>19. CASE Recheck
  BY <1>19, LoggedInFacts, LoggedOutFacts DEF Recheck, TryNextUrl, NextUrl,
     TypeOK, NoBlindClick
<1>20. CASE Save
  BY <1>20 DEF Save, history, NoBlindClick
<1>22. CASE Arrive
  BY <1>22 DEF Arrive, LetsIn, ShowsError, KeptPage, NoBlindClick
<1>21. CASE UNCHANGED vars
  BY <1>21 DEF vars, NoBlindClick
<1> QED BY <1>1, <1>2, <1>3, <1>4, <1>5, <1>6, <1>7, <1>8, <1>9, <1>10, <1>11, <1>12, <1>13,
        <1>14, <1>15, <1>16, <1>17, <1>18, <1>19, <1>20, <1>21, <1>22 DEF Next

\* A refusal is true when it is given, and nothing follows it.
LEMMA RefusalStep == TypeOK /\ InOrder /\ RefusalTruthful /\ [Next]_vars => RefusalTruthful'
<1> SUFFICES ASSUME TypeOK, InOrder, RefusalTruthful, [Next]_vars PROVE RefusalTruthful'
  OBVIOUS
<1> USE DEF HidesSession
<1>1. CASE Check
  BY <1>1, LoggedInFacts, LoggedOutFacts DEF Check, InOrder, RefusalTruthful
<1>2. CASE Visit
  BY <1>2 DEF Visit, KeptPage, InOrder, RefusalTruthful
<1>3. CASE VisitFails
  BY <1>3 DEF VisitFails, InOrder, RefusalTruthful
<1>4. CASE NoFormFound
  BY <1>4 DEF NoFormFound, Refuse, history, InOrder, RefusalTruthful
<1>5. CASE FillFields
  BY <1>5 DEF FillFields, InOrder, RefusalTruthful
<1>6. CASE FieldsFail
  BY <1>6 DEF FieldsFail, TryNextUrl, InOrder, RefusalTruthful
<1>7. CASE HandleCaptcha
  BY <1>7 DEF HandleCaptcha, Answer, AskOperator, Refuse, InOrder, RefusalTruthful
<1>8. CASE Provided
  BY <1>8 DEF Provided, Answer, AskOperator, Refuse, InOrder, RefusalTruthful
<1>9. CASE OperatorAnswers
  BY <1>9 DEF OperatorAnswers, InOrder, RefusalTruthful
<1>10. CASE OperatorSubmits
  BY <1>10 DEF OperatorSubmits, LetsIn, KeptPage, RefusalTruthful
<1>11. CASE OperatorTimeout
  BY <1>11 DEF OperatorTimeout, Refuse, history, InOrder, RefusalTruthful
<1>12. CASE Submit
  BY <1>12, ClickFacts DEF Submit, InOrder, RefusalTruthful
<1>13. CASE SubmitFails
  BY <1>13 DEF SubmitFails, InOrder, RefusalTruthful
<1>14. CASE ClickAgain
  BY <1>14, ClickFacts DEF ClickAgain, InOrder, RefusalTruthful
<1>15. CASE ClickFails
  BY <1>15 DEF ClickFails, TryNextUrl, InOrder, RefusalTruthful
<1>16. CASE Judge
  BY <1>16 DEF Judge, Hiding, TryNextUrl, InOrder, RefusalTruthful
<1>17. CASE AcceptRules
  BY <1>17 DEF AcceptRules, InOrder, RefusalTruthful
<1>18. CASE RulesFail
  BY <1>18 DEF RulesFail, Hiding, TryNextUrl, RefusalTruthful
<1>19. CASE Recheck
  BY <1>19, LoggedInFacts, LoggedOutFacts DEF Recheck, TryNextUrl, InOrder,
     RefusalTruthful
<1>20. CASE Save
  BY <1>20 DEF Save, RefusalTruthful
<1>22. CASE Arrive
  BY <1>22 DEF Arrive, LetsIn, ShowsError, KeptPage, RefusalTruthful, InOrder
<1>21. CASE UNCHANGED vars
  BY <1>21 DEF vars, RefusalTruthful
<1> QED BY <1>1, <1>2, <1>3, <1>4, <1>5, <1>6, <1>7, <1>8, <1>9, <1>10, <1>11, <1>12, <1>13,
        <1>14, <1>15, <1>16, <1>17, <1>18, <1>19, <1>20, <1>21, <1>22 DEF Next

\* Who is asked is who may be asked.
LEMMA ModeStep == TypeOK /\ InOrder /\ CaptchaModeHonoured /\ [Next]_vars => CaptchaModeHonoured'
<1> SUFFICES ASSUME TypeOK, InOrder, CaptchaModeHonoured, [Next]_vars PROVE CaptchaModeHonoured'
  OBVIOUS
<1>1. CASE Check
  BY <1>1, LoggedInFacts, LoggedOutFacts DEF Check, CaptchaModeHonoured
<1>2. CASE Visit
  BY <1>2 DEF Visit, KeptPage, history, CaptchaModeHonoured
<1>3. CASE VisitFails
  BY <1>3 DEF VisitFails, history, CaptchaModeHonoured
<1>4. CASE NoFormFound
  BY <1>4 DEF NoFormFound, Refuse, history, CaptchaModeHonoured
<1>5. CASE FillFields
  BY <1>5 DEF FillFields, history, CaptchaModeHonoured
<1>6. CASE FieldsFail
  BY <1>6 DEF FieldsFail, TryNextUrl, history, CaptchaModeHonoured
<1>7. CASE HandleCaptcha
  BY <1>7 DEF HandleCaptcha, Answer, AskOperator, Refuse, AllowProvider, AllowManual,
     CaptchaModeHonoured
<1>8. CASE Provided
  BY <1>8 DEF Provided, Answer, AskOperator, Refuse, AllowManual, InOrder, CaptchaModeHonoured
<1>9. CASE OperatorAnswers
  BY <1>9 DEF OperatorAnswers, history, CaptchaModeHonoured
<1>10. CASE OperatorSubmits
  BY <1>10 DEF OperatorSubmits, LetsIn, KeptPage, CaptchaModeHonoured
<1>11. CASE OperatorTimeout
  BY <1>11 DEF OperatorTimeout, Refuse, history, CaptchaModeHonoured
<1>12. CASE Submit
  BY <1>12, ClickFacts DEF Submit, CaptchaModeHonoured
<1>13. CASE SubmitFails
  BY <1>13 DEF SubmitFails, history, CaptchaModeHonoured
<1>14. CASE ClickAgain
  BY <1>14, ClickFacts DEF ClickAgain, CaptchaModeHonoured
<1>15. CASE ClickFails
  BY <1>15 DEF ClickFails, TryNextUrl, history, CaptchaModeHonoured
<1>16. CASE Judge
  BY <1>16 DEF Judge, Hiding, TryNextUrl, history, CaptchaModeHonoured
<1>17. CASE AcceptRules
  BY <1>17 DEF AcceptRules, history, CaptchaModeHonoured
<1>18. CASE RulesFail
  BY <1>18 DEF RulesFail, Hiding, TryNextUrl, CaptchaModeHonoured
<1>19. CASE Recheck
  BY <1>19, LoggedInFacts, LoggedOutFacts DEF Recheck, TryNextUrl,
     CaptchaModeHonoured
<1>20. CASE Save
  BY <1>20 DEF Save, history, CaptchaModeHonoured
<1>22. CASE Arrive
  BY <1>22 DEF Arrive, LetsIn, ShowsError, KeptPage, CaptchaModeHonoured
<1>21. CASE UNCHANGED vars
  BY <1>21 DEF vars, CaptchaModeHonoured
<1> QED BY <1>1, <1>2, <1>3, <1>4, <1>5, <1>6, <1>7, <1>8, <1>9, <1>10, <1>11, <1>12, <1>13,
        <1>14, <1>15, <1>16, <1>17, <1>18, <1>19, <1>20, <1>21, <1>22 DEF Next

\* The initial states.
LEMMA InitInv == Init => IInv
<1> SUFFICES ASSUME Init PROVE IInv
  OBVIOUS
<1>1. session \in BOOLEAN /\ err \in BOOLEAN
  BY DEF Init
<1>2. TypeOK
  BY <1>1, LoginAssumption DEF Init, TypeOK, Places
<1>3. InOrder
  BY LoginAssumption DEF Init, InOrder
<1>4. NoBlindClick /\ RefusalTruthful /\ CaptchaModeHonoured
  BY DEF Init, NoBlindClick, RefusalTruthful, CaptchaModeHonoured
<1> QED BY <1>2, <1>3, <1>4 DEF IInv

\* The inductive invariant of an attempt to log in holds, however many URLs the form
\* is looked for at (app/automation/auth.py).
THEOREM Invariance == Spec => []IInv
<1>1. IInv /\ [Next]_vars => IInv'
  BY TypeStep, OrderStep, BlindStep, RefusalStep, ModeStep DEF IInv
<1> QED BY <1>1, InitInv, PTL DEF Spec

\* No click is blind: never with an empty captcha (auth.py:404-408), on another page
\* only after a login that came late, and twice at most for each URL.
THEOREM ClicksAim == Spec => []NoBlindClick
<1>1. IInv => NoBlindClick
  BY DEF IInv
<1> QED BY <1>1, Invariance, PTL

\* Who is told that the login was refused has no session, unless a fault hid it
\* (auth.py:378-382, 411).
THEOREM RefusalsTrue == Spec => []RefusalTruthful
<1>1. IInv => RefusalTruthful
  BY DEF IInv
<1> QED BY <1>1, Invariance, PTL

\* Whatever the settings, the captcha is solved by whom they name
\* (auth.py, _handle_captcha).
THEOREM ModeKept == Spec => []CaptchaModeHonoured
<1>1. IInv => CaptchaModeHonoured
  BY DEF IInv
<1> QED BY <1>1, Invariance, PTL

----------------------------------------------------------------------------
(***************************************************************************)
(* How long an attempt may be, however its calls end: no loop can go on    *)
(* for ever.                                                               *)
(***************************************************************************)

\* What the site or the operator does meanwhile.
MeanwhileSteps == OperatorSubmits \/ Arrive

\* What the code does itself.
LoginSteps ==
    \/ Check \/ Visit \/ VisitFails \/ NoFormFound \/ FillFields \/ FieldsFail
    \/ HandleCaptcha \/ Provided \/ OperatorAnswers \/ OperatorTimeout
    \/ Submit \/ SubmitFails \/ ClickAgain \/ ClickFails \/ Judge
    \/ AcceptRules \/ RulesFail \/ Recheck \/ Save

\* The steps left in the round of a URL, at most: more than at any place that may come
\* after.
InRound(place) ==
    [check |-> 11, visit |-> 10, fields |-> 9, captcha |-> 8, provider |-> 7, manual |-> 6,
     submit |-> 5, again |-> 4, wait |-> 3, post |-> 2, recheck |-> 1][place]

\* The steps left, at most: eleven for each URL, and for the state that is saved one.
LeftAt(place, next) ==
    IF place = "done" THEN 0 ELSE IF place = "save" THEN 1
    ELSE 11 * (LoginUrls + 1 - next) + InRound(place)

StepsLeft == LeftAt(pc, url)

\* Every step of the code uses up a URL, or a part of the round of a URL; what the site
\* or the operator does meanwhile adds nothing.
StepsRunOut ==
    [][\/ LoginSteps /\ StepsLeft' < StepsLeft
       \/ MeanwhileSteps /\ StepsLeft' = StepsLeft]_vars

\* How many steps an attempt may have, and that it has none left only when it is over.
StepsBounded ==
    /\ StepsLeft \in 0..11 * (LoginUrls + 1)
    /\ StepsLeft = 0 <=> pc = "done"

\* The bound at each place.
LEMMA LeftFacts ==
    ASSUME NEW n
    PROVE  /\ LeftAt("check", n) = 11 * (LoginUrls + 1 - n) + 11
           /\ LeftAt("visit", n) = 11 * (LoginUrls + 1 - n) + 10
           /\ LeftAt("fields", n) = 11 * (LoginUrls + 1 - n) + 9
           /\ LeftAt("captcha", n) = 11 * (LoginUrls + 1 - n) + 8
           /\ LeftAt("provider", n) = 11 * (LoginUrls + 1 - n) + 7
           /\ LeftAt("manual", n) = 11 * (LoginUrls + 1 - n) + 6
           /\ LeftAt("submit", n) = 11 * (LoginUrls + 1 - n) + 5
           /\ LeftAt("again", n) = 11 * (LoginUrls + 1 - n) + 4
           /\ LeftAt("wait", n) = 11 * (LoginUrls + 1 - n) + 3
           /\ LeftAt("post", n) = 11 * (LoginUrls + 1 - n) + 2
           /\ LeftAt("recheck", n) = 11 * (LoginUrls + 1 - n) + 1
           /\ LeftAt("save", n) = 1 /\ LeftAt("done", n) = 0
BY DEF LeftAt, InRound

LEMMA StepShortens ==
    ASSUME IInv, LoginSteps
    PROVE  StepsLeft' < StepsLeft
<1>1. /\ pc \in Places /\ url \in 1..LoginUrls + 1 /\ LoginUrls \in Nat \ {0}
      /\ pc \notin {"visit", "done", "save"} => url <= LoginUrls
  BY LoginAssumption DEF IInv, TypeOK, InOrder
<1> USE <1>1, LeftFacts DEF StepsLeft, Places, history
<1>2. CASE Check
  BY <1>2 DEF Check
<1>3. CASE Visit
  BY <1>3 DEF Visit, NextUrl
<1>4. CASE VisitFails
  BY <1>4 DEF VisitFails, NextUrl
<1>5. CASE NoFormFound
  BY <1>5 DEF NoFormFound, Refuse
<1>6. CASE FillFields
  BY <1>6 DEF FillFields
<1>7. CASE FieldsFail
  BY <1>7 DEF FieldsFail, TryNextUrl, NextUrl
<1>8. CASE HandleCaptcha
  BY <1>8 DEF HandleCaptcha, Answer, AskOperator, Refuse
<1>9. CASE Provided
  BY <1>9 DEF Provided, Answer, AskOperator, Refuse
<1>10. CASE OperatorAnswers
  BY <1>10 DEF OperatorAnswers
<1>12. CASE OperatorTimeout
  BY <1>12 DEF OperatorTimeout, Refuse
<1>13. CASE Submit
  BY <1>13 DEF Submit
<1>14. CASE SubmitFails
  BY <1>14 DEF SubmitFails
<1>15. CASE ClickAgain
  BY <1>15 DEF ClickAgain
<1>16. CASE ClickFails
  BY <1>16 DEF ClickFails, TryNextUrl, NextUrl
<1>17. CASE Judge
  BY <1>17 DEF Judge, TryNextUrl, NextUrl
<1>18. CASE AcceptRules
  BY <1>18 DEF AcceptRules
<1>19. CASE RulesFail
  BY <1>19 DEF RulesFail, TryNextUrl, NextUrl
<1>20. CASE Recheck
  BY <1>20 DEF Recheck, TryNextUrl, NextUrl
<1>21. CASE Save
  BY <1>21 DEF Save
<1> QED
  BY <1>2, <1>3, <1>4, <1>5, <1>6, <1>7, <1>8, <1>9, <1>10, <1>12, <1>13,
     <1>14, <1>15, <1>16, <1>17, <1>18, <1>19, <1>20, <1>21
  DEF LoginSteps

\* No loop of login() (the URLs, auth.py:385-399; the clicks, lines 350-365; the wait for
\* the operator, lines 218-232) goes round for ever, whatever the site does.
THEOREM RunsOut == Spec => StepsRunOut
<1>1. IInv /\ [Next]_vars => [\/ LoginSteps /\ StepsLeft' < StepsLeft
                              \/ MeanwhileSteps /\ StepsLeft' = StepsLeft]_vars
  <2> SUFFICES ASSUME IInv, Next
               PROVE  \/ LoginSteps /\ StepsLeft' < StepsLeft
                      \/ MeanwhileSteps /\ StepsLeft' = StepsLeft
    OBVIOUS
  <2>1. CASE LoginSteps
    BY <2>1, StepShortens
  <2>2. CASE MeanwhileSteps
    BY <2>2 DEF MeanwhileSteps, OperatorSubmits, Arrive, StepsLeft
  <2> QED BY <2>1, <2>2 DEF Next, LoginSteps, MeanwhileSteps
<1> QED BY <1>1, Invariance, PTL DEF Spec, StepsRunOut

\* So an attempt has at most eleven steps for each URL and eleven more.
THEOREM RunsShort == Spec => []StepsBounded
<1>1. IInv => StepsBounded
  <2> SUFFICES ASSUME IInv PROVE StepsBounded
    OBVIOUS
  <2>1. /\ pc \in Places /\ url \in 1..LoginUrls + 1 /\ LoginUrls \in Nat \ {0}
    BY LoginAssumption DEF IInv, TypeOK
  <2> QED BY <2>1, LeftFacts DEF StepsBounded, StepsLeft, Places
<1> QED BY <1>1, Invariance, PTL

----------------------------------------------------------------------------
(***************************************************************************)
(* Of the captcha provider that the login waits for, TwoCaptcha, for any   *)
(* number of attempts and any times: how long it may take, whose answer it *)
(* returns and which tasks it may drop.                                    *)
(***************************************************************************)

\* The numbers a call starts with, and the time an attempt may take.
LEMMA CaptchaNumbers ==
    /\ MaxRetries \in Nat \ {0}
    /\ AttemptTime \in Nat
    /\ AttemptTime = CreateTimeout + timeout_seconds - 1 + PollTimeout + poll_seconds
BY CaptchaAssumption DEF MaxRetries, AttemptTime

\* One attempt more takes one AttemptTime more, and all of them the bound.
LEMMA TimeOfAttempts ==
    ASSUME NEW t \in Nat, NEW n \in Nat \ {0}, NEW a \in 1..n
    PROVE  /\ (a - 1) * t \in Nat /\ a * t \in Nat
           /\ a * t = (a - 1) * t + t
           /\ a * t <= n * t
<1>1. (a - 1) * t \in Nat /\ a * t \in Nat /\ a * t = (a - 1) * t + t
  OBVIOUS
<1>2. PICK d \in Nat : n = a + d
  BY n - a \in Nat, n = a + (n - a)
<1>3. n * t = a * t + d * t
  BY <1>2
<1>4. d * t \in Nat
  OBVIOUS
<1> QED BY <1>1, <1>3, <1>4

\* A set within a set that grew by one element has at most one element more.
LEMMA AtMostOneMore ==
    ASSUME NEW S, NEW T, NEW x, IsFiniteSet(S), T \subseteq S \cup {x}
    PROVE  /\ IsFiniteSet(T)
           /\ Cardinality(T) \in Nat /\ Cardinality(S) \in Nat
           /\ Cardinality(T) <= Cardinality(S) + 1
<1>1. IsFiniteSet(S \cup {x}) /\ Cardinality(S \cup {x}) <= Cardinality(S) + 1
  <2>1. Cardinality(S) \in Nat
    BY FS_CardinalityType
  <2>2. /\ IsFiniteSet(S \cup {x})
        /\ Cardinality(S \cup {x}) = IF x \in S THEN Cardinality(S) ELSE Cardinality(S) + 1
    BY FS_AddElement
  <2> QED BY <2>1, <2>2
<1>2. IsFiniteSet(T) /\ Cardinality(T) <= Cardinality(S \cup {x})
  BY <1>1, FS_Subset
<1> QED BY <1>1, <1>2, FS_CardinalityType

\* The sets that are counted are finite.
LEMMA CaptchaCounts ==
    ASSUME CaptchaTypeOK
    PROVE  /\ IsFiniteSet(Unused) /\ Cardinality(Unused) \in Nat
           /\ IsFiniteSet(Excused) /\ Cardinality(Excused) \in Nat
<1>1. IsFiniteSet(1..MaxRetries) /\ IsFiniteSet(1..Len(tasks))
  BY CaptchaNumbers, FS_Interval DEF CaptchaTypeOK
<1>2. Unused \subseteq 1..Len(tasks) /\ Excused \subseteq 1..MaxRetries
  BY DEF Unused, Excused, CaptchaTypeOK
<1>3. IsFiniteSet(Unused) /\ IsFiniteSet(Excused)
  BY <1>1, <1>2, FS_Subset
<1> QED BY <1>3, FS_CardinalityType

\* Every step keeps the types.
LEMMA CaptchaTypeStep ==
    ASSUME CaptchaIInv, CaptchaNext
    PROVE  CaptchaTypeOK'
<1>0. MaxRetries \in Nat \ {0}
  BY CaptchaNumbers
<1> USE <1>0, CaptchaAssumption DEF CaptchaIInv, CaptchaTypeOK, AttemptsInOrder, Excused, Elapse
<1>1. CASE CreateTask
  BY <1>1 DEF CreateTask
<1>2. CASE CreateRejected
  BY <1>2 DEF CreateRejected, NextAttempt
<1>3. CASE CreateFails
  BY <1>3 DEF CreateFails, NextAttempt
<1>4. CASE PollFails
  BY <1>4 DEF PollFails, NextAttempt
<1>5. CASE PollNotReady
  BY <1>5 DEF PollNotReady
<1>6. CASE Sleep
  BY <1>6 DEF Sleep
<1>7. CASE PollSolved
  BY <1>7 DEF PollSolved
<1>8. CASE PollRefused
  <2>1. attempt \in 1..MaxRetries
    BY <1>8 DEF PollRefused
  <2>2. dropped' \subseteq 1..MaxRetries
    BY <1>8, <2>1 DEF PollRefused
  <2>3. now' \in Nat
    BY <1>8 DEF PollRefused
  <2> QED BY <1>8, <2>1, <2>2, <2>3 DEF PollRefused, NextAttempt
<1>9. CASE Deadline
  BY <1>9 DEF Deadline, NextAttempt
<1>10. ASSUME NEW i \in DOMAIN tasks, SiteFinishes(i) PROVE CaptchaTypeOK'
  BY <1>10 DEF SiteFinishes
<1> QED BY <1>1, <1>2, <1>3, <1>4, <1>5, <1>6, <1>7, <1>8, <1>9, <1>10 DEF CaptchaNext

\* Every step keeps the order of attempts and tasks, and answers belong to the task.
LEMMA CaptchaOrderStep ==
    ASSUME CaptchaIInv, CaptchaNext, CaptchaTypeOK'
    PROVE  AttemptsInOrder' /\ AnswerIsCurrent'
<1>0. MaxRetries \in Nat \ {0}
  BY CaptchaNumbers
<1> USE <1>0 DEF CaptchaIInv, CaptchaTypeOK, AttemptsInOrder, AnswerIsCurrent, Excused
<1>1. CASE CreateTask
  BY <1>1 DEF CreateTask
<1>2. CASE CreateRejected
  BY <1>2 DEF CreateRejected, NextAttempt
<1>3. CASE CreateFails
  BY <1>3 DEF CreateFails, NextAttempt
<1>4. CASE PollFails
  BY <1>4 DEF PollFails, NextAttempt
<1>5. CASE PollNotReady
  BY <1>5 DEF PollNotReady
<1>6. CASE Sleep
  BY <1>6 DEF Sleep
<1>7. CASE PollSolved
  BY <1>7 DEF PollSolved
<1>8. CASE PollRefused
  BY <1>8 DEF PollRefused, NextAttempt
<1>9. CASE Deadline
  BY <1>9 DEF Deadline, NextAttempt
<1>10. ASSUME NEW i \in DOMAIN tasks, SiteFinishes(i)
       PROVE  AttemptsInOrder' /\ AnswerIsCurrent'
  BY <1>10 DEF SiteFinishes
<1> QED BY <1>1, <1>2, <1>3, <1>4, <1>5, <1>6, <1>7, <1>8, <1>9, <1>10 DEF CaptchaNext

\* Every step keeps to the time of its attempt.
LEMMA CaptchaTimeStep ==
    ASSUME CaptchaIInv, CaptchaNext, CaptchaTypeOK'
    PROVE  OnTime' /\ TimeBounded'
<1> DEFINE before == (attempt - 1) * AttemptTime
           all == MaxRetries * AttemptTime
<1>0. MaxRetries \in Nat \ {0} /\ AttemptTime \in Nat
  BY CaptchaNumbers
<1>1. all \in Nat /\ before \in Int /\ attempt \in Nat \ {0}
  BY <1>0 DEF CaptchaIInv, CaptchaTypeOK
<1>2. attempt <= MaxRetries =>
          /\ before \in Nat /\ before + AttemptTime <= all
          /\ ((attempt + 1) - 1) * AttemptTime = before + AttemptTime
  BY <1>0, <1>1, TimeOfAttempts
<1>3. AttemptTime = CreateTimeout + timeout_seconds - 1 + PollTimeout + poll_seconds
  BY CaptchaNumbers
<1>4. /\ captchaPc = "create" => now <= before
      /\ captchaPc \in {"poll", "sleep"} => deadline <= before + CreateTimeout + timeout_seconds
      /\ captchaPc = "poll" => now <= deadline - 1 + PollTimeout + poll_seconds
      /\ captchaPc = "sleep" => now <= deadline - 1 + PollTimeout
      /\ now <= all
  BY DEF CaptchaIInv, OnTime, TimeBounded
<1>5. SUFFICES
          /\ captchaPc' = "create" => now' <= (attempt' - 1) * AttemptTime
          /\ captchaPc' \in {"poll", "sleep"} =>
                 deadline' <= (attempt' - 1) * AttemptTime + CreateTimeout + timeout_seconds
          /\ captchaPc' = "poll" => now' <= deadline' - 1 + PollTimeout + poll_seconds
          /\ captchaPc' = "sleep" => now' <= deadline' - 1 + PollTimeout
          /\ now' <= all
  BY DEF OnTime, TimeBounded, AttemptTime, MaxRetries
<1>6. /\ captchaPc # "done" => attempt <= MaxRetries
      /\ now \in Nat /\ deadline \in Nat
      /\ CreateTimeout \in Nat /\ PollTimeout \in Nat /\ timeout_seconds \in Nat
      /\ poll_seconds \in Nat \ {0} /\ Lags \subseteq Nat
  BY CaptchaAssumption DEF CaptchaIInv, CaptchaTypeOK, AttemptsInOrder
<1> DEFINE next == (attempt' - 1) * AttemptTime
<1>7. attempt' = attempt => next = before
  OBVIOUS
<1>8. attempt' = attempt + 1 /\ attempt <= MaxRetries => next = before + AttemptTime
  BY <1>2
<1>9. SUFFICES
          /\ captchaPc' = "create" => now' <= next
          /\ captchaPc' \in {"poll", "sleep"} => deadline' <= next + CreateTimeout + timeout_seconds
          /\ captchaPc' = "poll" => now' <= deadline' - 1 + PollTimeout + poll_seconds
          /\ captchaPc' = "sleep" => now' <= deadline' - 1 + PollTimeout
          /\ now' <= all
  OBVIOUS
<1> HIDE DEF before, next, all
<1> USE <1>0, <1>1, <1>2, <1>3, <1>4, <1>6, <1>7, <1>8 DEF Elapse
<1>11. CASE CreateTask
  BY <1>11 DEF CreateTask
<1>12. CASE CreateRejected
  BY <1>12 DEF CreateRejected, NextAttempt
<1>13. CASE CreateFails
  BY <1>13 DEF CreateFails, NextAttempt
<1>14. CASE PollFails
  BY <1>14 DEF PollFails, NextAttempt
<1>15. CASE PollNotReady
  BY <1>15 DEF PollNotReady
<1>16. CASE Sleep
  BY <1>16 DEF Sleep
<1>17. CASE PollSolved
  BY <1>17 DEF PollSolved
<1>18. CASE PollRefused
  BY <1>18 DEF PollRefused, NextAttempt
<1>19. CASE Deadline
  BY <1>19 DEF Deadline, NextAttempt
<1>20. CASE \E i \in DOMAIN tasks : SiteFinishes(i)
  BY <1>20 DEF SiteFinishes
<1> QED BY <1>11, <1>12, <1>13, <1>14, <1>15, <1>16, <1>17, <1>18, <1>19, <1>20 DEF CaptchaNext

\* A task leaves the count, or an attempt that cost one is noted.
LEMMA CaptchaTasksStep ==
    ASSUME CaptchaIInv, CaptchaNext, CaptchaTypeOK', value' = 0
    PROVE  Cardinality(Unused)' <= Cardinality(Excused)'
<1> DEFINE S == Unused
           T == Unused'
           E == Excused
           F == Excused'
<1>1. /\ IsFiniteSet(S) /\ IsFiniteSet(E)
      /\ Cardinality(S) \in Nat /\ Cardinality(E) \in Nat
  BY CaptchaCounts DEF CaptchaIInv
<1>2. value = 0
  BY DEF CaptchaIInv, CaptchaTypeOK, AttemptsInOrder, CaptchaNext, CreateTask,
         CreateRejected, CreateFails, PollFails, PollNotReady,
         Sleep, PollSolved, PollRefused, Deadline,
         SiteFinishes
<1>3. Cardinality(S) <= Cardinality(E)
  BY <1>2 DEF CaptchaIInv
<1>4. CASE T \subseteq S /\ F = E
  <2>1. Cardinality(T) <= Cardinality(S) /\ Cardinality(T) \in Nat
    BY <1>1, <1>4, FS_Subset, FS_CardinalityType
  <2> QED BY <1>1, <1>3, <1>4, <2>1
<1>5. ASSUME NEW x, T \subseteq S \cup {x}, attempt \notin E, F = E \cup {attempt}
      PROVE  Cardinality(T) <= Cardinality(F)
  <2>1. Cardinality(T) <= Cardinality(S) + 1 /\ Cardinality(T) \in Nat
    BY <1>1, <1>5, AtMostOneMore
  <2>2. Cardinality(F) = Cardinality(E) + 1
    BY <1>1, <1>5, FS_AddElement
  <2> QED BY <1>1, <1>3, <2>1, <2>2
<1>6. captchaPc # "done" => attempt \notin E
  BY CaptchaNumbers DEF CaptchaIInv, CaptchaTypeOK, AttemptsInOrder
<1>7. UNCHANGED <<missed, expired, dropped>> => F = E
  BY DEF Excused
<1> USE DEF CaptchaIInv, CaptchaTypeOK, AttemptsInOrder, Unused
<1>11. CASE CreateTask
  <2>1. /\ tasks' = Append(tasks, "working") /\ known' = Len(tasks) + 1
        /\ UNCHANGED <<missed, expired, dropped>> /\ known = 0
    BY <1>11 DEF CreateTask
  <2>2. ASSUME NEW i \in T PROVE i \in S
    BY <2>1, <2>2
  <2> QED BY <2>1, <2>2, <1>4, <1>7
<1>12. CASE CreateRejected
  BY <1>12, <1>4, <1>7 DEF CreateRejected, NextAttempt
<1>13. CASE CreateFails
  <2>1. T \subseteq S \cup {Len(tasks) + 1}
    BY <1>13 DEF CreateFails, NextAttempt
  <2> QED BY <1>13, <1>5, <1>6, <2>1 DEF CreateFails, Excused
<1>14. CASE PollFails
  <2>1. T \subseteq S \cup {known}
    BY <1>14 DEF PollFails, NextAttempt
  <2> QED BY <1>14, <1>5, <1>6, <2>1 DEF PollFails, Excused
<1>15. CASE PollNotReady
  BY <1>15, <1>4, <1>7 DEF PollNotReady
<1>16. CASE Sleep
  BY <1>16, <1>4, <1>7 DEF Sleep
<1>17. CASE PollSolved
  BY <1>17 DEF PollSolved
<1>18. CASE PollRefused
  <2>1. CASE tasks[known] = "failed" /\ UNCHANGED dropped
    BY <1>18, <2>1, <1>4, <1>7 DEF PollRefused, NextAttempt
  <2>2. CASE dropped' = dropped \cup {attempt}
    <3>1. T \subseteq S \cup {known}
      BY <1>18 DEF PollRefused, NextAttempt
    <3> QED BY <1>18, <2>2, <1>5, <1>6, <3>1 DEF PollRefused, Excused
  <2> QED BY <1>18, <2>1, <2>2 DEF PollRefused
<1>19. CASE Deadline
  <2>1. T \subseteq S \cup {known}
    BY <1>19 DEF Deadline, NextAttempt
  <2> QED BY <1>19, <1>5, <1>6, <2>1 DEF Deadline, Excused
<1>20. CASE \E i \in DOMAIN tasks : SiteFinishes(i)
  BY <1>20, <1>4, <1>7 DEF SiteFinishes
<1> QED BY <1>11, <1>12, <1>13, <1>14, <1>15, <1>16, <1>17, <1>18, <1>19, <1>20 DEF CaptchaNext

\* IInv of TwoCaptcha: what solve_text_captcha knows of its tasks and of the time, in
\* every state, for any number of attempts and any times.
THEOREM CaptchaInvariance == CaptchaSpec => []CaptchaIInv
<1>1. CaptchaInit => CaptchaIInv
  <2> SUFFICES ASSUME CaptchaInit PROVE CaptchaIInv
    OBVIOUS
  <2>1. MaxRetries \in Nat \ {0} /\ AttemptTime \in Nat
    BY CaptchaNumbers
  <2>2. CaptchaTypeOK /\ AttemptsInOrder /\ AnswerIsCurrent
    BY <2>1 DEF CaptchaInit, CaptchaTypeOK, AttemptsInOrder, Excused, AnswerIsCurrent
  <2>3. OnTime /\ TimeBounded
    BY <2>1 DEF CaptchaInit, OnTime, TimeBounded
  <2>4. Unused = {} /\ Excused = {}
    BY DEF CaptchaInit, Unused, Excused
  <2>5. Cardinality(Unused) <= Cardinality(Excused)
    BY <2>4, FS_EmptySet
  <2> QED BY <2>2, <2>3, <2>5 DEF CaptchaIInv
<1>2. CaptchaIInv /\ [CaptchaNext]_captchaVars => CaptchaIInv'
  <2> SUFFICES ASSUME CaptchaIInv, [CaptchaNext]_captchaVars PROVE CaptchaIInv'
    OBVIOUS
  <2>1. CASE CaptchaNext
    <3>1. CaptchaTypeOK'
      BY <2>1, CaptchaTypeStep
    <3>2. AttemptsInOrder' /\ AnswerIsCurrent' /\ OnTime' /\ TimeBounded'
      BY <2>1, <3>1, CaptchaOrderStep, CaptchaTimeStep
    <3>3. value' = 0 =>
              Cardinality(Unused)' <= Cardinality(Excused)'
      BY <2>1, <3>1, CaptchaTasksStep
    <3> QED BY <3>1, <3>2, <3>3 DEF CaptchaIInv
  <2>2. CASE UNCHANGED captchaVars
    BY <2>2 DEF captchaVars, CaptchaIInv, CaptchaTypeOK, AttemptsInOrder, AnswerIsCurrent,
                OnTime, TimeBounded, Unused, Excused
  <2> QED BY <2>1, <2>2
<1> QED BY <1>1, <1>2, PTL DEF CaptchaSpec

\* AnswerIsCurrent: at most one task is posted for an attempt, and the answer that is
\* returned belongs to the task posted last (twocaptcha.py:34-41).
THEOREM CaptchaAnswersCurrent == CaptchaSpec => []AnswerIsCurrent
<1>1. CaptchaIInv => AnswerIsCurrent
  BY DEF CaptchaIInv
<1> QED BY <1>1, CaptchaInvariance, PTL

\* PaidTaskUsed: an unsolved captcha leaves no more tasks unfinished or unused than
\* attempts that met a fault, an error of the service or their deadline.
THEOREM CaptchaPaidUsed == CaptchaSpec => []PaidTaskUsed
<1>1. CaptchaIInv => PaidTaskUsed
  <2> SUFFICES ASSUME CaptchaIInv, captchaPc = "done", value = 0
               PROVE  Cardinality({i \in DOMAIN tasks : tasks[i] # "failed"})
                          <= Cardinality(Excused)
    BY DEF PaidTaskUsed
  <2>1. Unused = {i \in DOMAIN tasks : tasks[i] # "failed"}
    BY DEF CaptchaIInv, CaptchaTypeOK, AttemptsInOrder, Unused
  <2> QED BY <2>1 DEF CaptchaIInv
<1> QED BY <1>1, CaptchaInvariance, PTL

\* TimeBounded: the deadline of _poll_result, which is looked at between
\* polls only, bounds the wait of the login all the same.
THEOREM CaptchaBounded == CaptchaSpec => []TimeBounded
<1>1. CaptchaIInv => TimeBounded
  BY DEF CaptchaIInv
<1> QED BY <1>1, CaptchaInvariance, PTL

----------------------------------------------------------------------------
(* How long a call may be, however its requests end.                        *)

\* What solve_text_captcha does itself: everything but the work of the site.
CaptchaSteps ==
    \/ CreateTask \/ CreateRejected \/ CreateFails
    \/ PollFails \/ PollNotReady \/ Sleep \/ PollSolved \/ PollRefused \/ Deadline

\* The steps of an attempt, at most: its task is created, and polled at most once a
\* second until its deadline, with a pause after each poll.
AttemptSteps == 2 * timeout_seconds + 4

\* The steps left at a place of an attempt, at time t with deadline d.
InAttempt(place, t, d) ==
    [create |-> AttemptSteps,
     poll |-> IF t < d THEN 2 * (d - t) + 3 ELSE 1,
     sleep |-> IF t < d THEN 2 * (d - t) + 2 ELSE 2][place]

CaptchaStepsLeft ==
    IF captchaPc = "done" THEN 0
    ELSE (MaxRetries - attempt) * AttemptSteps + InAttempt(captchaPc, now, deadline)

\* Every step of the code uses up an attempt, or some of the time of one; what the site
\* does meanwhile adds nothing.
CaptchaRunsOut ==
    [][\/ CaptchaSteps /\ CaptchaStepsLeft' < CaptchaStepsLeft
       \/ (\E i \in DOMAIN tasks : SiteFinishes(i)) /\ CaptchaStepsLeft' = CaptchaStepsLeft
      ]_captchaVars

\* How many steps a call may have, and that it has none left only when it is over.
CaptchaStepsBounded ==
    /\ CaptchaStepsLeft \in 0..MaxRetries * AttemptSteps
    /\ CaptchaStepsLeft = 0 <=> captchaPc = "done"

\* The deadline is never further ahead than when it was set.
DeadlineNear == captchaPc \in {"poll", "sleep"} => deadline <= now + timeout_seconds

LEMMA DeadlineStep ==
    ASSUME CaptchaIInv, DeadlineNear, [CaptchaNext]_captchaVars
    PROVE  DeadlineNear'
<1> USE CaptchaAssumption DEF DeadlineNear, CaptchaIInv, CaptchaTypeOK
<1>1. CASE CreateTask
  BY <1>1 DEF CreateTask, Elapse
<1>2. CASE CreateRejected \/ CreateFails \/ PollFails \/ PollRefused \/ Deadline
  BY <1>2 DEF CreateRejected, CreateFails, PollFails, PollRefused, Deadline, NextAttempt
<1>3. CASE PollNotReady \/ PollSolved
  BY <1>3 DEF PollNotReady, PollSolved, Elapse
<1>4. CASE Sleep
  BY <1>4 DEF Sleep
<1>5. CASE \E i \in DOMAIN tasks : SiteFinishes(i)
  BY <1>5 DEF SiteFinishes
<1>6. CASE UNCHANGED captchaVars
  BY <1>6 DEF captchaVars
<1> QED BY <1>1, <1>2, <1>3, <1>4, <1>5, <1>6 DEF CaptchaNext

\* What is left for the attempts to come.
LEMMA AttemptsLeft ==
    ASSUME NEW m \in Nat \ {0}, NEW a \in 1..m
    PROVE  /\ AttemptSteps \in Nat /\ AttemptSteps = 2 * timeout_seconds + 4
           /\ (m - a) * AttemptSteps \in Nat
           /\ (m - a) * AttemptSteps + AttemptSteps <= m * AttemptSteps
           /\ a < m => (m - a) * AttemptSteps = (m - (a + 1)) * AttemptSteps + AttemptSteps
<1>1. AttemptSteps \in Nat /\ AttemptSteps = 2 * timeout_seconds + 4
  BY CaptchaAssumption DEF AttemptSteps
<1> HIDE DEF AttemptSteps
<1>2. /\ m - a + 1 \in 1..m /\ (m - a + 1) - 1 = m - a
      /\ a < m => m - a \in 1..m /\ (m - a) - 1 = m - (a + 1)
  OBVIOUS
<1>3. /\ ((m - a + 1) - 1) * AttemptSteps \in Nat
      /\ (m - a + 1) * AttemptSteps = ((m - a + 1) - 1) * AttemptSteps + AttemptSteps
      /\ (m - a + 1) * AttemptSteps <= m * AttemptSteps
  BY <1>1, <1>2, TimeOfAttempts
<1>4. a < m => (m - a) * AttemptSteps = ((m - a) - 1) * AttemptSteps + AttemptSteps
  BY <1>1, <1>2, TimeOfAttempts
<1> QED BY <1>1, <1>2, <1>3, <1>4

\* The bound at each place of an attempt.
LEMMA InAttemptFacts ==
    ASSUME NEW place, NEW t, NEW d
    PROVE  /\ place = "create" => InAttempt(place, t, d) = AttemptSteps
           /\ place = "poll" /\ t < d => InAttempt(place, t, d) = 2 * (d - t) + 3
           /\ place = "sleep" /\ t < d => InAttempt(place, t, d) = 2 * (d - t) + 2
           /\ place = "poll" /\ ~(t < d) => InAttempt(place, t, d) = 1
           /\ place = "sleep" /\ ~(t < d) => InAttempt(place, t, d) = 2
BY DEF InAttempt

LEMMA CaptchaStepShortens ==
    ASSUME CaptchaIInv, CaptchaSteps, CaptchaTypeOK'
    PROVE  CaptchaStepsLeft' < CaptchaStepsLeft
<1> DEFINE later == (MaxRetries - attempt) * AttemptSteps
           next == (MaxRetries - attempt') * AttemptSteps
           here == InAttempt(captchaPc, now, deadline)
           there == InAttempt(captchaPc', now', deadline')
<1>1. /\ MaxRetries \in Nat \ {0} /\ attempt \in 1..MaxRetries
      /\ now \in Nat /\ deadline \in Nat /\ now' \in Nat /\ deadline' \in Nat
      /\ captchaPc \in {"create", "poll", "sleep"}
      /\ captchaPc' \in {"create", "poll", "sleep", "done"}
  BY CaptchaNumbers DEF CaptchaIInv, CaptchaTypeOK, AttemptsInOrder, CaptchaSteps, CreateTask,
     CreateRejected, CreateFails, PollFails, PollNotReady, Sleep, PollSolved, PollRefused, Deadline
<1>2. /\ later \in Nat /\ AttemptSteps \in Nat /\ AttemptSteps = 2 * timeout_seconds + 4
      /\ attempt' = attempt => next = later
      /\ attempt' = attempt + 1 /\ attempt < MaxRetries => later = next + AttemptSteps
  BY <1>1, AttemptsLeft
<1>3. /\ CaptchaStepsLeft = later + here
      /\ captchaPc' # "done" => CaptchaStepsLeft' = next + there
      /\ captchaPc' = "done" => CaptchaStepsLeft' = 0
  BY <1>1 DEF CaptchaStepsLeft, MaxRetries, AttemptSteps
<1>4. /\ captchaPc = "poll" /\ ~(now < deadline) => here = 1
      /\ captchaPc = "create" => here = AttemptSteps
      /\ captchaPc = "poll" /\ now < deadline => here = 2 * (deadline - now) + 3
      /\ captchaPc = "sleep" /\ now < deadline => here = 2 * (deadline - now) + 2
      /\ captchaPc = "sleep" /\ ~(now < deadline) => here = 2
  BY InAttemptFacts
<1>5. /\ captchaPc' = "create" => there = AttemptSteps
      /\ captchaPc' = "poll" /\ now' < deadline' => there = 2 * (deadline' - now') + 3
      /\ captchaPc' = "poll" /\ ~(now' < deadline') => there = 1
      /\ captchaPc' = "sleep" /\ now' < deadline' => there = 2 * (deadline' - now') + 2
      /\ captchaPc' = "sleep" /\ ~(now' < deadline') => there = 2
  BY InAttemptFacts
<1> HIDE DEF later, next, here, there
<1>0. here \in Nat \ {0}
  BY <1>1, <1>2, <1>4, CaptchaAssumption
<1>6. ASSUME NextAttempt PROVE CaptchaStepsLeft' < CaptchaStepsLeft
  <2>1. CASE attempt < MaxRetries
    <3>1. later = next + AttemptSteps /\ there = AttemptSteps /\ CaptchaStepsLeft' = next + there
      BY <1>1, <1>2, <1>3, <1>5, <1>6, <2>1 DEF NextAttempt
    <3>2. next \in Int
      <4>1. MaxRetries - attempt' \in Int /\ AttemptSteps \in Int
        BY <1>1, <1>2, <1>6 DEF NextAttempt
      <4> HIDE DEF AttemptSteps, MaxRetries
      <4> QED BY <4>1 DEF next
    <3> QED BY <1>0, <1>2, <1>3, <3>1, <3>2
  <2>2. CASE ~(attempt < MaxRetries)
    BY <1>0, <1>2, <1>3, <1>6, <2>2 DEF NextAttempt
  <2> QED BY <2>1, <2>2
<1>12. deadline' = now' + timeout_seconds => deadline' - now' = timeout_seconds
  <2>1. now' \in Nat /\ timeout_seconds \in Nat
    BY <1>1, CaptchaAssumption
  <2>2. \A a, b, c : a \in Nat /\ b \in Nat /\ c = a + b => c - a = b
    OBVIOUS
  <2> QED BY ONLY <2>1, <2>2
<1> USE <1>0, <1>1, <1>2, <1>3, <1>4, <1>5, CaptchaAssumption
<1>7. CASE CreateTask
  <2>1. /\ captchaPc = "create" /\ captchaPc' = "poll" /\ attempt' = attempt
        /\ deadline' = now' + timeout_seconds
    BY <1>7 DEF CreateTask
  <2>2. CASE now' < deadline'
    <3>1. deadline' - now' = timeout_seconds
      BY <2>1, <1>12
    <3>2. there = 2 * (deadline' - now') + 3
      BY <2>1, <2>2
    <3>3. there = 2 * timeout_seconds + 3
      BY <3>1, <3>2
    <3> QED BY <2>1, <3>3
  <2>3. CASE ~(now' < deadline')
    BY <2>1, <2>3
  <2> QED BY <2>2, <2>3
<1>8. CASE PollNotReady
  <2>1. /\ captchaPc = "poll" /\ now < deadline /\ captchaPc' = "sleep"
        /\ attempt' = attempt /\ deadline' = deadline /\ now' >= now
    BY <1>8 DEF PollNotReady, Elapse
  <2> QED BY <2>1
<1>9. CASE Sleep
  <2>1. /\ captchaPc = "sleep" /\ captchaPc' = "poll" /\ now' >= now + 1
        /\ attempt' = attempt /\ deadline' = deadline
    BY <1>9 DEF Sleep
  <2> QED BY <2>1
<1>10. CASE PollSolved
  BY <1>10 DEF PollSolved
<1>11. CASE CreateRejected \/ CreateFails \/ PollFails \/ PollRefused \/ Deadline
  BY <1>6, <1>11 DEF CreateRejected, CreateFails, PollFails, PollRefused, Deadline
<1> QED BY <1>7, <1>8, <1>9, <1>10, <1>11 DEF CaptchaSteps

\* The two loops of the provider (twocaptcha.py:34-49, 73-106) end: each round of the one
\* uses up an attempt, each round of the other at least a second of its deadline.
THEOREM CaptchaEnds == CaptchaSpec => CaptchaRunsOut
<1>1. CaptchaIInv /\ CaptchaIInv' /\ [CaptchaNext]_captchaVars =>
          [\/ CaptchaSteps /\ CaptchaStepsLeft' < CaptchaStepsLeft
           \/ (\E i \in DOMAIN tasks : SiteFinishes(i)) /\ CaptchaStepsLeft' = CaptchaStepsLeft
          ]_captchaVars
  <2> SUFFICES ASSUME CaptchaIInv, CaptchaIInv', CaptchaNext
               PROVE  \/ CaptchaSteps /\ CaptchaStepsLeft' < CaptchaStepsLeft
                      \/ /\ \E i \in DOMAIN tasks : SiteFinishes(i)
                         /\ CaptchaStepsLeft' = CaptchaStepsLeft
    OBVIOUS
  <2>1. CASE CaptchaSteps
    BY <2>1, CaptchaStepShortens DEF CaptchaIInv
  <2>2. CASE \E i \in DOMAIN tasks : SiteFinishes(i)
    BY <2>2 DEF SiteFinishes, CaptchaStepsLeft
  <2> QED BY <2>1, <2>2 DEF CaptchaNext, CaptchaSteps
<1> QED BY <1>1, CaptchaInvariance, PTL DEF CaptchaSpec, CaptchaRunsOut

\* So a call has at most AttemptSteps steps for each attempt.
THEOREM CaptchaShort == CaptchaSpec => []CaptchaStepsBounded
<1>1. CaptchaInit => DeadlineNear
  BY DEF CaptchaInit, DeadlineNear
<1>2. CaptchaIInv /\ DeadlineNear => CaptchaStepsBounded
  <2> SUFFICES ASSUME CaptchaIInv, DeadlineNear PROVE CaptchaStepsBounded
    OBVIOUS
  <2>1. MaxRetries \in Nat \ {0} /\ now \in Nat /\ deadline \in Nat
    BY CaptchaNumbers DEF CaptchaIInv, CaptchaTypeOK
  <2>2. CASE captchaPc = "done"
    <3>1. MaxRetries * AttemptSteps \in Nat
      <4>1. MaxRetries \in Nat /\ AttemptSteps \in Nat
        BY <2>1, CaptchaAssumption DEF AttemptSteps
      <4> HIDE DEF MaxRetries, AttemptSteps
      <4> QED BY <4>1
    <3> QED BY <2>2, <3>1 DEF CaptchaStepsBounded, CaptchaStepsLeft
  <2>3. CASE captchaPc # "done"
    <3>1. attempt \in 1..MaxRetries /\ captchaPc \in {"create", "poll", "sleep"}
      BY <2>1, <2>3 DEF CaptchaIInv, CaptchaTypeOK, AttemptsInOrder
    <3>2. /\ (MaxRetries - attempt) * AttemptSteps \in Nat
          /\ AttemptSteps = 2 * timeout_seconds + 4
          /\ (MaxRetries - attempt) * AttemptSteps + AttemptSteps <= MaxRetries * AttemptSteps
          /\ MaxRetries * AttemptSteps \in Nat
      BY <2>1, <3>1, AttemptsLeft
    <3>3. InAttempt(captchaPc, now, deadline) \in 1..2 * timeout_seconds + 4
      <4>1. captchaPc \in {"poll", "sleep"} => deadline - now <= timeout_seconds
        BY <2>1, <3>1, CaptchaAssumption DEF DeadlineNear
      <4> QED BY <2>1, <3>1, <3>2, <4>1, InAttemptFacts, CaptchaAssumption
    <3>4. CaptchaStepsLeft
              = (MaxRetries - attempt) * AttemptSteps + InAttempt(captchaPc, now, deadline)
      BY <2>3 DEF CaptchaStepsLeft
    <3> HIDE DEF AttemptSteps
    <3> DEFINE later == (MaxRetries - attempt) * AttemptSteps
               all == MaxRetries * AttemptSteps
    <3>5. CaptchaStepsLeft \in 0..all /\ CaptchaStepsLeft # 0
      <4>1. /\ later \in Nat /\ later + AttemptSteps <= all /\ all \in Nat
            /\ CaptchaStepsLeft = later + InAttempt(captchaPc, now, deadline)
        BY <3>2, <3>4
      <4> HIDE DEF later, all
      <4> QED BY <3>2, <3>3, <4>1, CaptchaAssumption
    <3> QED BY <2>3, <3>5 DEF CaptchaStepsBounded
  <2> QED BY <2>2, <2>3
<1> QED BY <1>1, <1>2, DeadlineStep, CaptchaInvariance, PTL DEF CaptchaSpec
=============================================================================
