-------------------------------- MODULE Login --------------------------------
(***************************************************************************)
(* How an attempt gets a signed-in browser: lines 83-101 of                *)
(* app/services/waybill_service.py and UTCMSAuthenticator,                 *)
(* app/automation/auth.py.  Is the session still good? If not, the login   *)
(* form is looked for at one URL after the other, filled, its captcha      *)
(* solved, submitted and the outcome judged; then the state is saved.      *)
(*                                                                         *)
(* The site knows whether the browser is signed in (session); the code     *)
(* only sees pages.                                                        *)
(***************************************************************************)
EXTENDS Integers, FiniteSets

CONSTANTS
    Configs,      \* the settings a run may start with, see Config
    LoginUrls,    \* how many URLs _candidate_login_urls returns
    Faults        \* which of AllFaults may happen

\* "net", "other": a call raises, with a retryable text or not;
\* "late": a click is answered after the 10 s of expect_navigation, or in place;
\* "operator": who solves the captcha by hand also submits the form;
\* "errorPage": without a session the site shows some page other than a login;
\* "kept": the page of a signed-in browser (the rules, say) has a login URL;
\* "missed": query_selector comes too early for an element, or raises.
AllFaults == {"net", "other", "late", "operator", "errorPage", "kept", "missed"}

Modes == {"provider_first", "manual_only", "provider_only"}  \* _captcha_mode
Config == [credentials : BOOLEAN, value : BOOLEAN, mode : Modes, manual : BOOLEAN,
           headless : BOOLEAN, provider : BOOLEAN]

ASSUME LoginAssumption ==
    /\ Configs \subseteq Config
    /\ LoginUrls \in Nat \ {0}
    /\ Faults \subseteq AllFaults

VARIABLES
    config,
    pc,           \* where the attempt is
    url,          \* the next URL to look for the login form
    page,         \* "login", "form" (or a logout link), "rules", "other"; "kept"
    session,      \* does the site regard the browser as signed in?
    captcha,      \* of the page: "none", "empty" or "filled"
    err,          \* is last_error set?
    asked,        \* history: who was asked to solve a captcha
    clicks,       \* history: how often the form was submitted
    astray,       \* history: a click met another page, or an empty captcha
    hidden,       \* history: faults that hid from the code whether it is signed in
    saved,        \* the state file holds a session that was: "none", ...
    result        \* "none", "in", "refused" or "unconfigured"

vars == <<config, pc, url, page, session, captcha, err, asked, clicks, astray,
          hidden, saved, result>>
history == <<asked, clicks, astray, hidden>>

Places == {"check", "visit", "fields", "captcha", "provider", "manual", "submit",
           "again", "wait", "post", "recheck", "save", "done"}

Init ==
    /\ config \in Configs
    /\ pc = "check"
    /\ url = 1
    /\ page = "other"
    /\ session \in BOOLEAN
    /\ captcha = "none"
    /\ err = FALSE
    /\ asked = {}
    /\ clicks = 0
    /\ astray = {}
    /\ hidden = {}
    /\ saved = "none"
    /\ result = "none"

Refuse ==
    /\ pc' = "done"
    /\ result' = "refused"
    /\ err' = TRUE

NextUrl ==
    /\ pc' = "visit"
    /\ url' = url + 1

\* _submit_login and _fill_credentials returned False, with last_error.
TryNextUrl ==
    /\ NextUrl
    /\ err' = TRUE
    /\ UNCHANGED result

----------------------------------------------------------------------------
(* Is the session good?                                                     *)

\* The page that "kept" names.
KeptPage == {"kept"} \cap Faults

WaybillPages ==
    IF session THEN {"form", "other"} \cup KeptPage
    ELSE {"login"} \cup (IF "errorPage" \in Faults THEN {"other"} ELSE {})

\* What hides a session on the page that is shown.
Hiding == IF page = "kept" THEN {"kept"} ELSE {}

\* _is_logged_in: any page that does not look like a login counts, one whose form
\* is missed too; whatever the visit raises counts against it.
LooksLoggedIn ==
    \/ /\ page' \in WaybillPages \ {"login", "kept"}
       /\ hidden' = IF session THEN hidden ELSE hidden \cup {"errorPage"}
    \/ /\ "missed" \in Faults
       /\ page' \in WaybillPages \cap {"login"}
       /\ hidden' = hidden \cup {"missed"}
LooksLoggedOut ==
    \/ page' \in WaybillPages \cap {"login", "kept"} /\ hidden' = hidden \cup Hiding'
    \/ /\ \E kind \in {"net", "other"} \cap Faults :
             hidden' = IF session THEN hidden \cup {kind} ELSE hidden
       /\ UNCHANGED page

Check ==
    /\ pc = "check"
    /\ err' = FALSE
    /\ \/ LooksLoggedIn /\ pc' = "save" /\ UNCHANGED result
       \/ LooksLoggedOut /\ config.credentials /\ pc' = "visit" /\ UNCHANGED result
       \/ LooksLoggedOut /\ ~config.credentials /\ pc' = "done" /\ result' = "unconfigured"
    /\ UNCHANGED <<config, url, session, captcha, asked, clicks, astray, saved>>

----------------------------------------------------------------------------
(* login(): one URL after the other                                         *)

Visit ==
    /\ pc = "visit" /\ url <= LoginUrls
    /\ page' \in IF session THEN {"form", "other"} \cup KeptPage ELSE {"login", "other"}
    /\ \/ page' = "login" /\ pc' = "fields" /\ UNCHANGED url
       \/ (page' # "login" \/ "missed" \in Faults) /\ NextUrl
    /\ UNCHANGED <<config, session, captcha, err, history, saved, result>>

VisitFails ==
    /\ pc = "visit" /\ url <= LoginUrls
    /\ {"net", "other"} \cap Faults # {}
    /\ NextUrl
    /\ UNCHANGED <<config, page, session, captcha, err, history, saved, result>>

NoFormFound ==
    /\ pc = "visit" /\ url > LoginUrls
    /\ Refuse
    /\ UNCHANGED <<config, url, page, session, captcha, history, saved>>

\* The captcha is looked for once, without waiting for it.
FillFields ==
    /\ pc = "fields"
    /\ \/ captcha' = "none" /\ pc' = "submit" /\ UNCHANGED hidden
       \/ captcha' = "empty" /\ pc' = "captcha" /\ UNCHANGED hidden
       \/ /\ "missed" \in Faults
          /\ captcha' = "empty"
          /\ pc' = "submit"
          /\ hidden' = hidden \cup {"missed"}
    /\ UNCHANGED <<config, url, page, session, err, asked, clicks, astray, saved, result>>

FieldsFail ==
    /\ pc = "fields"
    /\ "other" \in Faults
    /\ TryNextUrl
    /\ UNCHANGED <<config, page, session, captcha, history, saved>>

----------------------------------------------------------------------------
(* _handle_captcha                                                          *)

AllowProvider == config.mode # "manual_only"
\* Mutant of AllowManual: CAPTCHA_MODE is not looked at.
AllowManualAlways == config.manual

AllowManual == config.mode # "provider_only" /\ config.manual

\* An answer is typed in; if that raises the login is over.
Answer ==
    \/ captcha' = "filled" /\ pc' = "submit" /\ UNCHANGED <<err, result>>
    \/ "other" \in Faults /\ Refuse /\ UNCHANGED captcha

\* Mutant of AskOperator: without an answer the form is submitted all the same.
SubmitUnsolved ==
    /\ UNCHANGED <<captcha, err, result>>
    /\ \/ AllowManual /\ ~config.headless /\ pc' = "manual"
            /\ asked' = asked \cup {"operator"}
       \/ ~(AllowManual /\ ~config.headless) /\ pc' = "submit" /\ UNCHANGED asked

\* What is left when there is no answer yet.
AskOperator ==
    /\ UNCHANGED captcha
    /\ \/ AllowManual /\ ~config.headless /\ pc' = "manual"
            /\ asked' = asked \cup {"operator"} /\ UNCHANGED <<err, result>>
       \/ ~(AllowManual /\ ~config.headless) /\ Refuse /\ UNCHANGED asked

HandleCaptcha ==
    /\ pc = "captcha"
    /\ \/ config.value /\ Answer /\ UNCHANGED asked
       \/ /\ ~config.value /\ AllowProvider /\ config.provider
          /\ pc' = "provider"
          /\ asked' = asked \cup {"provider"}
          /\ UNCHANGED <<captcha, err, result>>
       \/ ~config.value /\ ~(AllowProvider /\ config.provider) /\ AskOperator
    /\ UNCHANGED <<config, url, page, session, clicks, astray, hidden, saved>>

\* The provider's answer, see TwoCaptcha, or none (no image, not solved).
Provided ==
    /\ pc = "provider"
    /\ (Answer /\ UNCHANGED asked) \/ AskOperator
    /\ UNCHANGED <<config, url, page, session, clicks, astray, hidden, saved>>

OperatorAnswers ==
    /\ pc = "manual" /\ page = "login"
    /\ captcha' = "filled"
    /\ pc' = "submit"
    /\ UNCHANGED <<config, url, page, session, err, history, saved, result>>

\* The site lets the browser in.
LetsIn == session' = TRUE /\ page' \in {"form", "other", "rules"} \cup KeptPage

\* The operator also presses the button, between two polls (the field is gone, every
\* further poll raises, and the wait runs into its timeout) or after the last one.
\* The site may show him the form anew.
OperatorSubmits ==
    /\ pc \in {"manual", "submit", "again", "wait"}
    /\ "operator" \in asked \cap Faults
    /\ page = "login"
    /\ hidden' = hidden \cup {"operator"}
    /\ \/ LetsIn /\ UNCHANGED captcha
       \/ captcha' = "empty" /\ UNCHANGED <<page, session>>
    /\ UNCHANGED <<config, pc, url, err, asked, clicks, astray, saved, result>>

OperatorTimeout ==
    /\ pc = "manual"
    /\ Refuse
    /\ UNCHANGED <<config, url, page, session, captcha, history, saved>>

----------------------------------------------------------------------------
(* _submit_login                                                            *)

\* The site fails and says so on another page.
ShowsError == "errorPage" \in Faults /\ page' = "other" /\ UNCHANGED session

\* The credentials are sent: the site lets the browser in, or does not, or does either
\* later (Arrive).  On a page other than the login the selector meets another form's
\* button.
Click ==
    /\ clicks' = clicks + 1
    /\ astray' = astray \cup (IF page # "login" THEN {"page"} ELSE {})
                        \cup (IF captcha = "empty" THEN {"captcha"} ELSE {})
    /\ \/ page = "login" /\ (LetsIn \/ ShowsError) /\ UNCHANGED hidden
       \/ /\ page = "login" /\ "late" \in Faults
          /\ session' \in {session, TRUE}
          /\ hidden' = hidden \cup {"late"}
          /\ UNCHANGED page
       \/ page # "login" /\ page' \in {page, "other"} /\ UNCHANGED <<session, hidden>>
       \/ UNCHANGED <<session, page, hidden>>

Submit ==
    /\ pc = "submit"
    /\ Click
    /\ pc' \in IF page' # page THEN {"wait"} ELSE {"wait", "again"}
    /\ UNCHANGED <<config, url, captcha, err, asked, saved, result>>

SubmitFails ==
    /\ pc = "submit"
    /\ page # "login" \/ "other" \in Faults
    /\ pc' = "again"
    /\ UNCHANGED <<config, url, page, session, captcha, err, history, saved, result>>

ClickAgain ==
    /\ pc = "again"
    /\ Click
    /\ pc' = "wait"
    /\ UNCHANGED <<config, url, captcha, err, asked, saved, result>>

\* The late answer to a click, also to one the second click has followed: the page of
\* a browser that was let in, an error, or the form anew.
Arrive ==
    /\ pc \in {"again", "wait"} /\ page = "login"
    /\ "late" \in hidden
    /\ \/ session /\ LetsIn /\ UNCHANGED captcha
       \/ ~session /\ ShowsError /\ UNCHANGED captcha
       \/ ~session /\ captcha' \in {"none", "empty"} /\ UNCHANGED <<page, session>>
    /\ UNCHANGED <<config, pc, url, err, asked, clicks, astray, hidden, saved, result>>

ClickFails ==
    /\ pc = "again"
    /\ page # "login" \/ "other" \in Faults
    /\ TryNextUrl
    /\ UNCHANGED <<config, page, session, captcha, history, saved>>

\* _wait_for_login_result: an error on the page, or still a login URL after 12 s.  Only
\* a logout link makes it go on under such a URL: the rules alone (lines 201-211) do not.
Judge ==
    /\ pc = "wait"
    /\ \/ page \in {"login", "kept"} /\ TryNextUrl /\ hidden' = hidden \cup Hiding
       \/ /\ page # "login" \/ "missed" \in Faults
          /\ pc' = "post"
          /\ UNCHANGED <<url, err, result, hidden>>
    /\ UNCHANGED <<config, page, session, captcha, asked, clicks, astray, saved>>

\* _complete_post_login_steps: the rules, if they are shown, are accepted.
AcceptRules ==
    /\ pc = "post"
    /\ page' \in CASE page = "rules" -> {"form", "other"}
                  [] page = "kept" -> {"form", "other", "kept"}
                  [] OTHER -> {page}
    /\ pc' = "recheck"
    /\ UNCHANGED <<config, url, session, captcha, err, history, saved, result>>

\* Accepting them raises, or leaves the browser at the login URL for 12 s more.
RulesFail ==
    /\ pc = "post"
    /\ \/ page \in {"rules", "kept"} /\ "other" \in Faults /\ hidden' = hidden \cup {"other"}
       \/ page = "kept" /\ hidden' = hidden \cup Hiding
    /\ TryNextUrl
    /\ UNCHANGED <<config, page, session, captcha, asked, clicks, astray, saved>>

\* Mutant of Recheck: only the form itself counts as signed in.
RecheckStrict ==
    /\ pc = "recheck"
    /\ page' \in WaybillPages
    /\ hidden' = hidden \cup Hiding'
    /\ \/ page' = "form" /\ err' = FALSE /\ pc' = "save" /\ UNCHANGED <<url, result>>
       \/ page' # "form" /\ TryNextUrl
    /\ UNCHANGED <<config, session, captcha, asked, clicks, astray, saved>>

Recheck ==
    /\ pc = "recheck"
    /\ \/ LooksLoggedIn /\ err' = FALSE /\ pc' = "save" /\ UNCHANGED <<url, result>>
       \/ LooksLoggedOut /\ TryNextUrl
    /\ UNCHANGED <<config, session, captcha, asked, clicks, astray, saved>>

\* save_auth_state, whose failure is swallowed.
Save ==
    /\ pc = "save"
    /\ saved' \in {IF session THEN "signedIn" ELSE "anonymous"}
                      \cup (IF "other" \in Faults THEN {saved} ELSE {})
    /\ pc' = "done"
    /\ result' = "in"
    /\ UNCHANGED <<config, url, page, session, captcha, err, history>>

----------------------------------------------------------------------------
Next ==
    \/ Check \/ Visit \/ VisitFails \/ NoFormFound \/ FillFields \/ FieldsFail
    \/ HandleCaptcha \/ Provided \/ OperatorAnswers \/ OperatorSubmits \/ OperatorTimeout
    \/ Submit \/ SubmitFails \/ ClickAgain \/ ClickFails \/ Arrive \/ Judge
    \/ AcceptRules \/ RulesFail \/ Recheck \/ Save

Spec == Init /\ [][Next]_vars

----------------------------------------------------------------------------
(* Properties                                                               *)

\* Every variable has its type.
TypeOK ==
    /\ config \in Configs
    /\ pc \in Places
    /\ url \in 1..LoginUrls + 1
    /\ page \in {"login", "form", "rules", "other"} \cup KeptPage
    /\ session \in BOOLEAN
    /\ captcha \in {"none", "empty", "filled"}
    /\ err \in BOOLEAN
    /\ asked \subseteq {"provider", "operator"}
    /\ clicks \in Nat
    /\ astray \subseteq {"page", "captcha"}
    /\ hidden \subseteq Faults
    /\ saved \in {"none", "signedIn", "anonymous"}
    /\ result \in {"none", "in", "refused", "unconfigured"}

\* The credentials are sent with an empty captcha (auth.py:404-408) only if the code
\* missed the captcha, or the answer to a click or the operator brought the form anew;
\* the button is pressed on another page only if one of the latter brought that; and
\* however many URLs show the form, each gets the credentials twice at most.
NoBlindClick ==
    /\ "captcha" \in astray => hidden \cap {"missed", "late", "operator"} # {}
    /\ "page" \in astray => hidden \cap {"late", "operator"} # {}
    /\ clicks <= 2 * url

\* Faults that can hide a session: the others only make one seem to be there.
HidesSession == hidden \ {"errorPage", "missed"} # {}

\* A refusal tells the truth, unless a fault hid the session: the browser is
\* not signed in; and it always has a reason to show (auth.py:378-382, 411).
RefusalTruthful == result = "refused" => err /\ (session => HidesSession)

\* README.md:85-91 and FINAL_TECHNICAL_REVIEW_FA.md:39: who is asked to solve
\* the captcha is who CAPTCHA_MODE, HEADLESS and the other settings name, the
\* provider before the operator; a headless browser never waits for one.
CaptchaModeHonoured ==
    /\ asked # {} => ~config.value
    /\ "provider" \in asked => config.provider /\ config.mode # "manual_only"
    /\ "operator" \in asked =>
          /\ config.manual /\ ~config.headless
          /\ config.mode # "provider_only"
          /\ config.mode = "provider_first" /\ config.provider => "provider" \in asked

\* What holds at each place: a form is filled on a login page only, an attempt that goes
\* on to log in has no session unless a fault hides it, and every URL is worth two clicks.
InOrder ==
    /\ page = "login" /\ session => "late" \in hidden
    /\ page = "kept" => session
    /\ pc = "done" <=> result # "none"
    /\ pc \in {"fields", "captcha", "provider"} => page = "login" /\ ~session
    /\ pc = "submit" => page = "login" \/ "operator" \in hidden
    /\ pc = "again" => page = "login" \/ hidden \cap {"late", "operator"} # {}
    /\ pc \in {"submit", "again"} /\ captcha = "empty" =>
           hidden \cap {"missed", "late", "operator"} # {}
    /\ pc = "provider" => "provider" \in asked /\ ~config.value
    /\ pc \in {"visit", "manual", "submit", "again"} /\ session => HidesSession
    /\ pc \notin {"visit", "done", "save"} => url <= LoginUrls
    /\ pc \in {"check", "visit", "fields", "captcha", "provider", "manual", "submit"} =>
           clicks <= 2 * url - 2
    /\ pc = "again" => clicks <= 2 * url - 1

\* The inductive invariant.
IInv == TypeOK /\ InOrder /\ NoBlindClick /\ RefusalTruthful /\ CaptchaModeHonoured

\* FINAL_TECHNICAL_REVIEW_FA.md:37: the state is saved after a successful login,
\* and so never from a browser that is not signed in, whatever the site shows.
SavedSignedIn == saved # "anonymous"
=============================================================================
