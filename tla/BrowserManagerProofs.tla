------------------------ MODULE BrowserManagerProofs ------------------------
(***************************************************************************)
(* What TLAPS proves of BrowserManager, for any number of requests, probes *)
(* and sessions and whatever fails: that every request in flight has a     *)
(* registered context of its own, that the file of the login state is torn *)
(* by nothing but its writer, what can never be repaired, and, at the end, *)
(* that every call only goes on and no lock is kept by one that waits.     *)
(***************************************************************************)
EXTENDS BrowserManager, TLAPS

\* A step of one coroutine.
TaskStep(t) == Initialize(t) \/ SaveAuthState(t) \/ Proceed(t)

----------------------------------------------------------------------------
(* Types                                                                    *)

\* A coroutine goes on elsewhere.
LEMMA GotoStep ==
    ASSUME TypeOK, NEW t \in Tasks, NEW place \in Places, Goto(t, place)
    PROVE  /\ pc' \in [Tasks -> Places]
           /\ pc'[t] = place
           /\ \A u \in Tasks \ {t} : pc'[u] = pc[u]
<1>1. pc \in [Tasks -> Places] /\ pc' = [pc EXCEPT ![t] = place]
  BY DEF TypeOK, Goto
<1> QED BY <1>1

\* What initialize() leads its caller to, if self.browser is b.
LEMMA InitializedStep ==
    ASSUME TypeOK, NEW t \in Tasks, NEW b \in Browsers, Initialized(t, b)
    PROVE  /\ pc' \in [Tasks -> Places]
           /\ owner' \in [Tasks -> Browsers \cup {None}]
           /\ \A u \in Tasks \ {t} : pc'[u] = pc[u] /\ owner'[u] = owner[u]
           /\ \/ t \in Probes /\ pc'[t] = "ready" /\ owner'[t] = owner[t]
              \/ t \in Requests /\ pc'[t] \in {"opening", "reading"} /\ owner'[t] = b
           /\ authFile = "torn" => pc'[t] # "opening"
<1>1. {"ready", "opening", "reading"} \subseteq Places
  BY DEF Places
<1>2. owner \in [Tasks -> Browsers \cup {None}]
  BY DEF TypeOK
<1> QED BY <1>1, <1>2, GotoStep DEF Initialized

\* The same of its second test.
LEMMA EnsureBrowserStep ==
    ASSUME TypeOK, NEW t \in Tasks, EnsureBrowser(t)
    PROVE  /\ pc' \in [Tasks -> Places]
           /\ owner' \in [Tasks -> Browsers \cup {None}]
           /\ \A u \in Tasks \ {t} : pc'[u] = pc[u] /\ owner'[u] = owner[u]
           /\ \/ browser = None /\ pc'[t] = "launching" /\ owner'[t] = owner[t]
              \/ t \in Probes /\ pc'[t] = "ready" /\ owner'[t] = owner[t]
              \/ /\ t \in Requests /\ pc'[t] \in {"opening", "reading"}
                 /\ browser # None /\ owner'[t] = browser
           /\ authFile = "torn" => pc'[t] # "opening"
<1>1. CASE browser = None /\ Goto(t, "launching") /\ UNCHANGED owner
  <2>1. "launching" \in Places
    BY DEF Places
  <2> QED BY <1>1, <2>1, GotoStep DEF TypeOK
<1>2. CASE browser # None /\ Initialized(t, browser)
  <2>1. browser \in Browsers
    BY <1>2 DEF TypeOK
  <2> QED BY <1>2, <2>1, InitializedStep
<1> QED BY <1>1, <1>2 DEF EnsureBrowser, HasBrowser

\* The handlers that end the process, and those that start it.
LEMMA ProcessType ==
    ASSUME TypeOK, Startup \/ Shutdown \/ Kill \/ BrowserCrash
    PROVE  TypeOK'
<1>1. 1 \in Browsers /\ 1 \in 0..MaxBrowsers /\ 0 \in 0..MaxBrowsers /\ "idle" \in Places
  BY BrowserAssumption DEF Browsers, Places
<1>2. CASE Startup
  <2>1. UNCHANGED <<setting, pc, contexts, session, owner, authFile, saver>> /\ up' = TRUE
    BY <1>2 DEF Startup, reqVars
  <2>2. CASE setting.lifespan
    BY <1>1, <1>2, <2>1, <2>2 DEF Startup, TypeOK
  <2>3. CASE ~setting.lifespan
    BY <1>2, <2>1, <2>3 DEF Startup, TypeOK, handles
  <2> QED BY <2>2, <2>3
<1>3. CASE Shutdown
  BY <1>1, <1>3 DEF Shutdown, Stopped, TypeOK
<1>4. CASE Kill
  BY <1>1, <1>4 DEF Kill, Stopped, NoProcess, TypeOK
<1>5. CASE BrowserCrash
  BY <1>5 DEF BrowserCrash, TypeOK, reqVars
<1> QED BY <1>2, <1>3, <1>4, <1>5

\* Every step of a coroutine keeps the types and leaves the other coroutines alone.
LEMMA TaskType ==
    ASSUME TypeOK, SessionsHeld, NEW t \in Tasks, TaskStep(t)
    PROVE  /\ TypeOK'
           /\ setting' = setting /\ up' = up
           /\ \A u \in Tasks \ {t} : UNCHANGED <<pc[u], session[u], owner[u]>>
<1>0. Places = {"idle", "starting", "launching", "ready", "reading", "opening", "open",
                "saveWait", "fetching", "writing", "saved", "closing", "initFail",
                "tornFail", "deadFail"}
  BY DEF Places
<1>1. CASE Initialize(t)
  <2>1. /\ pc' \in [Tasks -> Places]
        /\ owner' \in [Tasks -> Browsers \cup {None}]
        /\ \A u \in Tasks \ {t} : pc'[u] = pc[u] /\ owner'[u] = owner[u]
    BY <1>0, <1>1, GotoStep, EnsureBrowserStep DEF Initialize, TypeOK
  <2> QED BY <1>1, <2>1 DEF Initialize, TypeOK, handles
<1>2. CASE PlaywrightStarted(t)
  BY <1>2, EnsureBrowserStep DEF PlaywrightStarted, TypeOK
<1>3. CASE BrowserLaunched(t)
  <2>1. launched + 1 \in Browsers /\ launched + 1 \in 0..MaxBrowsers
    BY <1>3, BrowserAssumption DEF BrowserLaunched, TypeOK, Browsers
  <2> QED BY <1>3, <2>1, InitializedStep DEF BrowserLaunched, TypeOK
<1>4. CASE \/ InitializeFails(t) \/ ReadState(t) \/ ContextRefused(t) \/ CloseContext(t)
           \/ SaveAuthState(t) \/ LockAcquired(t)
  BY <1>0, <1>4, GotoStep
  DEF InitializeFails, ReadState, ContextRefused, CloseContext, SaveAuthState, LockAcquired,
      Lock, TypeOK, handles, reqVars
<1>5. CASE TruncateFile(t) \/ FileWritten(t) \/ SaveFails(t)
  BY <1>0, <1>5, GotoStep
  DEF TruncateFile, FileWritten, SaveFails, Unlock, TypeOK, handles, reqVars
<1>6. CASE ContextOpened(t)
  <2>1. PICK s \in Sessions \ contexts : contexts' = contexts \cup {s} /\ session' = [session EXCEPT ![t] = s]
    BY <1>6 DEF ContextOpened, Register
  <2>2. /\ session' \in [Tasks -> Sessions \cup {None}]
        /\ \A u \in Tasks \ {t} : session'[u] = session[u]
    BY <2>1 DEF TypeOK
  <2> QED BY <1>0, <1>6, <2>1, <2>2, GotoStep DEF ContextOpened, TypeOK, handles
<1>7. CASE ContextClosed(t) \/ CloseFails(t)
  <2>1. Forget(t) /\ contexts' \subseteq contexts
    BY <1>7 DEF ContextClosed, CloseFails
  <2>2. /\ session' \in [Tasks -> Sessions \cup {None}]
        /\ owner' \in [Tasks -> Browsers \cup {None}]
        /\ \A u \in Tasks \ {t} : session'[u] = session[u] /\ owner'[u] = owner[u]
    BY <2>1 DEF TypeOK, Forget
  <2>3. pc' \in [Tasks -> Places] /\ \A u \in Tasks \ {t} : pc'[u] = pc[u]
    BY <1>0, <2>1, GotoStep DEF Forget
  <2> QED BY <1>7, <2>1, <2>2, <2>3 DEF ContextClosed, CloseFails, TypeOK, handles
<1>8. CASE Answer(t)
  <2>1. /\ owner' \in [Tasks -> Browsers \cup {None}]
        /\ \A u \in Tasks \ {t} : owner'[u] = owner[u]
    BY <1>8 DEF TypeOK, Answer
  <2> QED BY <1>0, <1>8, <2>1, GotoStep DEF Answer, TypeOK, handles
<1> QED BY <1>1, <1>2, <1>3, <1>4, <1>5, <1>6, <1>7, <1>8 DEF TaskStep, Proceed

\* Where a step may lead a coroutine that has no context yet.
LEMMA OpeningMoves ==
    ASSUME TypeOK, HandlesKnown, NEW t \in Tasks,
           \/ Initialize(t) \/ PlaywrightStarted(t) \/ BrowserLaunched(t)
           \/ InitializeFails(t) \/ ReadState(t) \/ ContextRefused(t) \/ Answer(t)
    PROVE  /\ UNCHANGED <<session, contexts, authFile, saver>>
           /\ pc[t] \notin WithContext /\ pc'[t] \notin WithContext
           /\ \/ /\ pc[t] \in {"idle", "starting", "launching"}
                 /\ \/ /\ pc'[t] \in {"starting", "launching", "initFail"}
                       /\ owner'[t] = owner[t]
                    \/ /\ t \in Probes /\ pc'[t] = "ready" /\ owner'[t] = owner[t]
                    \/ /\ t \in Requests /\ pc'[t] \in {"opening", "reading"}
                       /\ authFile = "torn" => pc'[t] = "reading"
                       /\ owner'[t] \in 1..launched'
              \/ pc[t] = "reading" /\ pc'[t] = "opening" /\ Parses /\ owner'[t] = owner[t]
              \/ pc[t] = "reading" /\ pc'[t] = "tornFail" /\ owner'[t] = owner[t]
              \/ pc[t] = "opening" /\ pc'[t] = "deadFail" /\ owner'[t] = owner[t]
              \/ /\ pc[t] \in {"ready", "initFail", "tornFail", "deadFail"}
                 /\ pc'[t] = "idle" /\ owner'[t] = None
<1>0. Places = {"idle", "starting", "launching", "ready", "reading", "opening", "open",
                "saveWait", "fetching", "writing", "saved", "closing", "initFail",
                "tornFail", "deadFail"}
  BY DEF Places
<1>1. CASE Initialize(t)
  BY <1>0, <1>1, GotoStep, EnsureBrowserStep
  DEF Initialize, HandlesKnown, WithContext, handles
<1>2. CASE PlaywrightStarted(t)
  BY <1>2, EnsureBrowserStep DEF PlaywrightStarted, HandlesKnown, WithContext
<1>3. CASE BrowserLaunched(t)
  <2>1. launched + 1 \in Browsers /\ launched + 1 \in 1..launched'
    BY <1>3, BrowserAssumption DEF BrowserLaunched, TypeOK, Browsers
  <2> QED BY <1>3, <2>1, InitializedStep DEF BrowserLaunched, WithContext
<1>4. CASE InitializeFails(t) \/ ReadState(t) \/ ContextRefused(t)
  BY <1>0, <1>4, GotoStep DEF InitializeFails, ReadState, ContextRefused, WithContext, reqVars
<1>5. CASE Answer(t)
  BY <1>0, <1>5, GotoStep DEF Answer, WithContext, TypeOK
<1> QED BY <1>1, <1>2, <1>3, <1>4, <1>5

\* A coroutine that saves the login state keeps its context and its browser.
LEMMA SavingMoves ==
    ASSUME TypeOK, NEW t \in Tasks,
           \/ SaveAuthState(t) \/ LockAcquired(t) \/ TruncateFile(t) \/ FileWritten(t)
           \/ SaveFails(t) \/ CloseContext(t)
    PROVE  /\ UNCHANGED <<session, owner, contexts, playwright, drivers, browser, live, launched>>
           /\ pc[t] \in WithContext /\ pc'[t] \in WithContext
           /\ \/ /\ pc[t] \in {"open", "saveWait"} /\ pc'[t] = "fetching"
                 /\ saver = None /\ saver' = t /\ authFile' = authFile
              \/ /\ pc[t] = "open" /\ pc'[t] = "saveWait"
                 /\ UNCHANGED <<saver, authFile>>
              \/ /\ pc[t] = "fetching" /\ pc'[t] = "writing"
                 /\ saver' = saver /\ authFile' = "torn"
              \/ /\ pc[t] = "writing" /\ pc'[t] = "saved"
                 /\ saver' = None /\ authFile' = "valid"
              \/ /\ pc[t] = "writing" /\ pc'[t] = "saved" /\ "write" \in setting.faults
                 /\ saver' = None /\ authFile' = authFile
              \/ /\ pc[t] = "fetching" /\ pc'[t] = "saved"
                 /\ saver' = None /\ authFile' = authFile
              \/ /\ pc[t] \in {"open", "saved"} /\ pc'[t] = "closing"
                 /\ UNCHANGED <<saver, authFile>>
<1>0. Places = {"idle", "starting", "launching", "ready", "reading", "opening", "open",
                "saveWait", "fetching", "writing", "saved", "closing", "initFail",
                "tornFail", "deadFail"}
  BY DEF Places
<1>1. CASE SaveAuthState(t) \/ LockAcquired(t)
  BY <1>0, <1>1, GotoStep
  DEF SaveAuthState, LockAcquired, Lock, LockFree, WithContext, handles, reqVars
<1>2. CASE TruncateFile(t) \/ CloseContext(t)
  BY <1>0, <1>2, GotoStep DEF TruncateFile, CloseContext, WithContext, handles, reqVars
<1>3. CASE FileWritten(t) \/ SaveFails(t)
  BY <1>0, <1>3, GotoStep DEF FileWritten, SaveFails, Unlock, WithContext, handles, reqVars
<1> QED BY <1>1, <1>2, <1>3

\* A request gets its context, with a session that nobody uses, and gives it up.
LEMMA ContextMoves ==
    ASSUME TypeOK, NEW t \in Tasks, ContextOpened(t) \/ ContextClosed(t) \/ CloseFails(t)
    PROVE  /\ UNCHANGED <<playwright, drivers, browser, live, launched, authFile, saver>>
           /\ \/ /\ pc[t] = "opening" /\ pc'[t] = "open" /\ owner'[t] = owner[t]
                 /\ owner[t] \in live
                 /\ session'[t] \in Sessions \ contexts
                 /\ contexts' = contexts \cup {session'[t]}
              \/ /\ pc[t] = "closing" /\ pc'[t] = "idle"
                 /\ session'[t] = None /\ owner'[t] = None
                 /\ \/ contexts' = contexts \ {session[t]}
                    \/ contexts' = contexts /\ "close" \in setting.faults
<1>0. "open" \in Places /\ "idle" \in Places
  BY DEF Places
<1>1. CASE ContextOpened(t)
  <2>1. PICK s \in Sessions \ contexts : contexts' = contexts \cup {s} /\ session' = [session EXCEPT ![t] = s]
    BY <1>1 DEF ContextOpened, Register
  <2>2. session'[t] = s
    BY <2>1 DEF TypeOK
  <2> QED BY <1>0, <1>1, <2>1, <2>2, GotoStep DEF ContextOpened, Answers, handles
<1>2. CASE ContextClosed(t) \/ CloseFails(t)
  <2>1. session'[t] = None /\ owner'[t] = None
    BY <1>2 DEF ContextClosed, CloseFails, Forget, TypeOK
  <2>2. pc'[t] = "idle"
    BY <1>0, <1>2, GotoStep DEF ContextClosed, CloseFails, Forget
  <2> QED BY <1>2, <2>1, <2>2 DEF ContextClosed, CloseFails, handles
<1> QED BY <1>1, <1>2

----------------------------------------------------------------------------
(* The invariant                                                            *)

\* The holder of the lock, and nobody else, is between taking it and giving it back.
LEMMA NextLockHeld ==
    ASSUME TypeOK, HandlesKnown, SessionsHeld, LockHeld, [Next]_vars
    PROVE  LockHeld'
<1>1. ASSUME NEW t \in Tasks, TaskStep(t) PROVE LockHeld'
  <2>0. \A u \in Tasks \ {t} : pc'[u] = pc[u]
    BY <1>1, TaskType
  <2>1. CASE \/ Initialize(t) \/ PlaywrightStarted(t) \/ BrowserLaunched(t)
             \/ InitializeFails(t) \/ ReadState(t) \/ ContextRefused(t) \/ Answer(t)
    BY <2>0, <2>1, OpeningMoves DEF LockHeld, WithContext
  <2>2. CASE \/ SaveAuthState(t) \/ LockAcquired(t) \/ TruncateFile(t) \/ FileWritten(t)
             \/ SaveFails(t) \/ CloseContext(t)
    <3>1. None \notin Tasks
      BY BrowserAssumption DEF Tasks
    <3> QED BY <2>0, <2>2, <3>1, SavingMoves DEF LockHeld
  <2>3. CASE ContextOpened(t) \/ ContextClosed(t) \/ CloseFails(t)
    BY <2>0, <2>3, ContextMoves DEF LockHeld
  <2> QED BY <1>1, <2>1, <2>2, <2>3 DEF TaskStep, Proceed
<1>2. CASE Startup \/ Shutdown \/ BrowserCrash \/ UNCHANGED vars
  BY <1>2 DEF Startup, Shutdown, BrowserCrash, vars, LockHeld
<1>3. CASE Kill
  <2>1. None \notin Tasks
    BY BrowserAssumption DEF Tasks
  <2> QED BY <1>3, <2>1 DEF Kill, NoProcess, LockHeld
<1> QED BY <1>1, <1>2, <1>3 DEF Next, TaskStep

\* The handles name things of this process.
LEMMA NextHandlesKnown ==
    ASSUME TypeOK, HandlesKnown, SessionsHeld, [Next]_vars
    PROVE  HandlesKnown'
<1>1. ASSUME NEW t \in Tasks, TaskStep(t) PROVE HandlesKnown'
  <2>0. up' = up /\ \A u \in Tasks \ {t} : pc'[u] = pc[u]
    BY <1>1, TaskType
  <2>1. CASE Initialize(t)
    <3>1. up /\ UNCHANGED <<playwright, drivers, browser, live, launched>>
      BY <2>1 DEF Initialize, handles
    <3>2. pc'[t] = "launching" => playwright
      BY <2>1, GotoStep DEF Initialize, Places
    <3> QED BY <2>0, <3>1, <3>2 DEF HandlesKnown
  <2>2. CASE PlaywrightStarted(t)
    BY <2>0, <2>2 DEF PlaywrightStarted, HandlesKnown, TypeOK
  <2>3. CASE BrowserLaunched(t)
    <3>1. playwright /\ UNCHANGED <<playwright, drivers>>
      BY <2>3 DEF BrowserLaunched, HandlesKnown
    <3>2. /\ live' \subseteq 1..launched' /\ browser' \in 1..launched'
      BY <2>3 DEF BrowserLaunched, HandlesKnown, TypeOK
    <3> QED BY <2>0, <3>1, <3>2 DEF HandlesKnown
  <2>4. CASE InitializeFails(t) \/ ReadState(t) \/ ContextRefused(t) \/ Answer(t)
    <3>1. UNCHANGED <<playwright, drivers, browser, live, launched>>
      BY <2>4 DEF InitializeFails, ReadState, ContextRefused, Answer, handles
    <3>2. pc[t] # "idle" /\ pc'[t] # "launching"
      BY <2>4, GotoStep DEF InitializeFails, ReadState, ContextRefused, Answer, Places
    <3> QED BY <2>0, <3>1, <3>2 DEF HandlesKnown
  <2>5. CASE \/ SaveAuthState(t) \/ LockAcquired(t) \/ TruncateFile(t) \/ FileWritten(t)
             \/ SaveFails(t) \/ CloseContext(t)
    BY <2>0, <2>5, SavingMoves DEF HandlesKnown, WithContext
  <2>6. CASE ContextOpened(t) \/ ContextClosed(t) \/ CloseFails(t)
    BY <2>0, <2>6, ContextMoves DEF HandlesKnown
  <2> QED BY <1>1, <2>1, <2>2, <2>3, <2>4, <2>5, <2>6 DEF TaskStep, Proceed
<1>2. CASE Startup
  <2>1. CASE setting.lifespan
    BY <1>2, <2>1 DEF Startup, HandlesKnown
  <2>2. CASE ~setting.lifespan
    BY <1>2, <2>2 DEF Startup, HandlesKnown, handles
  <2> QED BY <2>1, <2>2
<1>3. CASE Shutdown \/ Kill
  <2>1. Stopped /\ \A t \in Tasks : pc'[t] = "idle"
    BY <1>3 DEF Shutdown, Kill, NoProcess
  <2> QED BY <2>1 DEF Stopped, HandlesKnown
<1>4. CASE BrowserCrash \/ UNCHANGED vars
  <2>1. live' \subseteq live /\ UNCHANGED <<up, pc, playwright, drivers, browser, launched>>
    BY <1>4 DEF BrowserCrash, vars, handles
  <2> QED BY <2>1 DEF HandlesKnown
<1> QED BY <1>1, <1>2, <1>3, <1>4 DEF Next, TaskStep

\* The browser of the lifespan handler is the only one.
LEMMA NextBrowserOfStartup ==
    ASSUME TypeOK, HandlesKnown, SessionsHeld, BrowserOfStartup, [Next]_vars
    PROVE  BrowserOfStartup'
<1>1. ASSUME NEW t \in Tasks, TaskStep(t), setting.lifespan, up PROVE BrowserOfStartup'
  <2>0. /\ up' = up /\ setting' = setting
        /\ \A u \in Tasks \ {t} : pc'[u] = pc[u]
    BY <1>1, TaskType
  <2>1. CASE Initialize(t)
    <3>1. UNCHANGED <<playwright, browser, launched>>
      BY <2>1 DEF Initialize, handles
    <3>2. playwright /\ browser # None
      BY <1>1, BrowserAssumption DEF BrowserOfStartup, Browsers
    <3>3. pc'[t] \notin {"starting", "launching"}
      BY <2>1, <3>2, EnsureBrowserStep DEF Initialize
    <3> QED BY <1>1, <2>0, <3>1, <3>3 DEF BrowserOfStartup
  <2>2. CASE PlaywrightStarted(t) \/ BrowserLaunched(t) \/ InitializeFails(t)
    BY <1>1, <2>2 DEF PlaywrightStarted, BrowserLaunched, InitializeFails, BrowserOfStartup
  <2>3. CASE ReadState(t) \/ ContextRefused(t) \/ Answer(t)
    <3>1. UNCHANGED <<playwright, browser, launched>>
      BY <2>3 DEF ReadState, ContextRefused, Answer, handles
    <3>2. pc'[t] \in {"tornFail", "opening", "deadFail", "idle"}
      BY <2>3, GotoStep DEF ReadState, ContextRefused, Answer, Places
    <3> QED BY <1>1, <2>0, <3>1, <3>2 DEF BrowserOfStartup
  <2>4. CASE \/ SaveAuthState(t) \/ LockAcquired(t) \/ TruncateFile(t) \/ FileWritten(t)
             \/ SaveFails(t) \/ CloseContext(t)
    BY <1>1, <2>0, <2>4, SavingMoves DEF BrowserOfStartup, WithContext
  <2>5. CASE ContextOpened(t) \/ ContextClosed(t) \/ CloseFails(t)
    BY <1>1, <2>0, <2>5, ContextMoves DEF BrowserOfStartup
  <2> QED BY <1>1, <2>1, <2>2, <2>3, <2>4, <2>5 DEF TaskStep, Proceed
<1>2. ASSUME NEW t \in Tasks, TaskStep(t), ~(setting.lifespan /\ up) PROVE BrowserOfStartup'
  BY <1>2, TaskType DEF BrowserOfStartup
<1>3. CASE Startup
  BY <1>3 DEF Startup, HandlesKnown, BrowserOfStartup
<1>4. CASE Shutdown \/ Kill
  BY <1>4 DEF Shutdown, Kill, Stopped, BrowserOfStartup
<1>5. CASE BrowserCrash \/ UNCHANGED vars
  BY <1>5 DEF BrowserCrash, vars, handles, BrowserOfStartup
<1> QED BY <1>1, <1>2, <1>3, <1>4, <1>5 DEF Next, TaskStep

\* A coroutine has a session while it has a context, and a browser a step longer.
LEMMA NextSessionsHeld ==
    ASSUME TypeOK, HandlesKnown, SessionsHeld, [Next]_vars
    PROVE  SessionsHeld'
<1>0. None \notin Sessions /\ None \notin Browsers
  BY BrowserAssumption DEF Browsers
<1>1. ASSUME NEW t \in Tasks, TaskStep(t) PROVE SessionsHeld'
  <2>1. \A u \in Tasks \ {t} : UNCHANGED <<pc[u], session[u], owner[u]>>
    BY <1>1, TaskType
  <2>2. /\ launched \in Nat /\ launched' \in Nat /\ launched <= launched'
        /\ \A u \in Tasks : owner[u] # None => owner[u] \in Nat
    BY <1>1
    DEF TaskStep, Proceed, Initialize, PlaywrightStarted, BrowserLaunched, InitializeFails,
        ReadState, ContextOpened, ContextRefused, SaveAuthState, LockAcquired, TruncateFile,
        FileWritten, SaveFails, CloseContext, ContextClosed, CloseFails, Answer, handles,
        TypeOK, Browsers
  <2>3. CASE \/ Initialize(t) \/ PlaywrightStarted(t) \/ BrowserLaunched(t)
             \/ InitializeFails(t) \/ ReadState(t) \/ ContextRefused(t) \/ Answer(t)
    <3>1. owner'[t] \in 1..launched' => owner'[t] # None
      <4>1. 1..launched' \subseteq Browsers
        BY <1>1, TaskType, BrowserAssumption DEF TypeOK, Browsers
      <4> QED BY <1>0, <4>1
    <3>2. session'[t] = None
      BY <2>3, OpeningMoves DEF SessionsHeld
    <3>3. pc'[t] \notin WithContext
      BY <2>3, OpeningMoves
    <3>4. owner'[t] # None <=> pc'[t] \in {"reading", "opening", "tornFail", "deadFail"}
      BY <2>3, <3>1, OpeningMoves DEF SessionsHeld, WithContext
    <3>5. owner'[t] # None => owner'[t] <= launched'
      BY <2>2, <2>3, <3>1, OpeningMoves DEF SessionsHeld
    <3>6. t \in Probes => pc'[t] \in {"idle", "starting", "launching", "ready", "initFail"}
      BY <2>3, OpeningMoves, BrowserAssumption DEF SessionsHeld
    <3> QED BY <2>1, <2>2, <3>2, <3>3, <3>4, <3>5, <3>6 DEF SessionsHeld
  <2>4. CASE \/ SaveAuthState(t) \/ LockAcquired(t) \/ TruncateFile(t) \/ FileWritten(t)
             \/ SaveFails(t) \/ CloseContext(t)
    BY <2>1, <2>4, SavingMoves DEF SessionsHeld, WithContext
  <2>5. CASE ContextOpened(t) \/ ContextClosed(t) \/ CloseFails(t)
    BY <1>0, <2>1, <2>5, ContextMoves DEF SessionsHeld, WithContext
  <2> QED BY <1>1, <2>3, <2>4, <2>5 DEF TaskStep, Proceed
<1>2. CASE Startup \/ Shutdown
  <2>1. UNCHANGED <<pc, session, owner>> /\ \A t \in Tasks : pc[t] = "idle"
    BY <1>2 DEF Startup, Shutdown, HandlesKnown, reqVars
  <2> QED BY <2>1 DEF SessionsHeld, WithContext
<1>3. CASE Kill
  BY <1>3 DEF Kill, NoProcess, SessionsHeld, WithContext
<1>4. CASE BrowserCrash \/ UNCHANGED vars
  BY <1>4 DEF BrowserCrash, vars, handles, reqVars, SessionsHeld
<1> QED BY <1>1, <1>2, <1>3, <1>4 DEF Next, TaskStep

\* Each request in flight has a registered context of its own, and unless close()
\* raised no other is registered.
LEMMA NextContextPerRequest ==
    ASSUME TypeOK, HandlesKnown, SessionsHeld, ContextPerRequest, [Next]_vars
    PROVE  ContextPerRequest'
<1>0. /\ \A t \in Tasks : pc[t] \in WithContext => session[t] \in contexts
      /\ \A t, u \in Tasks :
            pc[t] \in WithContext /\ pc[u] \in WithContext /\ session[t] = session[u] => t = u
      /\ "close" \notin setting.faults => contexts = InFlight
  BY DEF ContextPerRequest
<1>1. ASSUME NEW t \in Tasks, TaskStep(t) PROVE ContextPerRequest'
  <2>1. /\ \A u \in Tasks \ {t} : UNCHANGED <<pc[u], session[u]>>
        /\ setting' = setting
    BY <1>1, TaskType
  <2>2. ASSUME contexts' = contexts, session' = session,
               pc[t] \in WithContext <=> pc'[t] \in WithContext
        PROVE  ContextPerRequest'
    <3>1. \A u \in Tasks : pc[u] \in WithContext <=> pc'[u] \in WithContext
      BY <2>1, <2>2
    <3>2. InFlight' = InFlight
      BY <2>2, <3>1 DEF InFlight
    <3> QED BY <1>0, <2>1, <2>2, <3>1, <3>2 DEF ContextPerRequest
  <2>3. CASE \/ Initialize(t) \/ PlaywrightStarted(t) \/ BrowserLaunched(t)
             \/ InitializeFails(t) \/ ReadState(t) \/ ContextRefused(t) \/ Answer(t)
    BY <2>2, <2>3, OpeningMoves
  <2>4. CASE \/ SaveAuthState(t) \/ LockAcquired(t) \/ TruncateFile(t) \/ FileWritten(t)
             \/ SaveFails(t) \/ CloseContext(t)
    BY <2>2, <2>4, SavingMoves
  <2>5. CASE ContextOpened(t) \/ ContextClosed(t) \/ CloseFails(t)
    <3>1. CASE /\ pc[t] = "opening" /\ pc'[t] = "open"
               /\ session'[t] \in Sessions \ contexts
               /\ contexts' = contexts \cup {session'[t]}
      <4>1. \A u \in Tasks : pc'[u] \in WithContext <=> u = t \/ pc[u] \in WithContext
        BY <2>1, <3>1 DEF WithContext
      <4>2. InFlight' = InFlight \cup {session'[t]}
        BY <2>1, <3>1, <4>1 DEF InFlight, WithContext
      <4> QED BY <1>0, <2>1, <3>1, <4>1, <4>2 DEF ContextPerRequest
    <3>2. CASE /\ pc[t] = "closing" /\ pc'[t] = "idle"
               /\ \/ contexts' = contexts \ {session[t]}
                  \/ contexts' = contexts /\ "close" \in setting.faults
      <4>1. \A u \in Tasks : pc'[u] \in WithContext <=> u # t /\ pc[u] \in WithContext
        BY <2>1, <3>2 DEF WithContext
      <4>2. pc[t] \in WithContext
        BY <3>2 DEF WithContext
      <4>3. InFlight' = InFlight \ {session[t]}
        BY <1>0, <2>1, <4>1, <4>2 DEF InFlight
      <4>4. \A u \in Tasks : u # t /\ pc[u] \in WithContext => session[u] # session[t]
        BY <1>0, <4>2
      <4> QED BY <1>0, <2>1, <3>2, <4>1, <4>3, <4>4 DEF ContextPerRequest
    <3> QED BY <2>5, <3>1, <3>2, ContextMoves
  <2> QED BY <1>1, <2>3, <2>4, <2>5 DEF TaskStep, Proceed
<1>2. CASE Startup \/ BrowserCrash \/ UNCHANGED vars
  <2>1. UNCHANGED <<setting, pc, contexts, session>>
    BY <1>2 DEF Startup, BrowserCrash, vars, reqVars
  <2>2. InFlight' = InFlight
    BY <2>1 DEF InFlight
  <2> QED BY <1>0, <2>1, <2>2 DEF ContextPerRequest
<1>3. CASE Shutdown \/ Kill
  <2>1. contexts' = {} /\ \A t \in Tasks : pc'[t] = "idle"
    BY <1>3 DEF Shutdown, Kill, NoProcess
  <2>2. InFlight' = {} /\ \A t \in Tasks : pc'[t] \notin WithContext
    BY <2>1 DEF InFlight, WithContext
  <2> QED BY <2>1, <2>2 DEF ContextPerRequest
<1> QED BY <1>1, <1>2, <1>3 DEF Next, TaskStep

\* Where no process is killed and no write fails, only its writer tears the file.
LEMMA NextTorn ==
    ASSUME TypeOK, HandlesKnown, SessionsHeld, LockHeld, TornOnlyWhileWriting, [Next]_vars
    PROVE  TornOnlyWhileWriting'
<1> SUFFICES ASSUME "kill" \notin setting.faults, "write" \notin setting.faults,
                    setting' = setting, authFile' = "torn"
             PROVE  \E u \in Tasks : saver' = u /\ pc'[u] = "writing"
  <2>1. setting' = setting
    BY TaskType
    DEF Next, TaskStep, Startup, Shutdown, Kill, BrowserCrash, vars
  <2> QED BY <2>1 DEF TornOnlyWhileWriting
<1>0. authFile = "torn" => \E u \in Tasks : saver = u /\ pc[u] = "writing"
  BY DEF TornOnlyWhileWriting
<1>1. ASSUME NEW t \in Tasks, TaskStep(t)
      PROVE  \E u \in Tasks : saver' = u /\ pc'[u] = "writing"
  <2>1. \A u \in Tasks \ {t} : pc'[u] = pc[u]
    BY <1>1, TaskType
  <2>2. CASE \/ Initialize(t) \/ PlaywrightStarted(t) \/ BrowserLaunched(t)
             \/ InitializeFails(t) \/ ReadState(t) \/ ContextRefused(t) \/ Answer(t)
    BY <1>0, <2>1, <2>2, OpeningMoves DEF WithContext
  <2>3. CASE \/ SaveAuthState(t) \/ LockAcquired(t) \/ TruncateFile(t) \/ FileWritten(t)
             \/ SaveFails(t) \/ CloseContext(t)
    <3>1. CASE pc[t] = "fetching"
      BY <1>0, <2>3, <3>1, SavingMoves DEF LockHeld
    <3>2. CASE pc[t] # "fetching"
      <4>1. authFile = "torn" /\ pc[t] # "writing" /\ saver # None
        BY <1>0, <2>3, <3>2, SavingMoves, BrowserAssumption DEF Tasks
      <4> QED BY <1>0, <2>1, <2>3, <3>2, <4>1, SavingMoves
    <3> QED BY <3>1, <3>2
  <2>4. CASE ContextOpened(t) \/ ContextClosed(t) \/ CloseFails(t)
    BY <1>0, <2>1, <2>4, ContextMoves
  <2> QED BY <1>1, <2>2, <2>3, <2>4 DEF TaskStep, Proceed
<1>2. CASE Startup \/ Shutdown \/ BrowserCrash \/ UNCHANGED vars
  BY <1>0, <1>2 DEF Startup, Shutdown, BrowserCrash, vars
<1>3. ~Kill
  BY DEF Kill
<1> QED BY <1>1, <1>2, <1>3 DEF Next, TaskStep

\* The initial state satisfies the invariant.
LEMMA InitInv == Init => IInv
<1> SUFFICES ASSUME Init PROVE IInv
  OBVIOUS
<1>1. TypeOK
  <2>1. 0 \in 0..MaxBrowsers /\ "idle" \in Places
    BY BrowserAssumption DEF Places
  <2> QED BY <2>1 DEF Init, TypeOK
<1>2. LockHeld /\ HandlesKnown /\ BrowserOfStartup /\ SessionsHeld /\ TornOnlyWhileWriting
  BY BrowserAssumption
  DEF Init, LockHeld, HandlesKnown, BrowserOfStartup, SessionsHeld, TornOnlyWhileWriting,
      WithContext, Tasks
<1>3. ContextPerRequest
  BY DEF Init, ContextPerRequest, InFlight, WithContext
<1> QED BY <1>1, <1>2, <1>3 DEF IInv

\* Every step keeps it.
LEMMA NextInv == IInv /\ [Next]_vars => IInv'
<1> SUFFICES ASSUME IInv, [Next]_vars PROVE IInv'
  OBVIOUS
<1>1. TypeOK'
  <2>1. CASE UNCHANGED vars
    BY <2>1 DEF IInv, TypeOK, vars, handles, reqVars
  <2>2. CASE Next
    BY <2>2, ProcessType, TaskType DEF IInv, Next, TaskStep
  <2> QED BY <2>1, <2>2
<1> QED
  BY <1>1, NextLockHeld, NextHandlesKnown, NextBrowserOfStartup, NextSessionsHeld,
     NextContextPerRequest, NextTorn
  DEF IInv

\* Every request in flight has a registered context of its own, no context is left
\* registered unless close() raised, and only the holder of the lock tears the file
\* unless it is killed or its write fails.
THEOREM Invariance == Spec => []IInv
<1>1. Init => IInv
  BY InitInv
<1>2. IInv /\ [Next]_vars => IInv'
  BY NextInv
<1> QED BY <1>1, <1>2, PTL DEF Spec

\* No request loses its context to another one, and none leaks.
THEOREM ContextsKept == Spec => []ContextPerRequest
<1>1. IInv => ContextPerRequest
  BY DEF IInv
<1> QED BY <1>1, Invariance, PTL

\* The savers of the login state exclude each other.
THEOREM SaversExclude == Spec => []TornOnlyWhileWriting
<1>1. IInv => TornOnlyWhileWriting
  BY DEF IInv
<1> QED BY <1>1, Invariance, PTL

----------------------------------------------------------------------------
(* What is never repaired                                                   *)

\* A step of a coroutine that is not on its way to save leaves a torn file torn,
\* and starts nobody on that way: whoever is about to open a context reads the
\* file first and fails.
LEMMA TornStep ==
    ASSUME IInv, TornForGood, [Next]_vars
    PROVE  TornForGood'
<1>0. authFile = "torn" /\ \A u \in Tasks : ~Reopening(u)
  BY DEF TornForGood
<1>1. ASSUME NEW t \in Tasks, TaskStep(t) PROVE TornForGood'
  <2>1. \A u \in Tasks \ {t} : pc'[u] = pc[u]
    BY <1>1, TaskType DEF IInv
  <2>2. pc[t] \notin {"opening", "open", "saveWait", "fetching", "writing"}
    BY <1>0 DEF Reopening
  <2>3. authFile' = "torn" /\ pc'[t] \notin {"opening", "open", "saveWait", "fetching", "writing"}
    <3>1. CASE \/ Initialize(t) \/ PlaywrightStarted(t) \/ BrowserLaunched(t)
               \/ InitializeFails(t) \/ ReadState(t) \/ ContextRefused(t) \/ Answer(t)
      BY <1>0, <2>2, <3>1, OpeningMoves DEF IInv, Parses
    <3>2. CASE \/ SaveAuthState(t) \/ LockAcquired(t) \/ TruncateFile(t) \/ FileWritten(t)
               \/ SaveFails(t) \/ CloseContext(t)
      BY <1>0, <2>2, <3>2, SavingMoves DEF IInv
    <3>3. CASE ContextOpened(t) \/ ContextClosed(t) \/ CloseFails(t)
      BY <1>0, <2>2, <3>3, ContextMoves DEF IInv
    <3> QED BY <1>1, <3>1, <3>2, <3>3 DEF TaskStep, Proceed
  <2> QED BY <1>0, <2>1, <2>3 DEF TornForGood, Reopening
<1>2. CASE Startup \/ Shutdown \/ Kill \/ BrowserCrash \/ UNCHANGED vars
  BY <1>0, <1>2 DEF Startup, Shutdown, Kill, NoProcess, BrowserCrash, vars, TornForGood, Reopening
<1> QED BY <1>1, <1>2 DEF Next, TaskStep

\* A torn file of the login state stays torn, whatever is killed and restarted.
THEOREM TornStaysTorn == Spec => TornFileIsPermanent
<1>1. IInv /\ [Next]_vars => [TornForGood => TornForGood']_vars
  BY TornStep
<1> QED BY <1>1, Invariance, PTL DEF Spec, TornFileIsPermanent

\* While the browser of the lifespan handler is dead nobody opens a context.
LEMMA DeadStep ==
    ASSUME IInv, [Next]_vars, setting.lifespan, browser # None, browser \notin live, up' = up
    PROVE  live' = live /\ contexts' \subseteq contexts
<1>1. up /\ live = {} /\ browser = 1
  BY DEF IInv, HandlesKnown, BrowserOfStartup
<1>2. ASSUME NEW t \in Tasks, TaskStep(t) PROVE live' = live /\ contexts' \subseteq contexts
  <2>1. ~ContextOpened(t) /\ ~BrowserLaunched(t)
    BY <1>1 DEF ContextOpened, Answers, BrowserLaunched, IInv, BrowserOfStartup
  <2> QED BY <1>2, <2>1
    DEF TaskStep, Proceed, Initialize, PlaywrightStarted, InitializeFails, ReadState,
        ContextRefused, SaveAuthState, LockAcquired, TruncateFile, FileWritten, SaveFails,
        CloseContext, ContextClosed, CloseFails, Answer, handles, reqVars
<1>3. ~Startup /\ ~Shutdown /\ ~Kill /\ ~BrowserCrash
  BY <1>1 DEF Startup, Shutdown, Kill, Stopped, BrowserCrash
<1>4. CASE UNCHANGED vars
  BY <1>4 DEF vars, handles, reqVars
<1> QED BY <1>2, <1>3, <1>4 DEF Next, TaskStep

\* Where the lifespan handler launched the browser, one that died is not replaced.
THEOREM DeadStaysDead == Spec => DeadBrowserIsPermanent
<1>1. IInv /\ [Next]_vars =>
        [setting.lifespan /\ browser # None /\ browser \notin live /\ up' = up
           => live' = live /\ contexts' \subseteq contexts]_vars
  BY DeadStep
<1> QED BY <1>1, Invariance, PTL DEF Spec, DeadBrowserIsPermanent

----------------------------------------------------------------------------
(* How long a call can be                                                   *)

\* What a coroutine has before it, by the place where it is suspended.
PlaceNumber(place) ==
    [idle |-> 0, initFail |-> 1, tornFail |-> 1, deadFail |-> 1, ready |-> 1,
     closing |-> 1, saved |-> 2, writing |-> 3, fetching |-> 4, saveWait |-> 5, open |-> 6,
     opening |-> 7, reading |-> 8, launching |-> 9, starting |-> 10][place]

\* A call only goes on to what comes later.
CallsRunOut ==
    [][\A t \in Tasks :
          pc[t] # "idle" => pc'[t] = pc[t] \/ PlaceNumber(pc'[t]) < PlaceNumber(pc[t])]_vars

\* Whoever waits for _state_lock finds it free, or held by one who is at work on the file
\* and does not wait himself.
SaversGetOn ==
    \A t \in Tasks :
        pc[t] = "saveWait" =>
            LockFree \/ \E u \in Tasks : saver = u /\ pc[u] \in {"fetching", "writing"}

\* The number of each place.
LEMMA PlaceNumbers ==
    /\ PlaceNumber("idle") = 0 /\ PlaceNumber("initFail") = 1 /\ PlaceNumber("tornFail") = 1
    /\ PlaceNumber("deadFail") = 1 /\ PlaceNumber("ready") = 1 /\ PlaceNumber("closing") = 1
    /\ PlaceNumber("saved") = 2 /\ PlaceNumber("writing") = 3 /\ PlaceNumber("fetching") = 4
    /\ PlaceNumber("saveWait") = 5 /\ PlaceNumber("open") = 6 /\ PlaceNumber("opening") = 7
    /\ PlaceNumber("reading") = 8 /\ PlaceNumber("launching") = 9
    /\ PlaceNumber("starting") = 10
BY DEF PlaceNumber

\* Every step of a coroutine that is in a call brings it nearer to its end.
LEMMA StepGoesOn ==
    ASSUME IInv, NEW t \in Tasks, TaskStep(t), pc[t] # "idle"
    PROVE  PlaceNumber(pc'[t]) < PlaceNumber(pc[t])
<1> USE PlaceNumbers
<1>0. TypeOK /\ HandlesKnown
  BY DEF IInv
<1>1. CASE Initialize(t)
  BY <1>1 DEF Initialize
<1>2. CASE PlaywrightStarted(t)
  <2>1. pc[t] = "starting" /\ pc'[t] \in {"launching", "ready", "opening", "reading"}
    BY <1>0, <1>2, EnsureBrowserStep DEF PlaywrightStarted
  <2> QED BY <2>1
<1>3. CASE BrowserLaunched(t)
  <2>1. launched + 1 \in Browsers
    BY <1>0, <1>3, BrowserAssumption DEF BrowserLaunched, TypeOK, Browsers
  <2>2. pc[t] = "launching" /\ pc'[t] \in {"ready", "opening", "reading"}
    BY <1>0, <1>3, <2>1, InitializedStep DEF BrowserLaunched
  <2> QED BY <2>2
<1>4. CASE InitializeFails(t)
  <2>1. pc[t] \in {"starting", "launching"} /\ pc'[t] = "initFail"
    BY <1>0, <1>4, GotoStep DEF InitializeFails, Places
  <2> QED BY <2>1
<1>5. CASE ReadState(t) \/ ContextRefused(t) \/ Answer(t)
  <2>1. \/ pc[t] = "reading" /\ pc'[t] \in {"opening", "tornFail"}
        \/ pc[t] = "opening" /\ pc'[t] = "deadFail"
        \/ pc[t] \in {"ready", "initFail", "tornFail", "deadFail"} /\ pc'[t] = "idle"
    BY <1>0, <1>5, OpeningMoves DEF ReadState, ContextRefused, Answer
  <2> QED BY <2>1
<1>6. CASE \/ SaveAuthState(t) \/ LockAcquired(t) \/ TruncateFile(t) \/ FileWritten(t)
           \/ SaveFails(t) \/ CloseContext(t)
  BY <1>0, <1>6, SavingMoves
<1>7. CASE ContextOpened(t) \/ ContextClosed(t) \/ CloseFails(t)
  BY <1>0, <1>7, ContextMoves
<1> QED BY <1>1, <1>2, <1>3, <1>4, <1>5, <1>6, <1>7 DEF TaskStep, Proceed

\* No call of the manager goes back to what it has done: whatever dies or fails, a
\* request and a probe have at most ten steps from initialize() to the end of
\* close_context() (browser.py:23-74).
THEOREM CallsEnd == Spec => CallsRunOut
<1>1. IInv /\ [Next]_vars =>
          [\A t \in Tasks :
              pc[t] # "idle" =>
                  pc'[t] = pc[t] \/ PlaceNumber(pc'[t]) < PlaceNumber(pc[t])]_vars
  <2> SUFFICES ASSUME IInv, Next, NEW t \in Tasks, pc[t] # "idle"
               PROVE  pc'[t] = pc[t] \/ PlaceNumber(pc'[t]) < PlaceNumber(pc[t])
    OBVIOUS
  <2>1. ASSUME NEW u \in Tasks, TaskStep(u)
        PROVE  pc'[t] = pc[t] \/ PlaceNumber(pc'[t]) < PlaceNumber(pc[t])
    <3>1. CASE u = t
      BY <2>1, <3>1, StepGoesOn
    <3>2. CASE u # t
      BY <2>1, <3>2, TaskType DEF IInv
    <3> QED BY <3>1, <3>2
  <2>2. CASE Startup \/ Shutdown \/ BrowserCrash
    BY <2>2 DEF Startup, Shutdown, BrowserCrash
  <2>3. CASE Kill
    <3>1. pc'[t] = "idle" /\ pc[t] \in Places
      BY <2>3 DEF Kill, NoProcess, IInv, TypeOK
    <3> QED BY <3>1, PlaceNumbers DEF Places
  <2> QED BY <2>1, <2>2, <2>3 DEF Next, TaskStep
<1> QED BY <1>1, Invariance, PTL DEF Spec, CallsRunOut

\* _state_lock is never held by one that waits, ended or was killed: it waits for the
\* browser or for the disk, and then gives the lock back (browser.py:50-67).
THEOREM SaversServed == Spec => []SaversGetOn
<1>1. IInv => SaversGetOn
  BY DEF IInv, TypeOK, LockHeld, SaversGetOn, LockFree
<1> QED BY <1>1, Invariance, PTL
=============================================================================
