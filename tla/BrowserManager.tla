--------------------------- MODULE BrowserManager ---------------------------
(***************************************************************************)
(* BrowserManager, app/automation/browser.py, with the coroutines that     *)
(* share it: requests that open a context, may save the login state and    *)
(* close the context (WaybillService), and readiness probes (/readyz)      *)
(* that call initialize() too.  Around them the process starts, stops and  *)
(* is killed, Chromium may die, and the file of the login state outlives   *)
(* them all.                                                               *)
(*                                                                         *)
(* A step ends where a coroutine is suspended: in the start of Playwright, *)
(* in the launch of Chromium, in the two halves of new_context() (it reads *)
(* the state file in a thread, then calls the browser), in the lock of     *)
(* save_auth_state(), in the two halves of storage_state() (it asks the    *)
(* browser, then truncates and writes the file in a thread), in close().   *)
(***************************************************************************)
EXTENDS Integers, FiniteSets

CONSTANTS
    Requests,      \* coroutines of WaybillService
    Probes,        \* coroutines of /readyz
    Sessions,      \* session ids (uuid4 in the code: fresh while in use)
    None,
    Settings,      \* the servers considered, each with the faults it may meet
    MaxBrowsers    \* bound: launches of one process

AllFaults == {"start", "launch", "browser", "write", "close", "kill"}

ASSUME BrowserAssumption ==
    /\ IsFiniteSet(Requests) /\ IsFiniteSet(Probes)
    /\ Requests \cap Probes = {}
    /\ None \notin Sessions \cup Requests \cup Probes \cup 1..MaxBrowsers
    /\ Settings \subseteq [lifespan : BOOLEAN, faults : SUBSET AllFaults]
    /\ MaxBrowsers \in Nat \ {0}

Tasks == Requests \cup Probes
Browsers == 1..MaxBrowsers

VARIABLES
    setting,       \* one of Settings: does the server run the lifespan handler
                   \*   of main.py, and which of AllFaults may happen?
    up,            \* is the process serving?
    pc,            \* pc[t]: where coroutine t is suspended
    playwright,    \* self.playwright is set
    drivers,       \* Playwright drivers this process started
    browser,       \* self.browser, or None
    live,          \* the Chromium processes that run
    launched,      \* how many this process has launched
    contexts,      \* the keys of self._contexts
    session,       \* session[t]: internal_session_id of the request
    owner,         \* owner[t]: the browser its new_context() call went to
    authFile,      \* the file at AUTH_STATE_PATH: "absent", "valid" or "torn"
    saver          \* who holds _state_lock

handles == <<playwright, drivers, browser, live, launched>>
reqVars == <<contexts, session, owner>>
vars == <<setting, up, pc, handles, reqVars, authFile, saver>>

Places ==
    {"idle", "starting", "launching", "ready",         \* initialize()
     "reading", "opening", "open",                     \* create_context()
     "saveWait", "fetching", "writing", "saved",       \* save_auth_state()
     "closing", "initFail", "tornFail", "deadFail"}

\* Places of a request whose context exists.
WithContext == {"open", "saveWait", "fetching", "writing", "saved", "closing"}

Goto(t, place) == pc' = [pc EXCEPT ![t] = place]

NoProcess ==
    /\ pc' = [t \in Tasks |-> "idle"]
    /\ contexts' = {}
    /\ session' = [t \in Tasks |-> None]
    /\ owner' = [t \in Tasks |-> None]
    /\ saver' = None

Init ==
    /\ setting \in Settings
    /\ up = FALSE
    /\ pc = [t \in Tasks |-> "idle"]
    /\ playwright = FALSE
    /\ drivers = 0
    /\ browser = None
    /\ live = {}
    /\ launched = 0
    /\ contexts = {}
    /\ session = [t \in Tasks |-> None]
    /\ owner = [t \in Tasks |-> None]
    /\ authFile = "absent"
    /\ saver = None

----------------------------------------------------------------------------
(* The process: main.lifespan, BrowserManager.close, a kill                 *)

\* main.lifespan calls initialize() before the first request is served; a
\* server that does not run lifespan handlers leaves it to the first caller.
Startup ==
    /\ ~up
    /\ up' = TRUE
    /\ IF setting.lifespan
       THEN playwright' = TRUE /\ drivers' = 1 /\ browser' = 1 /\ live' = {1} /\ launched' = 1
       ELSE UNCHANGED handles
    /\ UNCHANGED <<setting, pc, reqVars, authFile, saver>>

Stopped ==
    /\ up' = FALSE
    /\ playwright' = FALSE
    /\ drivers' = 0
    /\ browser' = None
    /\ live' = {}
    /\ launched' = 0

\* BrowserManager.close() after the server has drained its requests: it closes
\* the contexts still registered, the browser and the driver, and forgets each
\* whether or not closing it raised.
Shutdown ==
    /\ up
    /\ \A t \in Tasks : pc[t] = "idle"
    /\ Stopped
    /\ contexts' = {}
    /\ UNCHANGED <<setting, pc, session, owner, authFile, saver>>

\* The process is killed wherever its coroutines are: only the file stays.
Kill ==
    /\ "kill" \in setting.faults
    /\ up
    /\ Stopped
    /\ NoProcess
    /\ UNCHANGED <<setting, authFile>>

\* Chromium dies; self.browser and the contexts keep their handles.
BrowserCrash ==
    /\ "browser" \in setting.faults
    /\ \E b \in live : live' = live \ {b}
    /\ UNCHANGED <<setting, up, pc, playwright, drivers, browser, launched, reqVars, authFile, saver>>

----------------------------------------------------------------------------
(* initialize                                                               *)

\* What the caller does once self.browser is b: /readyz answers, and a request
\* goes on in create_context(), which looks at once whether the state file
\* exists and calls new_context() of b.
Initialized(t, b) ==
    \/ t \in Probes /\ Goto(t, "ready") /\ UNCHANGED owner
    \/ /\ t \in Requests
       /\ Goto(t, IF authFile = "absent" THEN "opening" ELSE "reading")
       /\ owner' = [owner EXCEPT ![t] = b]

\* initialize() looks at the handle.  Mutant: at Chromium (is_connected()).
HasBrowserAlive == browser \in live

HasBrowser == browser # None

\* The second test of initialize(), made when Playwright is there.
EnsureBrowser(t) ==
    \/ ~HasBrowser /\ Goto(t, "launching") /\ UNCHANGED owner
    \/ HasBrowser /\ Initialized(t, browser)

Initialize(t) ==
    /\ up
    /\ pc[t] = "idle"
    /\ \/ ~playwright /\ Goto(t, "starting") /\ UNCHANGED owner
       \/ playwright /\ EnsureBrowser(t)
    /\ UNCHANGED <<setting, up, handles, contexts, session, authFile, saver>>

PlaywrightStarted(t) ==
    /\ pc[t] = "starting"
    /\ playwright' = TRUE
    /\ drivers' = drivers + 1
    /\ EnsureBrowser(t)
    /\ UNCHANGED <<setting, up, browser, live, launched, contexts, session, authFile, saver>>

\* The last launch to return is the one self.browser names.
BrowserLaunched(t) ==
    /\ pc[t] = "launching"
    /\ launched < MaxBrowsers
    /\ launched' = launched + 1
    /\ browser' = launched + 1
    /\ live' = live \cup {launched + 1}
    /\ Initialized(t, launched + 1)
    /\ UNCHANGED <<setting, up, playwright, drivers, contexts, session, authFile, saver>>

InitializeFails(t) ==
    /\ \/ pc[t] = "starting" /\ "start" \in setting.faults
       \/ pc[t] = "launching" /\ "launch" \in setting.faults
    /\ Goto(t, "initFail")
    /\ UNCHANGED <<setting, up, handles, reqVars, authFile, saver>>

----------------------------------------------------------------------------
(* create_context                                                           *)

\* The file holds a login state.  Mutant: a torn file is one, too.
ParsesAny == TRUE

Parses == authFile # "torn"

\* new_context(storage_state=path) parses the file: a torn one raises.
ReadState(t) ==
    /\ pc[t] = "reading"
    /\ \/ ~Parses /\ Goto(t, "tornFail")
       \/ Parses /\ Goto(t, "opening")
    /\ UNCHANGED <<setting, up, handles, reqVars, authFile, saver>>

\* A browser that runs answers calls on its handle.
Answers(b) == b \in live

\* Mutant of Register: the context is registered under the id of before.
RegisterBefore(t, s) == contexts' = contexts \cup {session[t]}

Register(t, s) == contexts' = contexts \cup {s}

ContextOpened(t) ==
    /\ pc[t] = "opening"
    /\ Answers(owner[t])
    /\ \E s \in Sessions \ contexts :
          /\ Register(t, s)
          /\ session' = [session EXCEPT ![t] = s]
    /\ Goto(t, "open")
    /\ UNCHANGED <<setting, up, handles, owner, authFile, saver>>

\* Every call on a handle whose browser died raises.
ContextRefused(t) ==
    /\ pc[t] = "opening"
    /\ ~Answers(owner[t])
    /\ Goto(t, "deadFail")
    /\ UNCHANGED <<setting, up, handles, reqVars, authFile, saver>>

----------------------------------------------------------------------------
(* save_auth_state                                                          *)

\* asyncio.Lock: free, or the waiter stays.  Mutant: the lock lets everyone in.
LockFreeAlways == TRUE

LockFree == saver = None

Lock(t) == saver' = t /\ Goto(t, "fetching")

\* Mutant of Unlock: the lock stays taken.
UnlockNever == UNCHANGED saver

Unlock == saver' = None

SaveAuthState(t) ==
    /\ pc[t] = "open"
    /\ \/ LockFree /\ Lock(t)
       \/ ~LockFree /\ Goto(t, "saveWait") /\ UNCHANGED saver
    /\ UNCHANGED <<setting, up, handles, reqVars, authFile>>

LockAcquired(t) ==
    /\ pc[t] = "saveWait"
    /\ LockFree
    /\ Lock(t)
    /\ UNCHANGED <<setting, up, handles, reqVars, authFile>>

\* storage_state() has the cookies and truncates the file ...
TruncateFile(t) ==
    /\ pc[t] = "fetching"
    /\ owner[t] \in live
    /\ authFile' = "torn"
    /\ Goto(t, "writing")
    /\ UNCHANGED <<setting, up, handles, reqVars, saver>>

\* ... and the text is in it.
FileWritten(t) ==
    /\ pc[t] = "writing"
    /\ authFile' = "valid"
    /\ Unlock
    /\ Goto(t, "saved")
    /\ UNCHANGED <<setting, up, handles, reqVars>>

\* The exception is logged and the request goes on without a saved state.
SaveFails(t) ==
    /\ \/ pc[t] = "fetching" /\ owner[t] \notin live
       \/ pc[t] = "writing" /\ "write" \in setting.faults
    /\ Unlock
    /\ Goto(t, "saved")
    /\ UNCHANGED <<setting, up, handles, reqVars, authFile>>

----------------------------------------------------------------------------
(* close_context, and the end of a request                                  *)

CloseContext(t) ==
    /\ pc[t] \in {"open", "saved"}
    /\ Goto(t, "closing")
    /\ UNCHANGED <<setting, up, handles, reqVars, authFile, saver>>

\* Its coroutine forgets its context.
Forget(t) ==
    /\ session' = [session EXCEPT ![t] = None]
    /\ owner' = [owner EXCEPT ![t] = None]
    /\ Goto(t, "idle")

\* Closing a context whose browser died is no error.
ContextClosed(t) ==
    /\ pc[t] = "closing"
    /\ contexts' = contexts \ {session[t]}
    /\ Forget(t)
    /\ UNCHANGED <<setting, up, handles, authFile, saver>>

\* Contexts that are registered although no request has them open.
InFlight == {session[t] : t \in {r \in Tasks : pc[r] \in WithContext}}
Leaked == contexts \ InFlight

\* close() raises before the entry is deleted; the caller logs and returns.
\* (Bound: the sessions that are left suffice for the requests.)
CloseFails(t) ==
    /\ "close" \in setting.faults
    /\ pc[t] = "closing"
    /\ Cardinality(Leaked) < Cardinality(Sessions) - Cardinality(Requests)
    /\ Forget(t)
    /\ UNCHANGED <<setting, up, handles, contexts, authFile, saver>>

\* /readyz has answered, or a request without a context ends with an error.
Answer(t) ==
    /\ pc[t] \in {"ready", "initFail", "tornFail", "deadFail"}
    /\ Goto(t, "idle")
    /\ owner' = [owner EXCEPT ![t] = None]
    /\ UNCHANGED <<setting, up, handles, contexts, session, authFile, saver>>

----------------------------------------------------------------------------
Proceed(t) ==
    \/ PlaywrightStarted(t) \/ BrowserLaunched(t) \/ InitializeFails(t)
    \/ ReadState(t) \/ ContextOpened(t) \/ ContextRefused(t)
    \/ LockAcquired(t) \/ TruncateFile(t) \/ FileWritten(t) \/ SaveFails(t)
    \/ CloseContext(t) \/ ContextClosed(t) \/ CloseFails(t)
    \/ Answer(t)

Next ==
    \/ Startup \/ Shutdown \/ Kill \/ BrowserCrash
    \/ \E t \in Tasks : Initialize(t) \/ SaveAuthState(t) \/ Proceed(t)

Spec == Init /\ [][Next]_vars

\* Coroutines and the browser calls they await get on; a lock wait needs strong
\* fairness here because the model leaves the order of the lock's queue open.
Fairness == \A t \in Tasks : WF_vars(Proceed(t)) /\ SF_vars(LockAcquired(t))

FairSpec == Spec /\ Fairness

----------------------------------------------------------------------------
(* Properties                                                               *)

\* Every variable has its type.
TypeOK ==
    /\ setting \in Settings
    /\ up \in BOOLEAN
    /\ pc \in [Tasks -> Places]
    /\ playwright \in BOOLEAN
    /\ drivers \in Nat
    /\ browser \in Browsers \cup {None}
    /\ live \subseteq Browsers
    /\ launched \in 0..MaxBrowsers
    /\ contexts \subseteq Sessions
    /\ session \in [Tasks -> Sessions \cup {None}]
    /\ owner \in [Tasks -> Browsers \cup {None}]
    /\ authFile \in {"absent", "valid", "torn"}
    /\ saver \in Tasks \cup {None}

\* Who is in save_auth_state() after its lock was taken, and nobody else, holds it.
LockHeld == \A t \in Tasks : saver = t <=> pc[t] \in {"fetching", "writing"}

\* The handles name things of this process; without a process nothing is left.
HandlesKnown ==
    /\ live \subseteq 1..launched
    /\ browser # None => playwright /\ browser \in 1..launched
    /\ playwright <=> drivers > 0
    /\ ~up => ~playwright /\ \A t \in Tasks : pc[t] = "idle"
    /\ \A t \in Tasks : pc[t] = "launching" => playwright

\* Where the lifespan handler runs, its browser is the only one: nobody else
\* starts Playwright or launches another.
BrowserOfStartup ==
    setting.lifespan /\ up =>
        /\ playwright /\ browser = 1 /\ launched = 1
        /\ \A t \in Tasks : pc[t] \notin {"starting", "launching"}

\* A coroutine has a session while it has a context, and knows the browser that
\* it asked for the context from that moment on.
SessionsHeld ==
    \A t \in Tasks :
        /\ session[t] # None <=> pc[t] \in WithContext
        /\ owner[t] # None <=> pc[t] \in WithContext \cup {"reading", "opening", "tornFail", "deadFail"}
        /\ owner[t] # None => owner[t] <= launched
        /\ t \in Probes => pc[t] \in {"idle", "starting", "launching", "ready", "initFail"}

\* README.md:18 promises that no context leaks.  Each request in flight has a
\* context of its own and finds it registered, whatever others close meanwhile;
\* and, unless close() of a context raised, no other context is registered.
ContextPerRequest ==
    /\ \A t, u \in Tasks :
          pc[t] \in WithContext =>
              /\ session[t] \in contexts
              /\ pc[u] \in WithContext /\ session[t] = session[u] => t = u
    /\ "close" \notin setting.faults => contexts = InFlight

\* _state_lock: two savers never interleave.  If no process is killed and no write
\* fails, the file is torn only while the holder of the lock writes it; that
\* moment is also the only one in which create_context(), which reads without
\* the lock, can meet half a file.
TornOnlyWhileWriting ==
    {"kill", "write"} \cap setting.faults = {} /\ authFile = "torn" =>
        \E t \in Tasks : saver = t /\ pc[t] = "writing"

\* The inductive invariant.
IInv ==
    /\ TypeOK /\ LockHeld /\ HandlesKnown /\ BrowserOfStartup /\ SessionsHeld
    /\ ContextPerRequest /\ TornOnlyWhileWriting

\* A torn file that nobody is about to rewrite is never repaired, across crashes
\* and restarts: create_context() fails first, and only a request that has its
\* context can save.
Reopening(t) == pc[t] \in {"opening", "open", "saveWait", "fetching", "writing"}
TornForGood == authFile = "torn" /\ \A t \in Tasks : ~Reopening(t)
TornFileIsPermanent == [][TornForGood => TornForGood']_vars

\* A browser that died is not replaced while the process lives: initialize()
\* tests the handle only, so no context is opened until a restart (and /readyz,
\* which calls initialize(), goes on answering that all is well).  This is about
\* a server that runs the lifespan handler; without it several callers may launch
\* a browser each, and a later one can take the place of one that died.
DeadBrowserIsPermanent ==
    [][setting.lifespan /\ browser # None /\ browser \notin live /\ up' = up
         => live' = live /\ contexts' \subseteq contexts]_vars

\* No coroutine is left hanging, least of all one that waits for _state_lock
\* while Chromium dies under its holder.
EveryCallReturns == \A t \in Tasks : pc[t] # "idle" ~> pc[t] = "idle"
=============================================================================
