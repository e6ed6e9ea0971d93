--------------------------- MODULE SocketLifecycle ---------------------------
(***************************************************************************)
(* The life of one socket (src/src/Socket/core.ts): init() builds a bridge *)
(* client and hands it to the owner, end() and logout() shut the socket    *)
(* down, the engine may announce a terminal close at any moment, teardown  *)
(* closes the transport, flushes the auth stores and runs the consumer's   *)
(* end handlers, and release disconnects and frees the client.             *)
(*                                                                         *)
(* The module composes the client owner and the terminal-close reporter    *)
(* (INSTANCE below), supplies the two callbacks the owner leaves open and  *)
(* the teardown the reporter waits for, and adds the transport wrapper     *)
(* (src/src/Compatibility/websocket-client.ts), init, the callers of end() *)
(* and logout(), and the store writes a disconnect enqueues.               *)
(*                                                                         *)
(* One action is one run-to-completion segment: what JavaScript does       *)
(* between two awaits.  Everything awaited may settle in any order, and    *)
(* what the code catches may fail.                                         *)
(***************************************************************************)
EXTENDS Naturals

CONSTANTS
  Client,      \* the bridge client init() builds
  NoClient,    \* "no client"
  Outside,     \* callers of end() or logout() outside the end handlers
  Handlers,    \* end handlers, which may call end() or logout() themselves
  Reopenings,  \* bound: how often the user calls ws.connect()
  LateReopen   \* whether the user calls ws.connect() during a close too

Callers == Outside \cup Handlers
Clients == {Client}

ASSUME LifecycleAssumption ==
  /\ Client # NoClient
  /\ Outside \cap Handlers = {}
  /\ Reopenings \in Nat
  /\ LateReopen \in BOOLEAN

VARIABLES
  \* the owner (ClientOwner)
  phase, held, closer, captured, teardownOk, done, offered, adopted,
  releasing, releaseCalls, tracked,
  \* the reporter (TerminalCloseReporter)
  claim, watchdog, awaiting, published, deliveries,
  \* the socket
  init,         \* how far init() and its catch have come
  running,      \* created.run() was called; its completion is observed
  ws,           \* closeState.phase of the transport wrapper
  wsCall,       \* the close() in flight: none, its microtask, its disconnect()
  wsOk,         \* whether the last finished ws.close() resolved
  reopened,     \* ws.connect() calls that reopened the transport
  teardown,     \* how far the owner's teardown callback has come
  release,      \* how far the owner's release callback has come
  link,         \* the engine has a session that a disconnect() would close
  writes,       \* the ratchet writes of that disconnect: on their way into
                \* the store, in the store but not flushed, or neither
  flushFailed,  \* teardown's flush failed
  lateFlushFailed, \* release's flush failed, which is only logged
  call,         \* per caller: where its end() or logout() stands
  joined,       \* callers whose end() waits for the owner's close
  logouts,      \* callers of logout()
  fallback      \* logout() callers that may have to report the close

ownerVars == <<phase, held, closer, captured, teardownOk, done, offered,
               adopted, releasing, releaseCalls, tracked>>
reporterVars == <<claim, watchdog, awaiting, published, deliveries>>
initVars == <<init, running>>
wsVars == <<ws, wsCall, wsOk, reopened>>
storeVars == <<link, writes, flushFailed, lateFlushFailed>>
callVars == <<call, joined, logouts, fallback>>

vars == <<ownerVars, reporterVars, initVars, wsVars, storeVars, callVars,
          teardown, release>>

Owner == INSTANCE ClientOwner
           WITH Clients <- {Client}, NoClient <- NoClient,
                phase <- phase, held <- held, closer <- closer,
                captured <- captured, teardownOk <- teardownOk, done <- done,
                offered <- offered, adopted <- adopted, releasing <- releasing,
                releaseCalls <- releaseCalls, tracked <- tracked
Reporter == INSTANCE TerminalCloseReporter
              WITH claim <- claim, watchdog <- watchdog, awaiting <- awaiting,
                   published <- published, deliveries <- deliveries

CallStates == {"idle", "ending", "loggingOut", "logoutEnding",
               "awaitingClose", "returned", "rejected", "hung"}

TypeOK ==
  /\ Owner!TypeOK
  /\ Reporter!ReporterTypeOK
  /\ init \in {"creating", "probing", "refused", "configuring", "joining", "settled"}
  /\ running \in BOOLEAN
  /\ ws \in {"open", "closing", "closed"}
  /\ wsCall \in {"none", "scheduled", "disconnecting"}
  /\ wsOk \in BOOLEAN
  /\ reopened \in 0..Reopenings
  /\ teardown \in {"idle", "ws", "wsClosed", "wsFailed", "direct", "barrier",
                   "flush", "handlers", "settled"}
  /\ release \in {"none", "disconnecting", "barrier", "flush", "free", "freed"}
  /\ link \in BOOLEAN
  /\ writes \in {"none", "queued", "dirty"}
  /\ flushFailed \in BOOLEAN
  /\ lateFlushFailed \in BOOLEAN
  /\ call \in [Callers -> CallStates]
  /\ joined \subseteq Callers
  /\ logouts \subseteq Callers
  /\ fallback \subseteq logouts

Init ==
  /\ Owner!Init
  /\ Reporter!ReporterInit
  /\ init = "creating"
  /\ running = FALSE
  /\ ws = "open"
  /\ wsCall = "none"
  /\ wsOk = TRUE
  /\ reopened = 0
  /\ teardown = "idle"
  /\ release = "none"
  /\ link = FALSE
  /\ writes = "none"
  /\ flushFailed = FALSE
  /\ lateFlushFailed = FALSE
  /\ call = [c \in Callers |-> "idle"]
  /\ joined = {}
  /\ logouts = {}
  /\ fallback = {}

(* initPromise has settled. *)
InitSettled == init = "settled"

(* What every end() that joins the close waits for: the owner's promise,   *)
(* and then initPromise.                                                   *)
CloseSettled == done \in {"resolved", "rejected"} /\ InitSettled

(* runningEndHandlers *)
RunningEndHandlers == teardown = "handlers"

(* Mutant: close() starts a second teardown when one is in flight. *)
BugOwnerClose ==
  /\ phase' = "closing"
  /\ closer' = "scheduled"
  /\ done' = "pending"
  /\ UNCHANGED <<held, captured, teardownOk, offered, adopted, releasing,
                 releaseCalls, tracked>>

(* owner.close(): starts the close, or joins the one in flight. *)
OwnerClose == IF Owner!IsClosing THEN UNCHANGED ownerVars ELSE Owner!Close

(* reportTerminalClose(): nothing at all when a close was claimed before.  *)
ReportTerminalClose ==
  /\ Reporter!ReportAfter
  /\ IF Reporter!HasReported THEN UNCHANGED ownerVars ELSE OwnerClose

-----------------------------------------------------------------------------
(* init() *)

(* createWhatsAppClient() resolved.  While the owner is closing, init()    *)
(* first waits for a client operation; otherwise it offers the client.     *)
InitCreated ==
  /\ init = "creating"
  /\ IF Owner!IsClosing
     THEN init' = "probing" /\ UNCHANGED ownerVars
     ELSE init' = "configuring" /\ Owner!Adopt(Client)
  /\ UNCHANGED <<running, release, reporterVars, wsVars, storeVars, callVars, teardown>>

(* The wait is over: adopt() refuses the client and starts its release. *)
InitRefused ==
  /\ init = "probing"
  /\ Owner!Adopt(Client)
  /\ release' = "disconnecting"
  /\ init' = "refused"
  /\ UNCHANGED <<running, reporterVars, wsVars, storeVars, callVars, teardown>>

(* Mutant: init() does not wait for owner.settled(). *)
BugInitRefusedUnjoined ==
  /\ init = "refused"
  /\ init' = "settled"
  /\ UNCHANGED <<running, ownerVars, reporterVars, wsVars, storeVars, callVars,
                 teardown, release>>

(* `return owner.settled()` *)
InitRefusedJoined ==
  /\ init = "refused"
  /\ tracked = {}
  /\ init' = "settled"
  /\ UNCHANGED <<running, ownerVars, reporterVars, wsVars, storeVars, callVars,
                 teardown, release>>

(* The last of the awaits that configure the client.  Each is followed by  *)
(* an isClosing() check, so a close stops init() before run().             *)
InitConfigured ==
  /\ init = "configuring"
  /\ init' = "settled"
  /\ running' = ~Owner!IsClosing
  /\ link' = (link \/ ~Owner!IsClosing)
  /\ UNCHANGED <<ownerVars, reporterVars, wsVars, writes, flushFailed,
                 lateFlushFailed, callVars, teardown, release>>

(* init() throws, before or after the client was adopted, and its catch    *)
(* runs.  A failure during a close is that close's business.  Any other is *)
(* reported, which starts the close.  Either way the closing discard()     *)
(* that follows joins the owner's promise.                                 *)
InitFails ==
  /\ init \in {"creating", "configuring"}
  /\ init' = "joining"
  /\ IF Owner!IsClosing
     THEN UNCHANGED <<ownerVars, reporterVars>>
     ELSE ReportTerminalClose
  /\ UNCHANGED <<running, wsVars, storeVars, callVars, teardown, release>>

(* discard() joined the close and swallowed its failure. *)
InitFailureJoined ==
  /\ init = "joining"
  /\ done \in {"resolved", "rejected"}
  /\ init' = "settled"
  /\ UNCHANGED <<running, ownerVars, reporterVars, wsVars, storeVars, callVars,
                 teardown, release>>

-----------------------------------------------------------------------------
(* Terminal closes announced by the engine *)

(* The dispatcher's onTerminalClose: a terminal event of a running client, *)
(* or the LoggedOut that Client::logout() dispatches.                      *)
EngineTerminal ==
  /\ running \/ \E c \in Callers : call[c] = "loggingOut"
  /\ release # "freed"
  /\ ReportTerminalClose
  /\ UNCHANGED <<initVars, wsVars, storeVars, callVars, teardown, release>>

(* waitForRunCompletion() settles.  The observer ignores it unless its     *)
(* client is still the owner's and no close has started.                   *)
RunCompletes ==
  /\ running
  /\ running' = FALSE
  /\ IF Owner!IsClosing \/ Owner!Peek # Client
     THEN UNCHANGED <<ownerVars, reporterVars>>
     ELSE ReportTerminalClose
  /\ UNCHANGED <<init, wsVars, storeVars, callVars, teardown, release>>

WatchdogFires ==
  /\ Reporter!WatchdogFires
  /\ UNCHANGED <<ownerVars, initVars, wsVars, storeVars, callVars, teardown, release>>

(* Mutant: the publish waits for the owner's close but not for init().     *)
BugReportFinishesBeforeInit ==
  /\ done \in {"resolved", "rejected"}
  /\ Reporter!ReportFinishes
  /\ UNCHANGED <<ownerVars, initVars, wsVars, storeVars, callVars, teardown, release>>

(* owner.close(error).finally(() => initPromise) has settled. *)
ReportFinishes ==
  /\ CloseSettled
  /\ Reporter!ReportFinishes
  /\ UNCHANGED <<ownerVars, initVars, wsVars, storeVars, callVars, teardown, release>>
-----------------------------------------------------------------------------
(* The transport wrapper: ws.close() and ws.connect() *)

(* close() of an open wrapper publishes `closing` and defers its work by a *)
(* microtask; any other close() joins the promise of the one before.       *)
WsClose ==
  IF ws = "open"
  THEN ws' = "closing" /\ wsCall' = "scheduled"
  ELSE UNCHANGED <<ws, wsCall>>

UserWsClose ==
  /\ ws = "open"
  /\ WsClose
  /\ UNCHANGED <<wsOk, reopened, ownerVars, reporterVars, initVars, storeVars,
                 callVars, teardown, release>>

(* connect(): the owner publishes a client, it is not connected, and no    *)
(* close() is in flight.                                                   *)
UserWsConnect ==
  /\ reopened < Reopenings
  /\ LateReopen \/ ~Owner!IsClosing
  /\ Owner!Peek # NoClient
  /\ ~link
  /\ ws # "closing"
  /\ ws' = "open"
  /\ link' = TRUE
  /\ reopened' = reopened + 1
  /\ UNCHANGED <<wsCall, wsOk, ownerVars, reporterVars, initVars, writes,
                 flushFailed, lateFlushFailed, callVars, teardown, release>>

(* disconnect() of the bridge client: a live session's closing ratchet     *)
(* writes are then on their way to the store.                              *)
Disconnect(ok) ==
  IF ok /\ link
  THEN link' = FALSE /\ writes' = "queued"
  ELSE UNCHANGED <<link, writes>>

(* The promise of ws.close() settles, and a teardown awaiting it resumes.  *)
WsFinishes(ok) ==
  /\ ws' = "closed"
  /\ wsCall' = "none"
  /\ wsOk' = ok
  /\ teardown' = IF teardown # "ws" THEN teardown
                 ELSE IF ok THEN "wsClosed" ELSE "wsFailed"
  /\ UNCHANGED reopened

(* The microtask: the owner's client, if it has one, is disconnected. *)
WsRuns ==
  /\ wsCall = "scheduled"
  /\ IF Owner!Peek # NoClient
     THEN wsCall' = "disconnecting" /\ UNCHANGED <<ws, wsOk, reopened, teardown>>
     ELSE WsFinishes(TRUE)
  /\ UNCHANGED <<ownerVars, reporterVars, initVars, storeVars, callVars, release>>

WsDisconnected(ok) ==
  /\ wsCall = "disconnecting"
  /\ Disconnect(ok)
  /\ WsFinishes(ok)
  /\ UNCHANGED <<ownerVars, reporterVars, initVars, flushFailed, lateFlushFailed,
                 callVars, release>>

(* The store callbacks a disconnect enqueued run on a later tick. *)
WritesLand ==
  /\ writes = "queued"
  /\ writes' = "dirty"
  /\ UNCHANGED <<link, flushFailed, lateFlushFailed, ownerVars, reporterVars,
                 initVars, wsVars, callVars, teardown, release>>

-----------------------------------------------------------------------------
(* teardown: the owner's first callback *)

(* Mutant: a ws.close() already in flight is not joined. *)
BugTeardownStarts ==
  /\ Owner!RunClose
  /\ WsClose
  /\ teardown' = IF ws = "open" THEN "ws" ELSE "wsClosed"
  /\ UNCHANGED <<wsOk, reopened, reporterVars, initVars, storeVars, callVars, release>>

(* runClose() calls teardown(), which calls ws.close() and awaits it.  The *)
(* promise of a closed wrapper has settled already.                        *)
TeardownStarts ==
  /\ Owner!RunClose
  /\ WsClose
  /\ teardown' = IF ws # "closed" THEN "ws"
                 ELSE IF wsOk THEN "wsClosed" ELSE "wsFailed"
  /\ UNCHANGED <<wsOk, reopened, reporterVars, initVars, storeVars, callVars, release>>

(* The transport is closed; if it refused to close, the client is          *)
(* disconnected directly.  Without a client there is nothing to wait for.  *)
TeardownResumes ==
  /\ teardown \in {"wsClosed", "wsFailed"}
  /\ teardown' = IF captured = NoClient THEN "flush"
                 ELSE IF teardown = "wsClosed" THEN "barrier" ELSE "direct"
  /\ UNCHANGED <<ownerVars, reporterVars, initVars, wsVars, storeVars, callVars, release>>

TeardownDisconnects(ok) ==
  /\ teardown = "direct"
  /\ teardown' = "barrier"
  /\ Disconnect(ok)
  /\ UNCHANGED <<flushFailed, lateFlushFailed, ownerVars, reporterVars, initVars,
                 wsVars, callVars, release>>

(* Two turns of the event loop, enough for the store callbacks to land.    *)
TeardownBarrier ==
  /\ teardown = "barrier"
  /\ writes # "queued"
  /\ teardown' = "flush"
  /\ UNCHANGED <<ownerVars, reporterVars, initVars, wsVars, storeVars, callVars, release>>

(* flushStores(): the writes in the store reach the disk, or it fails and  *)
(* teardown keeps the error.  The end handlers run either way.             *)
TeardownFlushes(ok) ==
  /\ teardown = "flush"
  /\ teardown' = "handlers"
  /\ flushFailed' = ~ok
  /\ writes' = IF ok /\ writes = "dirty" THEN "none" ELSE writes
  /\ UNCHANGED <<link, lateFlushFailed, ownerVars, reporterVars, initVars, wsVars,
                 callVars, release>>

(* Handlers run one after the other: h may run when no other is running.   *)
HandlerTurn(h) ==
  /\ h \in Handlers
  /\ RunningEndHandlers
  /\ \A g \in Handlers : call[g] \in {"idle", "returned", "rejected"}

(* Every handler has run; its failure, if any, was logged. *)
TeardownHandlersDone ==
  /\ RunningEndHandlers
  /\ \A h \in Handlers : call[h] \in {"returned", "rejected"}
  /\ teardown' = "settled"
  /\ UNCHANGED <<ownerVars, reporterVars, initVars, wsVars, storeVars, callVars, release>>

(* teardown() resolves, or rethrows the flush error; runClose()'s finally  *)
(* calls release() for the captured client.                                *)
TeardownSettles ==
  /\ teardown = "settled"
  /\ Owner!TeardownSettles(~flushFailed)
  /\ release' = IF captured # NoClient THEN "disconnecting" ELSE release
  /\ UNCHANGED <<reporterVars, initVars, wsVars, storeVars, callVars, teardown>>

CloseReleased ==
  /\ Owner!CloseReleased
  /\ UNCHANGED <<reporterVars, initVars, wsVars, storeVars, callVars, teardown, release>>

CloseSettles ==
  /\ Owner!CloseSettles
  /\ UNCHANGED <<reporterVars, initVars, wsVars, storeVars, callVars, teardown, release>>

-----------------------------------------------------------------------------
(* release: the owner's second callback *)

(* Mutant: no barrier between the last disconnect and the last flush. *)
BugReleaseDisconnected(ok) ==
  /\ release = "disconnecting"
  /\ release' = IF ok THEN "flush" ELSE "free"
  /\ Disconnect(ok)
  /\ UNCHANGED <<flushFailed, lateFlushFailed, ownerVars, reporterVars, initVars,
                 wsVars, callVars, teardown>>

(* A disconnect() that throws is ignored: barrier and flush are skipped.   *)
ReleaseDisconnected(ok) ==
  /\ release = "disconnecting"
  /\ release' = IF ok THEN "barrier" ELSE "free"
  /\ Disconnect(ok)
  /\ UNCHANGED <<flushFailed, lateFlushFailed, ownerVars, reporterVars, initVars,
                 wsVars, callVars, teardown>>

ReleaseBarrier ==
  /\ release = "barrier"
  /\ writes # "queued"
  /\ release' = "flush"
  /\ UNCHANGED <<ownerVars, reporterVars, initVars, wsVars, storeVars, callVars, teardown>>

(* A late flush error is logged and otherwise ignored. *)
ReleaseFlushes(ok) ==
  /\ release = "flush"
  /\ release' = "free"
  /\ lateFlushFailed' = ~ok
  /\ writes' = IF ok /\ writes = "dirty" THEN "none" ELSE writes
  /\ UNCHANGED <<link, flushFailed, ownerVars, reporterVars, initVars, wsVars,
                 callVars, teardown>>

(* The client is unregistered and freed, and release() settles. *)
ReleaseFrees ==
  /\ release = "free"
  /\ release' = "freed"
  /\ Owner!ReleaseSettles(Client)
  /\ UNCHANGED <<reporterVars, initVars, wsVars, storeVars, callVars, teardown>>
-----------------------------------------------------------------------------
(* end() and logout() *)

(* A caller outside may call at any time, an end handler when it runs. *)
MayCall(c) == call[c] = "idle" /\ (c \in Outside \/ HandlerTurn(c))

(* Mutant: end() joins the close even from inside an end handler. *)
BugEnd(c) == OwnerClose /\ joined' = joined \cup {c}

(* end(): while the end handlers run it resolves at once, whoever calls;   *)
(* otherwise its promise is the owner's, and then init()'s.                *)
End(c) ==
  IF RunningEndHandlers
  THEN UNCHANGED <<ownerVars, joined>>
  ELSE OwnerClose /\ joined' = joined \cup {c}

CallEnd(c) ==
  /\ MayCall(c)
  /\ call' = [call EXCEPT ![c] = "ending"]
  /\ End(c)
  /\ UNCHANGED <<logouts, fallback, reporterVars, initVars, wsVars, storeVars, teardown, release>>

EndAnswered(c) == c \in joined => CloseSettled

(* How a settled end() answered: it rethrows the first flush error. *)
EndOutcome(c) == IF c \in joined /\ done = "rejected" THEN "rejected" ELSE "returned"

EndReturns(c) ==
  /\ call[c] = "ending"
  /\ EndAnswered(c)
  /\ call' = [call EXCEPT ![c] = EndOutcome(c)]
  /\ UNCHANGED <<joined, logouts, fallback, ownerVars, reporterVars, initVars, wsVars,
                 storeVars, teardown, release>>

(* logout() up to `await live.logout()`, with a client to log out. *)
CallLogout(c) ==
  /\ MayCall(c)
  /\ Owner!Peek # NoClient
  /\ call' = [call EXCEPT ![c] = "loggingOut"]
  /\ logouts' = logouts \cup {c}
  /\ fallback' = IF Reporter!HasReported THEN fallback ELSE fallback \cup {c}
  /\ UNCHANGED <<joined, ownerVars, reporterVars, initVars, wsVars, storeVars,
                 teardown, release>>

(* logout() without a client goes straight to end(). *)
CallLogoutOffline(c) ==
  /\ MayCall(c)
  /\ Owner!Peek = NoClient
  /\ call' = [call EXCEPT ![c] = "logoutEnding"]
  /\ logouts' = logouts \cup {c}
  /\ fallback' = IF Reporter!HasReported THEN fallback ELSE fallback \cup {c}
  /\ End(c)
  /\ UNCHANGED <<reporterVars, initVars, wsVars, storeVars, teardown, release>>

(* live.logout() settled, either way: mayNeedFallback is decided and end() *)
(* is called.                                                              *)
LogoutSettles(c) ==
  /\ call[c] = "loggingOut"
  /\ call' = [call EXCEPT ![c] = "logoutEnding"]
  /\ fallback' = IF Reporter!HasReported THEN fallback \ {c} ELSE fallback
  /\ End(c)
  /\ UNCHANGED <<logouts, reporterVars, initVars, wsVars, storeVars, teardown, release>>

AfterLogoutEnd(c) ==
  IF EndOutcome(c) = "rejected" THEN "rejected"
  ELSE IF RunningEndHandlers THEN "returned" ELSE "awaitingClose"

(* Mutant: a logout the engine did not announce reports no close. *)
BugLogoutEnds(c) ==
  /\ call[c] = "logoutEnding"
  /\ EndAnswered(c)
  /\ call' = [call EXCEPT ![c] = AfterLogoutEnd(c)]
  /\ UNCHANGED <<joined, logouts, fallback, ownerVars, reporterVars, initVars, wsVars,
                 storeVars, teardown, release>>

(* end() settled: the close nobody else claimed is reported, and logout()  *)
(* goes on to wait for the publish, unless the end handlers are running.   *)
LogoutEnds(c) ==
  /\ call[c] = "logoutEnding"
  /\ EndAnswered(c)
  /\ IF c \in fallback THEN Reporter!ReportNow ELSE UNCHANGED reporterVars
  /\ call' = [call EXCEPT ![c] = AfterLogoutEnd(c)]
  /\ UNCHANGED <<joined, logouts, fallback, ownerVars, initVars, wsVars, storeVars,
                 teardown, release>>

(* `await terminalClose.published()` *)
LogoutReturns(c) ==
  /\ call[c] = "awaitingClose"
  /\ published # "pending"
  /\ call' = [call EXCEPT ![c] = "returned"]
  /\ UNCHANGED <<joined, logouts, fallback, ownerVars, reporterVars, initVars, wsVars,
                 storeVars, teardown, release>>

(* Mutant: the failure of a handler is not caught. *)
BugHandlerFinishes(h, how) ==
  /\ HandlerTurn(h)
  /\ call[h] = "idle"
  /\ call' = [call EXCEPT ![h] = "thrown"]
  /\ UNCHANGED <<joined, logouts, fallback, ownerVars, reporterVars, initVars,
                 wsVars, storeVars, teardown, release>>

(* A handler that does neither: it finishes, or it never does. *)
HandlerFinishes(h, how) ==
  /\ HandlerTurn(h)
  /\ call[h] = "idle"
  /\ call' = [call EXCEPT ![h] = how]
  /\ UNCHANGED <<joined, logouts, fallback, ownerVars, reporterVars, initVars, wsVars,
                 storeVars, teardown, release>>

-----------------------------------------------------------------------------
InitStep ==
  \/ InitCreated
  \/ InitRefused
  \/ InitRefusedJoined
  \/ InitConfigured
  \/ InitFails
  \/ InitFailureJoined

WsStep == WsRuns \/ \E ok \in BOOLEAN : WsDisconnected(ok)

TeardownStep ==
  \/ TeardownStarts
  \/ TeardownResumes
  \/ \E ok \in BOOLEAN : TeardownDisconnects(ok)
  \/ TeardownBarrier
  \/ \E ok \in BOOLEAN : TeardownFlushes(ok)
  \/ TeardownHandlersDone
  \/ TeardownSettles
  \/ CloseReleased
  \/ CloseSettles

ReleaseStep ==
  \/ \E ok \in BOOLEAN : ReleaseDisconnected(ok)
  \/ ReleaseBarrier
  \/ \E ok \in BOOLEAN : ReleaseFlushes(ok)
  \/ ReleaseFrees

(* A call goes on. *)
CallStep(c) ==
  \/ EndReturns(c)
  \/ LogoutSettles(c)
  \/ LogoutEnds(c)
  \/ LogoutReturns(c)

(* A call is made, or a handler that makes none runs. *)
CallStarts(c) ==
  \/ CallEnd(c)
  \/ CallLogout(c)
  \/ CallLogoutOffline(c)
  \/ \E how \in {"returned", "hung"} : HandlerFinishes(c, how)

Next ==
  \/ InitStep
  \/ EngineTerminal
  \/ RunCompletes
  \/ WatchdogFires
  \/ ReportFinishes
  \/ UserWsClose
  \/ UserWsConnect
  \/ WsStep
  \/ WritesLand
  \/ TeardownStep
  \/ ReleaseStep
  \/ \E c \in Callers : CallStep(c) \/ CallStarts(c)

(***************************************************************************)
(* Promises settle and continuations run: init(), the transport, teardown, *)
(* release, the reporter's timer and the calls in progress are weakly      *)
(* fair, and teardown invokes every handler.  Nobody outside is obliged to *)
(* call, the engine to announce anything, or an invoked handler to return. *)
(***************************************************************************)
Fairness ==
  /\ WF_vars(InitStep)
  /\ WF_vars(WsStep)
  /\ WF_vars(WritesLand)
  /\ WF_vars(TeardownStep)
  /\ WF_vars(ReleaseStep)
  /\ WF_vars(ReportFinishes)
  /\ WF_vars(WatchdogFires)
  /\ \A c \in Callers : WF_vars(CallStep(c))
  /\ \A h \in Handlers : WF_vars(CallStarts(h))

Spec == Init /\ [][Next]_vars

FairSpec == Spec /\ Fairness

-----------------------------------------------------------------------------
(* The client is never freed while a disconnect() of it is in flight, the  *)
(* one shape that aborts the process (core.ts, release): neither one the   *)
(* user started through ws.close() nor teardown's own.                     *)
NoFreeDuringDisconnect ==
  release = "freed" => wsCall # "disconnecting" /\ teardown # "direct"

(* Nothing of this socket is left: no client it built is unreleased and    *)
(* none can still appear.                                                  *)
FullyReleased == CloseSettled /\ release \in {"none", "freed"} /\ Owner!Peek = NoClient

(* What end() and logout() promise with their answer (core.ts, end and     *)
(* logout).  The ratchet writes of whichever disconnect() took effect, the *)
(* transport's, teardown's or release's, are on disk, unless the flush     *)
(* after the last disconnect failed, which is only logged.  A call that    *)
(* joined the close settles only when the socket is fully released, also   *)
(* when the close overtook a createWhatsAppClient() in flight: a           *)
(* replacement socket does not overlap it.  A logout() that joined and     *)
(* resolved has had its close published, whoever reported it: dispatcher,  *)
(* failed init() or fallback.                                              *)
SettledMeansDone ==
  /\ done = "resolved" => writes = "none" \/ (writes = "dirty" /\ lateFlushFailed)
  /\ \A c \in joined : call[c] \in {"returned", "rejected", "awaitingClose"} => FullyReleased
  /\ \A c \in joined \cap logouts : call[c] = "returned" => deliveries = 1

(* The close of a socket is published once, and one that a reportAfter()   *)
(* claimed only when the socket is fully released, except by the watchdog  *)
(* (terminal-close-reporter.ts, header).                                   *)
OneCloseAfterRelease ==
  /\ Reporter!AtMostOneClose
  /\ claim = "after" /\ deliveries > 0 /\ watchdog # "fired" => FullyReleased

(* A claimed close is published, even when teardown never ends. *)
CloseIsPublished == (claim # "none") ~> (deliveries = 1)

HandlerHung == \E h \in Handlers : call[h] = "hung"

(* Every end() and logout() answers, also one made from an end handler,    *)
(* from init()'s failure path or during one another, unless an end handler *)
(* of the consumer never returns: no promise waits for itself.             *)
CallsAnswered ==
  \A c \in Callers :
    (call[c] \notin {"idle", "hung"}) ~> (call[c] \in {"returned", "rejected"} \/ HandlerHung)

(* The composition uses the owner as its specification allows: ...         *)
RefinesOwner == Owner!Spec

(* ... and it drives the owner as the owner assumes, with both callbacks   *)
(* settling, unless an end handler of the consumer never returns.          *)
ImplementsOwner == RefinesOwner /\ ([]~HandlerHung => Owner!Fairness)

(* end() answers a caller outside the end handlers, of a socket that has   *)
(* had a client, only when the socket is fully released: "idempotent       *)
(* shutdown that later callers can actually await" (core.ts, comment above *)
(* logout).                                                                *)
EndMeansReleased ==
  \A c \in Outside \ logouts :
    adopted # {} /\ call[c] \in {"returned", "rejected"} => FullyReleased
=============================================================================
