------------------------ MODULE SocketLifecycleProofs ------------------------
(***************************************************************************)
(* Safety of a socket's life, for any number of callers and end handlers.  *)
(* The socket uses the owner as its specification allows, so the owner's   *)
(* invariant holds of it; the rest ties the callbacks the socket supplies, *)
(* init() and the transport to that invariant.                             *)
(***************************************************************************)
EXTENDS SocketLifecycle, TLAPS

OwnerProofs == INSTANCE ClientOwnerProofs
           WITH Clients <- {Client}, NoClient <- NoClient,
                phase <- phase, held <- held, closer <- closer,
                captured <- captured, teardownOk <- teardownOk, done <- done,
                offered <- offered, adopted <- adopted, releasing <- releasing,
                releaseCalls <- releaseCalls, tracked <- tracked

(* The release callback runs when the owner says it does. *)
ReleaseMatches ==
  /\ release = "none" <=> releasing[Client] = "none"
  /\ release = "freed" <=> releasing[Client] = "finished"

(* So does the teardown callback, which disconnects what was captured. *)
TeardownMatches ==
  /\ closer \in {"idle", "scheduled"} => teardown = "idle"
  /\ closer = "teardown" => teardown # "idle"
  /\ closer \in {"release", "drain", "settled"} => teardown = "settled"
  /\ teardown = "direct" => captured # NoClient
  /\ closer \in {"release", "drain", "settled"} => (teardownOk <=> ~flushFailed)
  /\ done = "resolved" => ~flushFailed

(* Nobody discards the client: a close captures what was adopted.          *)
AdoptedIsCaptured ==
  /\ adopted # {} => phase = "running" \/ captured = Client
  /\ init = "configuring" => adopted # {}
  /\ running => adopted # {}

(* A client the owner refused is released before init() settles. *)
RefusalIsJoined ==
  /\ init = "probing" => Owner!IsClosing
  /\ captured = NoClient /\ release # "none" => init \in {"refused", "settled"}
  /\ captured = NoClient /\ init = "settled" => release \in {"none", "freed"}

(* The reporter's timer and promise, and what it waits for. *)
ReportMatches ==
  /\ claim = "none" => published = "none" /\ deliveries = 0
  /\ claim = "now" => published = "resolved"
  /\ claim = "after" => published # "none"
  /\ published = "pending" => deliveries = 0
  /\ published = "resolved" => deliveries = 1
  /\ claim = "after" /\ published = "resolved" => watchdog = "fired" \/ CloseSettled

Answered(c) == call[c] \in {"returned", "rejected", "awaitingClose"}

(* A call that joined the close is answered after it, and a logout() that  *)
(* waits for the publish knows that somebody claimed it.                   *)
CallsMatch ==
  /\ \A c \in joined : call[c] \in {"ending", "logoutEnding"} \/ (Answered(c) /\ CloseSettled)
  /\ \A c \in logouts : call[c] \in {"loggingOut", "logoutEnding"} \/ Answered(c)
  /\ \A c \in Callers : call[c] \in {"loggingOut", "logoutEnding"} => c \in logouts
  /\ \A c \in logouts \ fallback : claim # "none"
  /\ \A c \in Callers : call[c] = "awaitingClose" => claim # "none"
  /\ \A c \in joined \cap logouts : call[c] = "returned" => deliveries = 1

IInv ==
  /\ TypeOK
  /\ OwnerProofs!OwnerIInv
  /\ ReleaseMatches
  /\ TeardownMatches
  /\ AdoptedIsCaptured
  /\ RefusalIsJoined
  /\ ReportMatches
  /\ CallsMatch

(* Without a ws.connect() during a close, a transport that teardown has    *)
(* seen closed stays closed.                                               *)
TransportStaysClosed ==
  /\ ws = "closing" <=> wsCall # "none"
  /\ teardown = "ws" => ws = "closing"
  /\ teardown \notin {"idle", "ws"} => ws = "closed"
  /\ wsCall = "disconnecting" => Owner!Peek # NoClient

Persisted == writes = "none" \/ (writes = "dirty" /\ lateFlushFailed)

(* Where the ratchet writes are at every await of teardown and release. *)
WritesReachDisk ==
  /\ adopted = {} => ~link /\ writes = "none"
  /\ teardown = "flush" => writes # "queued"
  /\ teardown \in {"handlers", "settled"} /\ ~flushFailed =>
       /\ release \in {"none", "disconnecting"} => writes = "none"
       /\ release = "flush" => writes # "queued"
       /\ release \in {"free", "freed"} => Persisted

QuietInv == TransportStaysClosed /\ WritesReachDisk

-----------------------------------------------------------------------------
(* The owner *)

(* The socket starts with a fresh owner. *)
LEMMA OwnerStarts == Init => Owner!Init /\ OwnerProofs!Init
BY DEF Init, Owner!Init, OwnerProofs!Init

(* owner.close() is a close of the owner's or nothing. *)
LEMMA OwnerCloseSteps ==
  OwnerClose => Owner!Close \/ UNCHANGED ownerVars
BY DEF OwnerClose

(* So are the reports and the calls that may start a close. *)
LEMMA ReportCloseSteps ==
  ReportTerminalClose => Owner!Close \/ UNCHANGED ownerVars
BY OwnerCloseSteps DEF ReportTerminalClose

LEMMA EndCloseSteps ==
  ASSUME NEW c, End(c)
  PROVE  Owner!Close \/ UNCHANGED ownerVars
BY OwnerCloseSteps DEF End

(* What a step of the socket is for its owner: adopt(), close(), a step of *)
(* runClose(), the end of a release, or nothing.                           *)
OwnerDoes ==
  \/ Owner!Adopt(Client)
  \/ Owner!Close
  \/ Owner!RunClose
  \/ teardown = "settled" /\ Owner!TeardownSettles(~flushFailed)
  \/ Owner!ReleaseSettles(Client)
  \/ Owner!CloseReleased
  \/ Owner!CloseSettles
  \/ UNCHANGED ownerVars

(* Every step of the socket is one. *)
LEMMA OwnerStep == [Next]_vars => OwnerDoes
<1> SUFFICES ASSUME [Next]_vars PROVE OwnerDoes
  OBVIOUS
<1> USE OwnerCloseSteps, ReportCloseSteps, EndCloseSteps DEF OwnerDoes
<1>1. CASE InitStep
  BY <1>1 DEF InitStep, InitCreated, InitRefused, InitRefusedJoined, InitConfigured,
              InitFails, InitFailureJoined
<1>2. CASE EngineTerminal \/ RunCompletes \/ WatchdogFires \/ ReportFinishes
  BY <1>2 DEF EngineTerminal, RunCompletes, WatchdogFires, ReportFinishes
<1>3. CASE UserWsClose \/ UserWsConnect \/ WsStep \/ WritesLand
  BY <1>3 DEF UserWsClose, UserWsConnect, WsStep, WsRuns, WsDisconnected, WritesLand
<1>4. CASE TeardownStep
  BY <1>4 DEF TeardownStep, TeardownStarts, TeardownResumes, TeardownDisconnects,
              TeardownBarrier, TeardownFlushes, TeardownHandlersDone, TeardownSettles,
              CloseReleased, CloseSettles
<1>5. CASE ReleaseStep
  BY <1>5 DEF ReleaseStep, ReleaseDisconnected, ReleaseBarrier, ReleaseFlushes, ReleaseFrees
<1>6. ASSUME NEW c \in Callers, CallStep(c) \/ CallStarts(c) PROVE OwnerDoes
  BY <1>6 DEF CallStep, CallStarts, EndReturns, LogoutSettles, LogoutEnds, LogoutReturns,
              CallEnd, CallLogout, CallLogoutOffline, HandlerFinishes
<1>7. CASE UNCHANGED vars
  BY <1>7 DEF vars
<1> QED
  BY <1>1, <1>2, <1>3, <1>4, <1>5, <1>6, <1>7 DEF Next

(* Each of these is a step its specification allows, ... *)
LEMMA OwnerAllows == OwnerDoes => [Owner!Next]_(Owner!vars)
BY LifecycleAssumption DEF OwnerDoes, Owner!Next, Owner!vars, ownerVars

(* ... in the module of its proofs too. *)
LEMMA OwnerAllowsProofs == [Owner!Next]_(Owner!vars) => [OwnerProofs!Next]_(OwnerProofs!vars)
BY DEF Owner!Next, Owner!vars, OwnerProofs!Next, OwnerProofs!vars,
       Owner!Adopt, Owner!AdoptPublishes, Owner!AdoptRefuses, Owner!Close, Owner!RunClose,
       Owner!TeardownSettles, Owner!ReleaseSettles, Owner!CloseReleased,
       Owner!CloseSettles, Owner!Discard, Owner!NoRelease, Owner!TrackRelease,
       Owner!CallRelease, Owner!IsClosing, Owner!Peek,
       OwnerProofs!Adopt, OwnerProofs!AdoptPublishes, OwnerProofs!AdoptRefuses,
       OwnerProofs!Close, OwnerProofs!RunClose, OwnerProofs!TeardownSettles,
       OwnerProofs!ReleaseSettles, OwnerProofs!CloseReleased, OwnerProofs!CloseSettles,
       OwnerProofs!Discard, OwnerProofs!NoRelease, OwnerProofs!TrackRelease,
       OwnerProofs!CallRelease, OwnerProofs!IsClosing, OwnerProofs!Peek

(* The owner's invariant. *)
LEMMA OwnerKeeps == OwnerProofs!OwnerIInv /\ [Next]_vars => OwnerProofs!OwnerIInv'
BY OwnerStep, OwnerAllows, OwnerAllowsProofs, OwnerProofs!NextOwnerIInv, LifecycleAssumption

(* The socket uses its owner as the safety part of the owner's             *)
(* specification allows: it offers a client once, and its callbacks settle *)
(* once per call.                                                          *)
THEOREM OwnerRefined == Spec => RefinesOwner
<1>1. Init => Owner!Init
  BY OwnerStarts
<1>2. [Next]_vars => [Owner!Next]_(Owner!vars)
  BY OwnerStep, OwnerAllows
<1> QED
  BY <1>1, <1>2, PTL DEF Spec, RefinesOwner, Owner!Spec

(* What the owner's invariant says of an owner of one client. *)
OwnerFacts ==
  /\ phase \in {"starting", "running", "closing", "closed"}
  /\ closer \in {"idle", "scheduled", "teardown", "release", "drain", "settled"}
  /\ done \in {"none", "pending", "resolved", "rejected"}
  /\ held \in {Client, NoClient} /\ captured \in {Client, NoClient}
  /\ offered \subseteq {Client} /\ adopted \subseteq offered
  /\ DOMAIN releasing = {Client}
  /\ releasing[Client] \in {"none", "running", "finished"}
  /\ phase \in {"starting", "running"} <=> closer = "idle"
  /\ phase = "closing" <=> closer \in {"scheduled", "teardown"}
  /\ done \in {"resolved", "rejected"} <=> closer = "settled"
  /\ phase \in {"starting", "closed"} => held = NoClient
  /\ phase = "running" => held = Client
  /\ phase = "closing" => held = captured
  /\ closer = "idle" => captured = NoClient
  /\ held = Client => adopted = {Client} /\ releasing[Client] = "none"
  /\ captured = Client => adopted = {Client}
  /\ Client \notin offered => releasing[Client] = "none"
  /\ releasing[Client] = "running" => Client \in tracked \/ captured = Client
  /\ closer \in {"drain", "settled"} => captured = NoClient \/ releasing[Client] = "finished"

LEMMA OwnerKnown == OwnerProofs!OwnerIInv => OwnerFacts
BY LifecycleAssumption
   DEF OwnerProofs!OwnerIInv, OwnerProofs!TypeOK, OwnerProofs!PhaseMatchesCloser,
       OwnerProofs!HeldMatchesPhase, OwnerProofs!ReleasesMatch,
       OwnerProofs!RunningIsAwaited, OwnerFacts

(* An owner that closes never stops closing. *)
LEMMA ClosingIsForever ==
  ASSUME OwnerFacts, OwnerDoes
  PROVE  /\ Owner!IsClosing => Owner!IsClosing'
         /\ closer = "settled" => closer' = "settled" /\ done' = done
BY DEF OwnerFacts, OwnerDoes, ownerVars, Owner!IsClosing, Owner!Adopt, Owner!AdoptPublishes,
       Owner!AdoptRefuses, Owner!Close, Owner!RunClose, Owner!TeardownSettles,
       Owner!ReleaseSettles, Owner!CloseReleased, Owner!CloseSettles, Owner!NoRelease

-----------------------------------------------------------------------------
(* The callbacks, init() and the transport *)

(* Every variable is untouched. *)
LEMMA StutterUnchanged ==
  UNCHANGED vars =>
    UNCHANGED <<phase, held, closer, captured, teardownOk, done, offered, adopted,
                releasing, releaseCalls, tracked, claim, watchdog, awaiting, published,
                deliveries, init, running, ws, wsCall, wsOk, reopened, link, writes,
                flushFailed, lateFlushFailed, call, joined, logouts, fallback,
                teardown, release>>
BY DEF vars, ownerVars, reporterVars, initVars, wsVars, storeVars, callVars

(* Only init() and the end of a run change how far init() has come. *)
LEMMA OutsideInit ==
  ASSUME [Next]_vars, ~InitStep, ~RunCompletes
  PROVE  UNCHANGED <<init, running>>
BY StutterUnchanged DEF Next, initVars, EngineTerminal, WatchdogFires,
   ReportFinishes, UserWsClose, UserWsConnect, WsStep, WsRuns, WsDisconnected, WritesLand,
   TeardownStep, TeardownStarts, TeardownResumes, TeardownDisconnects, TeardownBarrier,
   TeardownFlushes, TeardownHandlersDone, TeardownSettles, CloseReleased, CloseSettles,
   ReleaseStep, ReleaseDisconnected, ReleaseBarrier, ReleaseFlushes, ReleaseFrees,
   CallStep, CallStarts, EndReturns, LogoutSettles, LogoutEnds, LogoutReturns,
   CallEnd, CallLogout, CallLogoutOffline, HandlerFinishes

(* The steps that call, run or end a release are the only ones that change *)
(* the state of one, here and in the owner.                                *)
LEMMA ReleaseKeeps ==
  ASSUME OwnerFacts, ReleaseMatches, RefusalIsJoined, [Next]_vars
  PROVE  ReleaseMatches'
<1> USE DEF ReleaseMatches, OwnerFacts
<1>1. CASE InitCreated
  BY <1>1 DEF InitCreated, Owner!IsClosing, Owner!Adopt, Owner!AdoptPublishes,
       Owner!AdoptRefuses, Owner!NoRelease, ownerVars
<1>2. CASE InitRefused
  BY <1>2 DEF InitRefused, RefusalIsJoined, Owner!IsClosing, Owner!Adopt, Owner!AdoptPublishes,
       Owner!AdoptRefuses, Owner!TrackRelease, Owner!CallRelease
<1>3. CASE TeardownSettles
  BY <1>3 DEF TeardownSettles, Owner!TeardownSettles, Owner!CallRelease, Owner!NoRelease
<1>4. CASE ReleaseStep
  BY <1>4 DEF ReleaseStep, ReleaseDisconnected, ReleaseBarrier, ReleaseFlushes, ReleaseFrees,
       Owner!ReleaseSettles, ownerVars
<1>5. CASE InitRefusedJoined \/ InitConfigured \/ InitFails \/ InitFailureJoined
  BY <1>5, ReportCloseSteps DEF InitRefusedJoined, InitConfigured, InitFails, InitFailureJoined,
       Owner!Close, Owner!NoRelease, ownerVars
<1>6. CASE EngineTerminal \/ RunCompletes \/ WatchdogFires \/ ReportFinishes
  BY <1>6, ReportCloseSteps DEF EngineTerminal, RunCompletes, WatchdogFires, ReportFinishes,
       Owner!Close, Owner!NoRelease, ownerVars
<1>7. CASE UserWsClose \/ UserWsConnect \/ WsStep \/ WritesLand
  BY <1>7 DEF UserWsClose, UserWsConnect, WsStep, WsRuns, WsDisconnected, WritesLand, ownerVars
<1>8. CASE TeardownStep /\ ~TeardownSettles
  BY <1>8 DEF TeardownStep, TeardownStarts, TeardownResumes, TeardownDisconnects,
       TeardownBarrier, TeardownFlushes, TeardownHandlersDone, CloseReleased, CloseSettles,
       Owner!RunClose, Owner!CloseReleased, Owner!CloseSettles, Owner!NoRelease, ownerVars
<1>9. ASSUME NEW c \in Callers, CallStep(c) \/ CallStarts(c) PROVE ReleaseMatches'
  BY <1>9, EndCloseSteps DEF CallStep, CallStarts, EndReturns, LogoutSettles, LogoutEnds,
       LogoutReturns, CallEnd, CallLogout, CallLogoutOffline, HandlerFinishes,
       Owner!Close, Owner!NoRelease, ownerVars
<1>10. CASE UNCHANGED vars
  BY <1>10, StutterUnchanged
<1> QED
  BY <1>1, <1>2, <1>3, <1>4, <1>5, <1>6, <1>7, <1>8, <1>9, <1>10 DEF Next, InitStep

(* The steps that touch neither the teardown nor what the owner keeps of   *)
(* the close: all but those of runClose() and the callers of close().      *)
CloseVars == <<closer, captured, teardownOk, done, flushFailed, teardown>>

LEMMA OutsideTheClose ==
  ASSUME [Next]_vars, ~TeardownStep, ~WsStep
  PROVE  (Owner!Close /\ UNCHANGED <<flushFailed, teardown>>) \/ UNCHANGED CloseVars
<1> USE DEF CloseVars, ownerVars, storeVars
<1>1. CASE InitStep
  BY <1>1, ReportCloseSteps DEF InitStep, InitCreated, InitRefused, InitRefusedJoined,
       InitConfigured, InitFails, InitFailureJoined, Owner!Adopt
<1>2. CASE EngineTerminal \/ RunCompletes \/ WatchdogFires \/ ReportFinishes
  BY <1>2, ReportCloseSteps DEF EngineTerminal, RunCompletes, WatchdogFires, ReportFinishes
<1>3. CASE UserWsClose \/ UserWsConnect \/ WritesLand
  BY <1>3 DEF UserWsClose, UserWsConnect, WritesLand
<1>4. CASE ReleaseStep
  BY <1>4 DEF ReleaseStep, ReleaseDisconnected, ReleaseBarrier, ReleaseFlushes, ReleaseFrees,
       Owner!ReleaseSettles
<1>5. ASSUME NEW c \in Callers, CallStep(c) \/ CallStarts(c)
      PROVE  (Owner!Close /\ UNCHANGED <<flushFailed, teardown>>) \/ UNCHANGED CloseVars
  BY <1>5, EndCloseSteps DEF CallStep, CallStarts, EndReturns, LogoutSettles, LogoutEnds,
       LogoutReturns, CallEnd, CallLogout, CallLogoutOffline, HandlerFinishes
<1>6. CASE UNCHANGED vars
  BY <1>6, StutterUnchanged
<1> QED
  BY <1>1, <1>2, <1>3, <1>4, <1>5, <1>6 DEF Next

(* Teardown runs while the owner awaits it. *)
LEMMA TeardownKeeps ==
  ASSUME OwnerFacts, TeardownMatches, [Next]_vars
  PROVE  TeardownMatches'
<1> USE DEF TeardownMatches, OwnerFacts
<1>1. CASE TeardownStarts
  BY <1>1 DEF TeardownStarts, Owner!RunClose, storeVars
<1>2. CASE TeardownResumes \/ TeardownBarrier \/ TeardownHandlersDone
  BY <1>2 DEF TeardownResumes, TeardownBarrier, TeardownHandlersDone, RunningEndHandlers,
       ownerVars, storeVars
<1>3. ASSUME NEW ok \in BOOLEAN, TeardownDisconnects(ok) \/ TeardownFlushes(ok)
      PROVE  TeardownMatches'
  BY <1>3 DEF TeardownDisconnects, TeardownFlushes, ownerVars
<1>4. CASE TeardownSettles
  BY <1>4 DEF TeardownSettles, Owner!TeardownSettles, storeVars
<1>5. CASE CloseReleased \/ CloseSettles
  BY <1>5 DEF CloseReleased, CloseSettles, Owner!CloseReleased, Owner!CloseSettles, storeVars
<1>6. CASE WsStep
  BY <1>6 DEF WsStep, WsRuns, WsDisconnected, WsFinishes, ownerVars, storeVars
<1>7. CASE ~TeardownStep /\ ~WsStep
  <2>1. CASE Owner!Close /\ UNCHANGED <<flushFailed, teardown>>
    BY <2>1 DEF Owner!Close, Owner!IsClosing
  <2>2. CASE UNCHANGED CloseVars
    BY <2>2 DEF CloseVars
  <2> QED
    BY <1>7, <2>1, <2>2, OutsideTheClose
<1> QED
  BY <1>1, <1>2, <1>3, <1>4, <1>5, <1>6, <1>7 DEF TeardownStep

(* A close captures the client that was adopted. *)
LEMMA AdoptedKeeps ==
  ASSUME OwnerFacts, AdoptedIsCaptured, [Next]_vars
  PROVE  AdoptedIsCaptured'
<1> USE LifecycleAssumption DEF AdoptedIsCaptured, OwnerFacts
<1>1. adopted # {} => adopted' # {} /\ (phase' = "running" \/ captured' = Client)
  BY OwnerStep DEF OwnerDoes, ownerVars, Owner!Adopt, Owner!AdoptPublishes,
       Owner!AdoptRefuses, Owner!Close, Owner!Peek, Owner!IsClosing, Owner!RunClose,
       Owner!TeardownSettles, Owner!ReleaseSettles, Owner!CloseReleased, Owner!CloseSettles
<1>2. adopted = {} => adopted' = {} \/ phase' = "running"
  BY OwnerStep DEF OwnerDoes, ownerVars, Owner!Adopt, Owner!AdoptPublishes,
       Owner!AdoptRefuses, Owner!Close, Owner!RunClose,
       Owner!TeardownSettles, Owner!ReleaseSettles, Owner!CloseReleased, Owner!CloseSettles
<1>3. CASE InitCreated
  BY <1>1, <1>2, <1>3 DEF InitCreated, Owner!IsClosing, Owner!Adopt, Owner!AdoptPublishes,
       Owner!AdoptRefuses, ownerVars
<1>4. CASE InitConfigured
  BY <1>1, <1>2, <1>4 DEF InitConfigured, ownerVars
<1>5. CASE InitStep /\ ~InitCreated /\ ~InitConfigured
  BY <1>1, <1>2, <1>5 DEF InitStep, InitRefused, InitRefusedJoined, InitFails, InitFailureJoined
<1>6. CASE RunCompletes
  BY <1>1, <1>2, <1>6 DEF RunCompletes
<1>7. CASE ~InitStep /\ ~RunCompletes
  BY <1>1, <1>2, <1>7, OutsideInit
<1> QED
  BY <1>3, <1>4, <1>5, <1>6, <1>7

(* The close has settled with init() for good. *)
LEMMA SettledIsForever ==
  ASSUME OwnerFacts, [Next]_vars, CloseSettled
  PROVE  CloseSettled'
<1>1. closer' = "settled" /\ done' = done
  BY OwnerStep, ClosingIsForever DEF OwnerFacts, CloseSettled
<1>2. CASE InitStep
  BY <1>2 DEF CloseSettled, InitSettled, InitStep, InitCreated, InitRefused, InitRefusedJoined,
       InitConfigured, InitFails, InitFailureJoined
<1>3. CASE RunCompletes
  BY <1>1, <1>3 DEF CloseSettled, InitSettled, RunCompletes
<1>4. CASE ~InitStep /\ ~RunCompletes
  BY <1>1, <1>4, OutsideInit DEF CloseSettled, InitSettled
<1> QED
  BY <1>2, <1>3, <1>4

(* A release is called by init() or runClose(). *)
LEMMA OutsideRelease ==
  ASSUME [Next]_vars, ~InitStep, ~TeardownSettles, ~ReleaseStep
  PROVE  UNCHANGED release
BY StutterUnchanged DEF Next, EngineTerminal, RunCompletes, WatchdogFires,
   ReportFinishes, UserWsClose, UserWsConnect, WsStep, WsRuns, WsDisconnected, WritesLand,
   TeardownStep, TeardownStarts, TeardownResumes, TeardownDisconnects, TeardownBarrier,
   TeardownFlushes, TeardownHandlersDone, CloseReleased, CloseSettles,
   CallStep, CallStarts, EndReturns, LogoutSettles, LogoutEnds, LogoutReturns,
   CallEnd, CallLogout, CallLogoutOffline, HandlerFinishes

(* init() waits for the release of a client it was refused. *)
LEMMA RefusalKeeps ==
  ASSUME OwnerFacts, ReleaseMatches, RefusalIsJoined, [Next]_vars
  PROVE  RefusalIsJoined'
<1> USE LifecycleAssumption DEF RefusalIsJoined
<1>1. Owner!IsClosing => Owner!IsClosing'
  BY OwnerStep, ClosingIsForever
<1>2. captured' = NoClient => captured = NoClient
  BY OwnerStep DEF OwnerFacts, OwnerDoes, ownerVars, Owner!Adopt, Owner!Close, Owner!RunClose,
       Owner!IsClosing, Owner!TeardownSettles, Owner!ReleaseSettles, Owner!CloseReleased,
       Owner!CloseSettles
<1>3. CASE InitCreated
  BY <1>1, <1>2, <1>3 DEF InitCreated, ownerVars, Owner!IsClosing
<1>4. CASE InitRefused
  BY <1>1, <1>2, <1>4 DEF InitRefused
<1>5. CASE InitRefusedJoined
  BY <1>1, <1>2, <1>5 DEF InitRefusedJoined, OwnerFacts, ReleaseMatches
<1>6. CASE InitConfigured \/ InitFails \/ InitFailureJoined
  BY <1>1, <1>2, <1>6 DEF InitConfigured, InitFails, InitFailureJoined
<1>7. CASE RunCompletes
  BY <1>1, <1>2, <1>7 DEF RunCompletes
<1>8. CASE TeardownSettles
  BY <1>1, <1>2, <1>8 DEF TeardownSettles, Owner!TeardownSettles, initVars
<1>9. CASE ReleaseStep
  BY <1>1, <1>2, <1>9 DEF ReleaseStep, ReleaseDisconnected, ReleaseBarrier, ReleaseFlushes,
       ReleaseFrees, initVars
<1>10. CASE ~InitStep /\ ~RunCompletes /\ ~TeardownSettles /\ ~ReleaseStep
  BY <1>1, <1>2, <1>10, OutsideInit, OutsideRelease
<1> QED
  BY <1>3, <1>4, <1>5, <1>6, <1>7, <1>8, <1>9, <1>10 DEF InitStep

-----------------------------------------------------------------------------
(* The answers *)

(* What a step of the socket is for the reporter. *)
ReporterDoes ==
  \/ Reporter!ReportNow
  \/ Reporter!ReportAfter
  \/ Reporter!WatchdogFires
  \/ CloseSettled /\ Reporter!ReportFinishes
  \/ UNCHANGED reporterVars

(* Every step is one. *)
LEMMA ReporterStep == [Next]_vars => ReporterDoes
<1> SUFFICES ASSUME [Next]_vars PROVE ReporterDoes
  OBVIOUS
<1> USE DEF ReporterDoes
<1>1. CASE InitStep
  BY <1>1 DEF InitStep, InitCreated, InitRefused, InitRefusedJoined, InitConfigured,
              InitFails, InitFailureJoined, ReportTerminalClose
<1>2. CASE EngineTerminal \/ RunCompletes \/ WatchdogFires \/ ReportFinishes
  BY <1>2 DEF EngineTerminal, RunCompletes, WatchdogFires, ReportFinishes, ReportTerminalClose
<1>3. CASE UserWsClose \/ UserWsConnect \/ WsStep \/ WritesLand
  BY <1>3 DEF UserWsClose, UserWsConnect, WsStep, WsRuns, WsDisconnected, WritesLand
<1>4. CASE TeardownStep
  BY <1>4 DEF TeardownStep, TeardownStarts, TeardownResumes, TeardownDisconnects,
              TeardownBarrier, TeardownFlushes, TeardownHandlersDone, TeardownSettles,
              CloseReleased, CloseSettles
<1>5. CASE ReleaseStep
  BY <1>5 DEF ReleaseStep, ReleaseDisconnected, ReleaseBarrier, ReleaseFlushes, ReleaseFrees
<1>6. ASSUME NEW c \in Callers, CallStep(c) \/ CallStarts(c) PROVE ReporterDoes
  BY <1>6 DEF CallStep, CallStarts, EndReturns, LogoutSettles, LogoutEnds, LogoutReturns,
              CallEnd, CallLogout, CallLogoutOffline, HandlerFinishes
<1>7. CASE UNCHANGED vars
  BY <1>7, StutterUnchanged DEF reporterVars
<1> QED
  BY <1>1, <1>2, <1>3, <1>4, <1>5, <1>6, <1>7 DEF Next

(* A claim and a delivery are never taken back. *)
LEMMA ReportsOnlyGrow ==
  ASSUME ReportMatches, ReporterDoes
  PROVE  /\ claim # "none" => claim' # "none"
         /\ deliveries = 1 => deliveries' = 1
BY DEF ReportMatches, ReporterDoes, Reporter!ReportNow, Reporter!ReportAfter,
   Reporter!WatchdogFires, Reporter!ReportFinishes, Reporter!PublishOnce,
   Reporter!HasReported, Reporter!reporterVars, reporterVars

(* The reporter publishes once: at once, by its timer, or after the close. *)
LEMMA ReportKeeps ==
  ASSUME OwnerFacts, ReportMatches, Reporter!ReporterTypeOK, [Next]_vars
  PROVE  ReportMatches'
<1> USE DEF ReportMatches, Reporter!ReporterTypeOK
<1>1. CloseSettled => CloseSettled'
  BY SettledIsForever
<1>2. CASE Reporter!ReportAfter
  BY <1>1, <1>2 DEF Reporter!ReportAfter, Reporter!HasReported, Reporter!reporterVars
<1>3. CASE Reporter!ReportNow
  BY <1>1, <1>3 DEF Reporter!ReportNow, Reporter!HasReported, Reporter!reporterVars
<1>4. CASE Reporter!WatchdogFires
  BY <1>1, <1>4 DEF Reporter!WatchdogFires, Reporter!PublishOnce
<1>5. CASE CloseSettled /\ Reporter!ReportFinishes
  BY <1>1, <1>5 DEF Reporter!ReportFinishes, Reporter!PublishOnce
<1>6. CASE UNCHANGED reporterVars
  BY <1>1, <1>6 DEF reporterVars
<1> QED
  BY <1>2, <1>3, <1>4, <1>5, <1>6, ReporterStep DEF ReporterDoes

(* A step that is no call's leaves the calls alone. *)
LEMMA OutsideCalls ==
  ASSUME [Next]_vars, \A c \in Callers : ~CallStep(c) /\ ~CallStarts(c)
  PROVE  UNCHANGED <<call, joined, logouts, fallback>>
BY StutterUnchanged DEF Next, callVars, InitStep, InitCreated, InitRefused, InitRefusedJoined,
   InitConfigured, InitFails, InitFailureJoined, EngineTerminal, RunCompletes, WatchdogFires,
   ReportFinishes, UserWsClose, UserWsConnect, WsStep, WsRuns, WsDisconnected, WritesLand,
   TeardownStep, TeardownStarts, TeardownResumes, TeardownDisconnects, TeardownBarrier,
   TeardownFlushes, TeardownHandlersDone, TeardownSettles, CloseReleased, CloseSettles,
   ReleaseStep, ReleaseDisconnected, ReleaseBarrier, ReleaseFlushes, ReleaseFrees

(* While its end handlers run, a socket's close has not settled. *)
LEMMA HandlersBeforeSettled ==
  ASSUME OwnerFacts, TeardownMatches, CloseSettled
  PROVE  ~RunningEndHandlers
BY DEF OwnerFacts, TeardownMatches, CloseSettled, RunningEndHandlers

(* A call is answered after what it waits for. *)
LEMMA CallsKeep ==
  ASSUME OwnerFacts, TeardownMatches, ReportMatches, CallsMatch, [Next]_vars,
         Reporter!ReporterTypeOK, call \in [Callers -> CallStates], joined \subseteq Callers,
         logouts \subseteq Callers, fallback \subseteq logouts
  PROVE  CallsMatch'
<1> USE DEF CallsMatch, Answered
<1>1. CloseSettled => CloseSettled'
  BY SettledIsForever
<1>2. (claim # "none" => claim' # "none") /\ (deliveries = 1 => deliveries' = 1)
  BY ReporterStep, ReportsOnlyGrow
<1>3. ASSUME NEW c \in Callers, EndReturns(c) PROVE CallsMatch'
  BY <1>1, <1>2, <1>3 DEF EndReturns, EndAnswered, EndOutcome
<1>4. ASSUME NEW c \in Callers, LogoutSettles(c) PROVE CallsMatch'
  BY <1>1, <1>2, <1>4 DEF LogoutSettles, End, Reporter!HasReported
<1>5. ASSUME NEW c \in Callers, LogoutEnds(c) PROVE CallsMatch'
  <2>1. claim' # "none"
    BY <1>2, <1>5, ReporterStep DEF LogoutEnds, Reporter!ReportNow, Reporter!HasReported, Reporter!reporterVars
  <2> QED
    BY <1>1, <1>2, <1>5, <2>1, HandlersBeforeSettled
       DEF LogoutEnds, EndAnswered, EndOutcome, AfterLogoutEnd
<1>6. ASSUME NEW c \in Callers, LogoutReturns(c) PROVE CallsMatch'
  BY <1>1, <1>2, <1>6 DEF LogoutReturns, ReportMatches, Reporter!ReporterTypeOK
<1>7. ASSUME NEW c \in Callers, CallEnd(c) PROVE CallsMatch'
  BY <1>1, <1>2, <1>7 DEF CallEnd, MayCall, End
<1>8. ASSUME NEW c \in Callers, CallLogout(c) PROVE CallsMatch'
  BY <1>1, <1>2, <1>8 DEF CallLogout, MayCall, Reporter!HasReported
<1>9. ASSUME NEW c \in Callers, CallLogoutOffline(c) PROVE CallsMatch'
  BY <1>1, <1>2, <1>9 DEF CallLogoutOffline, MayCall, End, Reporter!HasReported
<1>10. ASSUME NEW c \in Callers, NEW how \in {"returned", "hung"}, HandlerFinishes(c, how)
       PROVE  CallsMatch'
  BY <1>1, <1>2, <1>10 DEF HandlerFinishes
<1>11. CASE \A c \in Callers : ~CallStep(c) /\ ~CallStarts(c)
  BY <1>1, <1>2, <1>11, OutsideCalls
<1> QED
  BY <1>3, <1>4, <1>5, <1>6, <1>7, <1>8, <1>9, <1>10, <1>11 DEF CallStep, CallStarts

-----------------------------------------------------------------------------
(* The invariant *)

(* The types of what the socket adds to owner and reporter. *)
SocketTypeOK ==
  /\ init \in {"creating", "probing", "refused", "configuring", "joining", "settled"}
  /\ running \in BOOLEAN
  /\ ws \in {"open", "closing", "closed"}
  /\ wsCall \in {"none", "scheduled", "disconnecting"}
  /\ wsOk \in BOOLEAN
  /\ reopened \in 0..Reopenings
  /\ teardown \in {"idle", "ws", "wsClosed", "wsFailed", "direct", "barrier",
                   "flush", "handlers", "settled"}
  /\ release \in {"none", "disconnecting", "barrier", "flush", "free", "freed"}
  /\ link \in BOOLEAN
  /\ writes \in {"none", "queued", "dirty"}
  /\ flushFailed \in BOOLEAN
  /\ lateFlushFailed \in BOOLEAN

CallTypeOK ==
  /\ call \in [Callers -> CallStates]
  /\ joined \subseteq Callers
  /\ logouts \subseteq Callers
  /\ fallback \subseteq logouts

LEMMA TypesParted ==
  TypeOK <=> Owner!TypeOK /\ Reporter!ReporterTypeOK /\ SocketTypeOK /\ CallTypeOK
BY DEF TypeOK, SocketTypeOK, CallTypeOK

LEMMA SocketTypes ==
  ASSUME SocketTypeOK, [Next]_vars
  PROVE  SocketTypeOK'
<1> USE LifecycleAssumption DEF SocketTypeOK
<1>1. CASE InitStep
  BY <1>1 DEF InitStep, InitCreated, InitRefused, InitRefusedJoined, InitConfigured,
       InitFails, InitFailureJoined, wsVars, storeVars, Owner!IsClosing
<1>2. CASE EngineTerminal \/ RunCompletes \/ WatchdogFires \/ ReportFinishes
  BY <1>2 DEF EngineTerminal, RunCompletes, WatchdogFires, ReportFinishes, initVars, wsVars, storeVars
<1>3. CASE UserWsConnect
  BY <1>3 DEF UserWsConnect, initVars
<1>4. CASE UserWsClose \/ WritesLand
  BY <1>4 DEF UserWsClose, WsClose, WritesLand, initVars, wsVars, storeVars
<1>5. CASE WsStep
  BY <1>5 DEF WsStep, WsRuns, WsDisconnected, WsFinishes, Disconnect, initVars, storeVars
<1>6. CASE TeardownStarts \/ TeardownResumes \/ TeardownBarrier \/ TeardownHandlersDone
  BY <1>6 DEF TeardownStarts, WsClose, TeardownResumes, TeardownBarrier, TeardownHandlersDone,
       initVars, wsVars, storeVars
<1>7. ASSUME NEW ok \in BOOLEAN, TeardownDisconnects(ok) \/ TeardownFlushes(ok)
      PROVE  SocketTypeOK'
  BY <1>7 DEF TeardownDisconnects, TeardownFlushes, Disconnect, initVars, wsVars
<1>8. CASE TeardownSettles \/ CloseReleased \/ CloseSettles
  BY <1>8 DEF TeardownSettles, CloseReleased, CloseSettles, initVars, wsVars, storeVars
<1>9. CASE ReleaseStep
  BY <1>9 DEF ReleaseStep, ReleaseDisconnected, ReleaseBarrier, ReleaseFlushes, ReleaseFrees,
       Disconnect, initVars, wsVars, storeVars
<1>10. ASSUME NEW c \in Callers, CallStep(c) \/ CallStarts(c) PROVE SocketTypeOK'
  BY <1>10 DEF CallStep, CallStarts, EndReturns, LogoutSettles, LogoutEnds, LogoutReturns,
       CallEnd, CallLogout, CallLogoutOffline, HandlerFinishes, initVars, wsVars, storeVars
<1>11. CASE UNCHANGED vars
  BY <1>11, StutterUnchanged
<1> QED
  BY <1>1, <1>2, <1>3, <1>4, <1>5, <1>6, <1>7, <1>8, <1>9, <1>10, <1>11 DEF Next, TeardownStep

LEMMA ReporterTypes ==
  ASSUME Reporter!ReporterTypeOK, [Next]_vars
  PROVE  Reporter!ReporterTypeOK'
<1> USE DEF Reporter!ReporterTypeOK
<1>1. deliveries' \in Nat
  BY ReporterStep DEF ReporterDoes, reporterVars, Reporter!ReportNow, Reporter!ReportAfter,
       Reporter!WatchdogFires, Reporter!ReportFinishes, Reporter!PublishOnce,
       Reporter!reporterVars
<1>2. awaiting' \in BOOLEAN
  BY ReporterStep, Zenon DEF ReporterDoes, reporterVars, Reporter!ReportNow, Reporter!ReportAfter,
       Reporter!WatchdogFires, Reporter!ReportFinishes, Reporter!reporterVars
<1>3. /\ claim' \in {"none", "after", "now"}
      /\ watchdog' \in {"off", "armed", "fired", "cancelled"}
      /\ published' \in {"none", "pending", "resolved"}
  BY ReporterStep DEF ReporterDoes, reporterVars, Reporter!ReportNow, Reporter!ReportAfter,
       Reporter!WatchdogFires, Reporter!ReportFinishes, Reporter!PublishOnce,
       Reporter!reporterVars
<1> QED
  BY <1>1, <1>2, <1>3

LEMMA CallTypes ==
  ASSUME CallTypeOK, [Next]_vars
  PROVE  CallTypeOK'
<1> USE DEF CallTypeOK, CallStates
<1>1. ASSUME NEW c \in Callers, CallStep(c) PROVE CallTypeOK'
  BY <1>1 DEF CallStep, EndReturns, LogoutSettles, LogoutEnds, LogoutReturns, End,
       EndOutcome, AfterLogoutEnd
<1>2. ASSUME NEW c \in Callers, CallStarts(c) PROVE CallTypeOK'
  BY <1>2 DEF CallStarts, CallEnd, CallLogout, CallLogoutOffline, HandlerFinishes, End
<1>3. CASE \A c \in Callers : ~CallStep(c) /\ ~CallStarts(c)
  BY <1>3, OutsideCalls
<1> QED
  BY <1>1, <1>2, <1>3

(* A new socket satisfies the invariant. *)
LEMMA InitIInv == Init => IInv
<1> SUFFICES ASSUME Init PROVE IInv
  OBVIOUS
<1>1. OwnerProofs!OwnerIInv
  BY OwnerStarts, OwnerProofs!InitOwnerIInv, LifecycleAssumption
<1> USE LifecycleAssumption DEF Init, Owner!Init, Reporter!ReporterInit
<1>2. TypeOK
  <2>1. Owner!TypeOK
    BY <1>1 DEF Owner!TypeOK, OwnerProofs!OwnerIInv, OwnerProofs!TypeOK
  <2>2. Reporter!ReporterTypeOK
    BY DEF Reporter!ReporterTypeOK
  <2>3. SocketTypeOK
    <3>1. 0 \in 0..Reopenings
      OBVIOUS
    <3> QED
      BY <3>1 DEF SocketTypeOK
  <2>4. CallTypeOK
    BY DEF CallTypeOK, CallStates
  <2> QED
    BY <2>1, <2>2, <2>3, <2>4, TypesParted
<1>3. ReleaseMatches /\ TeardownMatches /\ AdoptedIsCaptured /\ RefusalIsJoined
  BY DEF ReleaseMatches, TeardownMatches, AdoptedIsCaptured, RefusalIsJoined
<1>4. ReportMatches /\ CallsMatch
  BY DEF ReportMatches, CallsMatch
<1> QED
  BY <1>1, <1>2, <1>3, <1>4 DEF IInv

(* Every step keeps it. *)
LEMMA NextIInv == IInv /\ [Next]_vars => IInv'
<1> SUFFICES ASSUME IInv, [Next]_vars PROVE IInv'
  OBVIOUS
<1>1. OwnerFacts /\ OwnerProofs!OwnerIInv'
  BY OwnerKnown, OwnerKeeps DEF IInv
<1>2. Owner!TypeOK'
  BY <1>1 DEF Owner!TypeOK, OwnerProofs!OwnerIInv, OwnerProofs!TypeOK
<1>3. SocketTypeOK /\ CallTypeOK /\ Reporter!ReporterTypeOK
  BY TypesParted DEF IInv
<1>4. TypeOK'
  BY <1>2, <1>3, SocketTypes, ReporterTypes, CallTypes
     DEF TypeOK, SocketTypeOK, CallTypeOK
<1>5. ReleaseMatches' /\ TeardownMatches'
  BY <1>1, ReleaseKeeps, TeardownKeeps DEF IInv
<1>6. AdoptedIsCaptured' /\ RefusalIsJoined'
  BY <1>1, AdoptedKeeps, RefusalKeeps DEF IInv
<1>7. ReportMatches'
  BY <1>1, <1>3, ReportKeeps DEF IInv
<1>8. CallsMatch'
  BY <1>1, <1>3, CallsKeep DEF IInv, CallTypeOK
<1> QED
  BY <1>1, <1>4, <1>5, <1>6, <1>7, <1>8 DEF IInv

(* The invariant of a socket's life. *)
THEOREM Invariance == Spec => []IInv
BY InitIInv, NextIInv, PTL DEF Spec

(* The variables of a socket, its owner and its reporter keep their types. *)
THEOREM TypeCorrect == Spec => []TypeOK
<1>1. IInv => TypeOK
  BY DEF IInv
<1> QED
  BY <1>1, Invariance, PTL

(* A close that has settled, with init(), has left nothing of the socket.  *)
LEMMA SettledMeansReleased == IInv /\ CloseSettled => FullyReleased
<1> SUFFICES ASSUME IInv, CloseSettled PROVE FullyReleased
  OBVIOUS
<1>1. OwnerFacts
  BY OwnerKnown DEF IInv
<1>2. closer = "settled" /\ init = "settled" /\ phase = "closed"
  BY <1>1 DEF OwnerFacts, CloseSettled, InitSettled
<1>3. release \in {"none", "freed"}
  BY <1>1, <1>2 DEF IInv, OwnerFacts, ReleaseMatches, RefusalIsJoined
<1>4. Owner!Peek = NoClient
  BY <1>2 DEF Owner!Peek
<1> QED
  BY <1>3, <1>4 DEF FullyReleased

(* The close of a socket is published once, and one that reportAfter()     *)
(* claimed only when the socket is fully released, except by the watchdog  *)
(* (terminal-close-reporter.ts, core.ts).                                  *)
THEOREM CloseIsReportedOnce == Spec => []OneCloseAfterRelease
<1>1. ASSUME IInv PROVE Reporter!AtMostOneClose
  BY <1>1 DEF IInv, TypeOK, Reporter!ReporterTypeOK, ReportMatches, Reporter!AtMostOneClose
<1>2. ASSUME IInv, claim = "after", deliveries > 0, watchdog # "fired" PROVE FullyReleased
  <2>1. published = "resolved"
    BY <1>2 DEF IInv, TypeOK, Reporter!ReporterTypeOK, ReportMatches
  <2> QED
    BY <1>2, <2>1, SettledMeansReleased DEF IInv, ReportMatches
<1>3. IInv => OneCloseAfterRelease
  BY <1>1, <1>2 DEF OneCloseAfterRelease
<1> QED
  BY <1>3, Invariance, PTL

(* A call that joined the close is answered when the socket is fully       *)
(* released, and a logout() that joined and resolved has had the close     *)
(* published.  This does not depend on what the user does with ws.         *)
LEMMA JoinedMeansDone ==
  ASSUME IInv
  PROVE  /\ \A c \in joined : call[c] \in {"returned", "rejected", "awaitingClose"} => FullyReleased
         /\ \A c \in joined \cap logouts : call[c] = "returned" => deliveries = 1
BY SettledMeansReleased DEF IInv, CallsMatch

(* The socket reports its close as the reporter's specification allows. *)
THEOREM ReporterRefined == Spec => Reporter!ReporterSpec
<1>1. Init => Reporter!ReporterInit
  BY DEF Init
<1>2. [Next]_vars => [Reporter!ReporterNext]_(Reporter!reporterVars)
  BY ReporterStep DEF ReporterDoes, reporterVars, Reporter!ReporterNext, Reporter!reporterVars
<1> QED
  BY <1>1, <1>2, PTL DEF Spec, Reporter!ReporterSpec

(* The client of a socket is released once and only once, whichever of     *)
(* init(), end(), logout(), a terminal event and a failure gets to it.     *)
THEOREM ClientReleasedOnce == Spec => [](Owner!ReleasedExactlyOnce)
<1>1. OwnerProofs!OwnerIInv => Owner!NeverOwnerless
  BY DEF OwnerProofs!OwnerIInv, OwnerProofs!NeverOwnerless, Owner!NeverOwnerless
<1>2. OwnerProofs!OwnerIInv => Owner!ReleasedAtMostOnce
  <2> SUFFICES ASSUME OwnerProofs!OwnerIInv, NEW c \in {Client} PROVE releaseCalls[c] <= 1
    BY DEF Owner!ReleasedAtMostOnce
  <2>1. releaseCalls[c] = 0 \/ releaseCalls[c] = 1
    BY DEF OwnerProofs!OwnerIInv, OwnerProofs!ReleasesMatch
  <2> QED
    BY <2>1
<1>3. IInv => Owner!ReleasedExactlyOnce
  BY <1>1, <1>2 DEF IInv, Owner!ReleasedExactlyOnce
<1> QED
  BY <1>3, Invariance, PTL

-----------------------------------------------------------------------------
(* A socket whose user does not reopen the transport during its close *)

(* A disconnect leaves the writes alone, or sends them on their way. *)
LEMMA DisconnectWrites ==
  ASSUME NEW ok, Disconnect(ok)
  PROVE  /\ link' => link
         /\ writes' = writes \/ (link /\ writes' = "queued")
BY DEF Disconnect

(* Only wrapper and teardown move the transport or each other. *)
LEMMA OutsideTransport ==
  ASSUME [Next]_vars, ~UserWsClose, ~UserWsConnect, ~WsStep, ~TeardownStep
  PROVE  UNCHANGED <<ws, wsCall, teardown>>
BY StutterUnchanged DEF Next, wsVars, InitStep, InitCreated, InitRefused, InitRefusedJoined,
   InitConfigured, InitFails, InitFailureJoined, EngineTerminal, RunCompletes, WatchdogFires,
   ReportFinishes, WritesLand, ReleaseStep, ReleaseDisconnected, ReleaseBarrier,
   ReleaseFlushes, ReleaseFrees, CallStep, CallStarts, EndReturns, LogoutSettles, LogoutEnds,
   LogoutReturns, CallEnd, CallLogout, CallLogoutOffline, HandlerFinishes

(* A transport that teardown has seen closed stays closed. *)
LEMMA TransportKeeps ==
  ASSUME OwnerFacts, TeardownMatches, SocketTypeOK, TransportStaysClosed, ~LateReopen, [Next]_vars
  PROVE  TransportStaysClosed'
<1> USE DEF TransportStaysClosed, SocketTypeOK
<1>1. wsCall = "disconnecting" => Owner!Peek' # NoClient
  BY OwnerStep DEF OwnerFacts, TeardownMatches, Owner!Peek, OwnerDoes, ownerVars, Owner!Adopt,
       Owner!AdoptPublishes, Owner!AdoptRefuses, Owner!Close, Owner!RunClose, Owner!IsClosing,
       Owner!TeardownSettles, Owner!ReleaseSettles, Owner!CloseReleased, Owner!CloseSettles
<1>2. CASE UserWsClose
  BY <1>1, <1>2 DEF UserWsClose, WsClose
<1>3. CASE UserWsConnect
  BY <1>1, <1>3 DEF UserWsConnect, OwnerFacts, TeardownMatches, Owner!IsClosing
<1>4. CASE WsStep
  BY <1>1, <1>4 DEF WsStep, WsRuns, WsDisconnected, WsFinishes, Owner!Peek, ownerVars
<1>5. CASE TeardownStarts
  <2>1. teardown = "idle"
    BY <1>5 DEF TeardownStarts, TeardownMatches, Owner!RunClose
  <2> QED
    BY <1>1, <1>5, <2>1 DEF TeardownStarts, WsClose
<1>6. CASE TeardownStep /\ ~TeardownStarts
  BY <1>1, <1>6 DEF TeardownStep, TeardownResumes, TeardownDisconnects, TeardownBarrier,
       TeardownFlushes, TeardownHandlersDone, TeardownSettles, CloseReleased, CloseSettles,
       RunningEndHandlers, wsVars
<1>7. CASE ~UserWsClose /\ ~UserWsConnect /\ ~WsStep /\ ~TeardownStep
  BY <1>1, <1>7, OutsideTransport
<1> QED
  BY <1>2, <1>3, <1>4, <1>5, <1>6, <1>7

(* Until teardown has settled, the client is not being released, or there  *)
(* was none.                                                               *)
LEMMA HeldDuringTeardown ==
  ASSUME OwnerFacts, ReleaseMatches, TeardownMatches, AdoptedIsCaptured,
         teardown \notin {"idle", "settled"} \/ closer = "teardown"
  PROVE  (adopted = {} /\ captured = NoClient) \/ (captured = Client /\ release = "none")
BY LifecycleAssumption DEF OwnerFacts, ReleaseMatches, TeardownMatches, AdoptedIsCaptured

(* The client that was adopted stays adopted. *)
LEMMA AdoptedOnlyGrows ==
  ASSUME OwnerFacts, [Next]_vars
  PROVE  adopted # {} => adopted' # {}
BY OwnerStep DEF OwnerFacts, OwnerDoes, ownerVars, Owner!Adopt, Owner!AdoptPublishes,
   Owner!AdoptRefuses, Owner!Close, Owner!RunClose, Owner!TeardownSettles,
   Owner!ReleaseSettles, Owner!CloseReleased, Owner!CloseSettles

(* The steps that move writes, teardown or release. *)
LEMMA OutsideTheStore ==
  ASSUME [Next]_vars, ~InitRefused, ~InitConfigured, ~UserWsConnect, ~WsStep, ~WritesLand,
         ~TeardownStep, ~ReleaseStep
  PROVE  UNCHANGED <<link, writes, flushFailed, lateFlushFailed, teardown, release>>
BY StutterUnchanged DEF Next, storeVars, InitStep, InitCreated, InitRefusedJoined, InitFails,
   InitFailureJoined, EngineTerminal, RunCompletes, WatchdogFires, ReportFinishes, UserWsClose,
   CallStep, CallStarts, EndReturns, LogoutSettles, LogoutEnds, LogoutReturns, CallEnd,
   CallLogout, CallLogoutOffline, HandlerFinishes

(* The writes of the last disconnect reach the disk, or a flush fails. *)
LEMMA WritesKeep ==
  ASSUME OwnerFacts, ReleaseMatches, ReleaseMatches', TeardownMatches, AdoptedIsCaptured, SocketTypeOK,
         TransportStaysClosed, WritesReachDisk, ~LateReopen, [Next]_vars
  PROVE  WritesReachDisk'
<1> USE DEF WritesReachDisk, Persisted, SocketTypeOK
<1>1. adopted' = {} => adopted = {}
  BY AdoptedOnlyGrows
<1>2. CASE InitRefused
  BY <1>1, <1>2 DEF InitRefused, storeVars, OwnerFacts, ReleaseMatches, Owner!Adopt
<1>3. CASE InitConfigured
  BY <1>1, <1>3 DEF InitConfigured, AdoptedIsCaptured
<1>4. CASE UserWsConnect
  BY <1>1, <1>4 DEF UserWsConnect, OwnerFacts, Owner!Peek
<1>5. CASE WsStep
  BY <1>1, <1>5, HeldDuringTeardown DEF WsStep, WsRuns, WsDisconnected, WsFinishes,
       Disconnect, TransportStaysClosed, storeVars
<1>6. CASE WritesLand
  BY <1>1, <1>6 DEF WritesLand
<1>7. CASE TeardownStarts \/ TeardownResumes \/ TeardownBarrier
  <2>1. UNCHANGED <<link, writes, flushFailed, lateFlushFailed, release>>
    BY <1>7 DEF TeardownStarts, TeardownResumes, TeardownBarrier, storeVars
  <2>2. teardown' \notin {"handlers", "settled"}
    BY <1>7 DEF TeardownStarts, TeardownResumes, TeardownBarrier
  <2>3. CASE TeardownResumes
    <3>1. teardown' = "flush" => writes = "none"
      BY <2>3, HeldDuringTeardown, LifecycleAssumption DEF TeardownResumes
    <3> QED
      BY <1>1, <2>1, <2>2, <3>1
  <2>4. CASE TeardownStarts
    BY <1>1, <2>1, <2>2, <2>4 DEF TeardownStarts
  <2>5. CASE TeardownBarrier
    BY <1>1, <2>1, <2>2, <2>5 DEF TeardownBarrier
  <2> QED
    BY <1>7, <2>3, <2>4, <2>5
<1>8. ASSUME NEW ok \in BOOLEAN, TeardownDisconnects(ok) PROVE WritesReachDisk'
  BY <1>1, <1>8 DEF TeardownDisconnects, Disconnect
<1>9. ASSUME NEW ok \in BOOLEAN, TeardownFlushes(ok) PROVE WritesReachDisk'
  BY <1>1, <1>9, HeldDuringTeardown DEF TeardownFlushes
<1>10. CASE TeardownHandlersDone
  BY <1>1, <1>10 DEF TeardownHandlersDone, RunningEndHandlers, storeVars
<1>11. CASE TeardownSettles
  BY <1>1, <1>11, HeldDuringTeardown DEF TeardownSettles, storeVars, Owner!TeardownSettles
<1>12. CASE CloseReleased \/ CloseSettles
  BY <1>1, <1>12 DEF CloseReleased, CloseSettles, storeVars
<1>13. ASSUME NEW ok \in BOOLEAN, ReleaseDisconnected(ok) PROVE WritesReachDisk'
  BY <1>1, <1>13, HeldDuringTeardown DEF ReleaseDisconnected, Disconnect
<1>14. CASE ReleaseBarrier
  BY <1>1, <1>14 DEF ReleaseBarrier, storeVars
<1>15. ASSUME NEW ok \in BOOLEAN, ReleaseFlushes(ok) PROVE WritesReachDisk'
  BY <1>1, <1>15 DEF ReleaseFlushes
<1>16. CASE ReleaseFrees
  BY <1>1, <1>16 DEF ReleaseFrees, storeVars
<1>17. CASE /\ ~InitRefused /\ ~InitConfigured /\ ~UserWsConnect /\ ~WsStep /\ ~WritesLand
            /\ ~TeardownStep /\ ~ReleaseStep
  BY <1>1, <1>17, OutsideTheStore
<1> QED
  BY <1>2, <1>3, <1>4, <1>5, <1>6, <1>7, <1>8, <1>9, <1>10, <1>11, <1>12, <1>13, <1>14, <1>15,
     <1>16, <1>17 DEF TeardownStep, ReleaseStep

(* Both parts are invariant then. *)
LEMMA QuietInvariance == ~LateReopen => (Spec => []QuietInv)
<1> SUFFICES ASSUME ~LateReopen PROVE Spec => []QuietInv
  OBVIOUS
<1>1. Init => QuietInv
  BY DEF Init, Owner!Init, Reporter!ReporterInit, QuietInv, TransportStaysClosed, WritesReachDisk
<1>2. IInv /\ QuietInv /\ [Next]_vars => QuietInv'
  <2> SUFFICES ASSUME IInv, QuietInv, [Next]_vars PROVE QuietInv'
    OBVIOUS
  <2>1. OwnerFacts /\ SocketTypeOK /\ ReleaseMatches'
    BY OwnerKnown, TypesParted, NextIInv DEF IInv
  <2>2. TransportStaysClosed'
    BY <2>1, TransportKeeps DEF IInv, QuietInv
  <2>3. WritesReachDisk'
    BY <2>1, WritesKeep DEF IInv, QuietInv
  <2> QED
    BY <2>2, <2>3 DEF QuietInv
<1> QED
  BY <1>1, <1>2, Invariance, PTL DEF Spec

(* The client is never freed while a disconnect() of it is in flight, of   *)
(* the transport's or of teardown's own (core.ts, release), for any number *)
(* of callers, unless the user reopens the transport during a close.       *)
THEOREM FreedWhenDisconnected == ~LateReopen => (Spec => []NoFreeDuringDisconnect)
<1> SUFFICES ASSUME ~LateReopen PROVE Spec => []NoFreeDuringDisconnect
  OBVIOUS
<1>1. ASSUME IInv, QuietInv, release = "freed" PROVE wsCall # "disconnecting" /\ teardown # "direct"
  <2>1. OwnerFacts
    BY <1>1, OwnerKnown DEF IInv
  <2>2. releasing[Client] = "finished" /\ held # Client
    BY <1>1, <2>1 DEF IInv, ReleaseMatches, OwnerFacts
  <2>3. wsCall # "disconnecting"
    BY <1>1, <2>1, <2>2 DEF QuietInv, TransportStaysClosed, Owner!Peek, OwnerFacts
  <2>4. teardown # "direct"
    BY <1>1, <2>1, <2>2, LifecycleAssumption DEF IInv, TeardownMatches, OwnerFacts
  <2> QED
    BY <2>3, <2>4
<1>2. IInv /\ QuietInv => NoFreeDuringDisconnect
  BY <1>1 DEF NoFreeDuringDisconnect
<1> QED
  BY <1>2, Invariance, QuietInvariance, PTL

(* What end() and logout() promise with their answer (core.ts): the last   *)
(* ratchet writes are on disk or the last flush has failed, the socket is  *)
(* fully released, and a logout's close has been published; for any number *)
(* of callers inside and outside the end handlers.                         *)
THEOREM AnswersAreKept == ~LateReopen => (Spec => []SettledMeansDone)
<1> SUFFICES ASSUME ~LateReopen PROVE Spec => []SettledMeansDone
  OBVIOUS
<1>1. ASSUME IInv, QuietInv, done = "resolved" PROVE Persisted
  <2>1. OwnerFacts
    BY <1>1, OwnerKnown DEF IInv
  <2>2. closer = "settled" /\ teardown = "settled" /\ ~flushFailed
    BY <1>1, <2>1 DEF IInv, OwnerFacts, TeardownMatches
  <2>3. CASE captured = Client
    BY <1>1, <2>1, <2>2, <2>3, LifecycleAssumption
       DEF IInv, OwnerFacts, ReleaseMatches, QuietInv, WritesReachDisk
  <2>4. CASE captured = NoClient
    BY <1>1, <2>1, <2>2, <2>4, LifecycleAssumption
       DEF IInv, OwnerFacts, AdoptedIsCaptured, QuietInv, WritesReachDisk, Persisted
  <2> QED
    BY <2>1, <2>3, <2>4 DEF OwnerFacts
<1>2. IInv /\ QuietInv => SettledMeansDone
  BY <1>1, JoinedMeansDone DEF SettledMeansDone, Persisted
<1> QED
  BY <1>2, Invariance, QuietInvariance, PTL

-----------------------------------------------------------------------------
(* Nothing waits for itself                                                *)
(*                                                                         *)
(* An end() awaits the owner's close, the close awaits the end handlers,   *)
(* these may call end() and await it.  A logout() also awaits the publish, *)
(* which awaits the close and init(), which joins the close when it fails. *)
(* The predicates below follow these chains, from whoever waits to what it *)
(* waits for, down to the guard of a step that can be taken.               *)

CallReady(c) ==
  \/ call[c] \in {"ending", "logoutEnding"} /\ EndAnswered(c)
  \/ call[c] = "loggingOut"
  \/ call[c] = "awaitingClose" /\ published # "pending"

HandlerReady(h) == CallReady(h) \/ (HandlerTurn(h) /\ call[h] = "idle")

(* A barrier goes on, or the writes it waits for land. *)
ReleaseReady ==
  \/ release \in {"disconnecting", "barrier", "flush"}
  \/ release = "free" /\ releasing[Client] = "running"

TeardownReady ==
  \/ teardown \in {"wsClosed", "wsFailed", "direct", "barrier", "flush", "settled"}
  \/ teardown = "ws" /\ wsCall \in {"scheduled", "disconnecting"}
  \/ /\ RunningEndHandlers
     /\ \/ \A h \in Handlers : call[h] \in {"returned", "rejected"}
        \/ \E h \in Handlers : HandlerReady(h)
        \/ HandlerHung

InitReady ==
  \/ init \in {"creating", "configuring"}
  \/ init = "probing" /\ Client \notin offered /\ phase # "starting"
  \/ init = "refused" /\ (tracked = {} \/ ReleaseReady)
  \/ init = "joining" /\ done \in {"resolved", "rejected"}

(* What the close awaits now can go on; its promise includes init()'s. *)
CloseReady ==
  \/ closer = "scheduled"
  \/ closer = "teardown" /\ TeardownReady
  \/ closer = "release" /\ (releasing[captured] = "finished" \/ ReleaseReady)
  \/ closer = "drain" /\ (tracked = {} \/ ReleaseReady)
  \/ closer = "settled" /\ InitReady

InProgress(c) == call[c] \in {"ending", "loggingOut", "logoutEnding", "awaitingClose"}

(* A call in progress can go on, or what the close does now can, or the    *)
(* publish it waits for.  An end handler of the consumer that never        *)
(* returns is the only exception, and the publish does not even wait for   *)
(* that: its timer is armed.                                               *)
NoWaitCycle ==
  /\ \A c \in Callers : InProgress(c) =>
       CallReady(c) \/ CloseReady \/ (awaiting /\ CloseSettled)
  /\ claim # "none" /\ deliveries = 0 => watchdog = "armed"

(* The owner's promise exists once a close has begun, and a tracked        *)
(* release is running.                                                     *)
CloseIsPromised ==
  /\ done = "none" <=> closer = "idle"
  /\ releasing[Client] = "running" \/ tracked = {}

(* init() has offered no client before the one it is creating. *)
ClientIsNew == init \in {"creating", "probing"} => Client \notin offered

(* Whoever waits for a close or its publish has begun one. *)
WaitersHaveClosed ==
  /\ init = "joining" \/ claim # "none" => closer # "idle"
  /\ \A c \in Callers : call[c] \in {"ending", "logoutEnding", "awaitingClose"} => closer # "idle"

(* A publish to come has its timer, and the report awaits the close. *)
PublishIsTimed == published = "pending" => watchdog = "armed" /\ awaiting

(* The transport is closing as long as a close() of it is in flight. *)
TransportCloses ==
  /\ ws = "closing" <=> wsCall # "none"
  /\ teardown = "ws" => ws = "closing"

(* End handlers run in their turn, and no call of theirs joins the close.  *)
HandlersJoinNothing ==
  \A h \in Handlers :
    /\ h \notin joined
    /\ call[h] # "awaitingClose"
    /\ call[h] \in {"ending", "loggingOut", "logoutEnding"} => RunningEndHandlers

WaitInv ==
  /\ CloseIsPromised
  /\ ClientIsNew
  /\ WaitersHaveClosed
  /\ PublishIsTimed
  /\ TransportCloses
  /\ HandlersJoinNothing

(* A new socket waits for nothing. *)
LEMMA WaitsInitially == Init => WaitInv
<1> SUFFICES ASSUME Init PROVE WaitInv
  OBVIOUS
<1> USE LifecycleAssumption DEF Init, Owner!Init, Reporter!ReporterInit
<1>1. CloseIsPromised /\ ClientIsNew /\ PublishIsTimed /\ TransportCloses
  BY DEF CloseIsPromised, ClientIsNew, PublishIsTimed, TransportCloses
<1>2. WaitersHaveClosed /\ HandlersJoinNothing
  BY DEF WaitersHaveClosed, HandlersJoinNothing, Callers
<1> QED
  BY <1>1, <1>2 DEF WaitInv

(* Each part is kept by every step: by those of the owner, ... *)
LEMMA PromiseKeeps ==
  ASSUME OwnerFacts, Owner!TypeOK, CloseIsPromised, [Next]_vars
  PROVE  CloseIsPromised'
<1> USE DEF CloseIsPromised, OwnerFacts
<1>1. done' = "none" <=> closer' = "idle"
  BY OwnerStep DEF OwnerDoes, ownerVars, Owner!Adopt, Owner!Close, Owner!RunClose,
     Owner!TeardownSettles, Owner!ReleaseSettles, Owner!CloseReleased, Owner!CloseSettles,
     Owner!IsClosing
<1>2. tracked \subseteq {Client} /\ releasing \in [{Client} -> {"none", "running", "finished"}]
  BY DEF Owner!TypeOK
<1>3. CASE Owner!Adopt(Client)
  BY <1>2, <1>3 DEF Owner!Adopt, Owner!AdoptPublishes, Owner!AdoptRefuses, Owner!NoRelease,
     Owner!TrackRelease, Owner!CallRelease
<1>4. CASE Owner!ReleaseSettles(Client)
  BY <1>2, <1>4 DEF Owner!ReleaseSettles
<1>5. ASSUME NEW ok, Owner!TeardownSettles(ok) PROVE releasing'[Client] = "running" \/ tracked' = {}
  BY <1>2, <1>5, LifecycleAssumption DEF Owner!TeardownSettles, Owner!CallRelease, Owner!NoRelease
<1>6. CASE Owner!Close \/ Owner!RunClose \/ Owner!CloseReleased \/ Owner!CloseSettles
           \/ UNCHANGED ownerVars
  BY <1>6 DEF ownerVars, Owner!Close, Owner!RunClose, Owner!CloseReleased, Owner!CloseSettles,
     Owner!NoRelease
<1> QED
  BY <1>1, <1>3, <1>4, <1>5, <1>6, OwnerStep DEF OwnerDoes

(* Only init() offers a client. *)
LEMMA OutsideOffers ==
  ASSUME [Next]_vars, ~InitStep
  PROVE  UNCHANGED offered
<1> USE DEF ownerVars, Owner!Close
<1>1. CASE EngineTerminal \/ RunCompletes \/ WatchdogFires \/ ReportFinishes
  BY <1>1, ReportCloseSteps DEF EngineTerminal, RunCompletes, WatchdogFires, ReportFinishes
<1>2. CASE UserWsClose \/ UserWsConnect \/ WsStep \/ WritesLand
  BY <1>2 DEF UserWsClose, UserWsConnect, WsStep, WsRuns, WsDisconnected, WritesLand
<1>3. CASE TeardownStep
  BY <1>3 DEF TeardownStep, TeardownStarts, TeardownResumes, TeardownDisconnects,
     TeardownBarrier, TeardownFlushes, TeardownHandlersDone, TeardownSettles, CloseReleased,
     CloseSettles, Owner!RunClose, Owner!TeardownSettles, Owner!CloseReleased, Owner!CloseSettles
<1>4. CASE ReleaseStep
  BY <1>4 DEF ReleaseStep, ReleaseDisconnected, ReleaseBarrier, ReleaseFlushes, ReleaseFrees,
     Owner!ReleaseSettles
<1>5. ASSUME NEW c \in Callers, CallStep(c) \/ CallStarts(c) PROVE UNCHANGED offered
  BY <1>5, EndCloseSteps DEF CallStep, CallStarts, EndReturns, LogoutSettles, LogoutEnds,
     LogoutReturns, CallEnd, CallLogout, CallLogoutOffline, HandlerFinishes
<1>6. CASE UNCHANGED vars
  BY <1>6, StutterUnchanged
<1> QED
  BY <1>1, <1>2, <1>3, <1>4, <1>5, <1>6 DEF Next

(* ... those of init(), ... *)
LEMMA ClientKeepsNew ==
  ASSUME ClientIsNew, [Next]_vars
  PROVE  ClientIsNew'
<1> USE DEF ClientIsNew
<1>1. CASE InitStep
  BY <1>1 DEF InitStep, InitCreated, InitRefused, InitRefusedJoined, InitConfigured, InitFails,
     InitFailureJoined, ownerVars
<1>2. CASE RunCompletes
  BY <1>2, OutsideOffers DEF RunCompletes, InitStep, InitCreated, InitRefused, InitRefusedJoined,
     InitConfigured, InitFails, InitFailureJoined
<1>3. CASE ~InitStep /\ ~RunCompletes
  BY <1>3, OutsideInit, OutsideOffers
<1> QED
  BY <1>1, <1>2, <1>3

(* ... of the reporter ... *)
LEMMA PublishKeepsTimed ==
  ASSUME PublishIsTimed, [Next]_vars
  PROVE  PublishIsTimed'
<1> USE DEF PublishIsTimed
<1>1. published' = "pending" => watchdog' = "armed"
  BY ReporterStep DEF ReporterDoes, reporterVars, Reporter!reporterVars, Reporter!ReportNow,
     Reporter!ReportAfter, Reporter!WatchdogFires, Reporter!ReportFinishes, Reporter!PublishOnce
<1>2. published' = "pending" => awaiting'
  BY ReporterStep, Zenon DEF ReporterDoes, reporterVars, Reporter!reporterVars, Reporter!ReportNow,
     Reporter!ReportAfter, Reporter!WatchdogFires, Reporter!ReportFinishes, Reporter!PublishOnce
<1> QED
  BY <1>1, <1>2

(* ... and of the transport. *)
LEMMA TransportKeepsClosing ==
  ASSUME SocketTypeOK, TransportCloses, [Next]_vars
  PROVE  TransportCloses'
<1> USE DEF TransportCloses, SocketTypeOK
<1>1. CASE UserWsClose \/ UserWsConnect
  BY <1>1 DEF UserWsClose, UserWsConnect, WsClose
<1>2. CASE WsStep
  BY <1>2 DEF WsStep, WsRuns, WsDisconnected, WsFinishes
<1>3. CASE TeardownStarts
  BY <1>3 DEF TeardownStarts, WsClose
<1>4. CASE TeardownStep /\ ~TeardownStarts
  BY <1>4 DEF TeardownStep, TeardownResumes, TeardownDisconnects, TeardownBarrier,
     TeardownFlushes, TeardownHandlersDone, TeardownSettles, CloseReleased, CloseSettles, wsVars
<1>5. CASE ~UserWsClose /\ ~UserWsConnect /\ ~WsStep /\ ~TeardownStep
  BY <1>5, OutsideTransport
<1> QED
  BY <1>1, <1>2, <1>3, <1>4, <1>5

(* A close that has begun stays begun. *)
LEMMA BegunStaysBegun ==
  ASSUME OwnerFacts, [Next]_vars
  PROVE  closer # "idle" => closer' # "idle"
BY OwnerStep DEF OwnerFacts, OwnerDoes, ownerVars, Owner!Adopt, Owner!Close, Owner!RunClose,
   Owner!TeardownSettles, Owner!ReleaseSettles, Owner!CloseReleased, Owner!CloseSettles

(* close() begins one, also for end() and for a report. *)
LEMMA CloseBegins ==
  ASSUME OwnerFacts, OwnerClose
  PROVE  closer' # "idle"
BY DEF OwnerFacts, OwnerClose, Owner!IsClosing, Owner!Close, ownerVars

LEMMA EndBegins ==
  ASSUME OwnerFacts, TeardownMatches, NEW c, End(c)
  PROVE  closer' # "idle"
BY CloseBegins DEF End, TeardownMatches, RunningEndHandlers, ownerVars

LEMMA ReportBegins ==
  ASSUME OwnerFacts, WaitersHaveClosed, ReportTerminalClose
  PROVE  closer' # "idle"
BY CloseBegins DEF ReportTerminalClose, WaitersHaveClosed, Reporter!HasReported, ownerVars

(* Who claims the close has begun it. *)
LEMMA ClaimsBegin ==
  ASSUME OwnerFacts, TeardownMatches, WaitersHaveClosed, [Next]_vars, claim = "none", claim' # "none"
  PROVE  closer' # "idle"
<1>1. ASSUME ReportTerminalClose PROVE closer' # "idle"
  BY <1>1, ReportBegins
<1>2. CASE InitStep
  BY <1>1, <1>2 DEF InitStep, InitCreated, InitRefused, InitRefusedJoined, InitConfigured,
     InitFails, InitFailureJoined, reporterVars
<1>3. CASE EngineTerminal \/ RunCompletes \/ WatchdogFires \/ ReportFinishes
  BY <1>1, <1>3 DEF EngineTerminal, RunCompletes, WatchdogFires, ReportFinishes, reporterVars,
     Reporter!WatchdogFires, Reporter!ReportFinishes
<1>4. CASE UserWsClose \/ UserWsConnect \/ WsStep \/ WritesLand
  BY <1>4 DEF UserWsClose, UserWsConnect, WsStep, WsRuns, WsDisconnected, WritesLand, reporterVars
<1>5. CASE TeardownStep
  BY <1>5 DEF TeardownStep, TeardownStarts, TeardownResumes, TeardownDisconnects,
     TeardownBarrier, TeardownFlushes, TeardownHandlersDone, TeardownSettles, CloseReleased,
     CloseSettles, reporterVars
<1>6. CASE ReleaseStep
  BY <1>6 DEF ReleaseStep, ReleaseDisconnected, ReleaseBarrier, ReleaseFlushes, ReleaseFrees,
     reporterVars
<1>7. ASSUME NEW c \in Callers, CallStep(c) \/ CallStarts(c) PROVE closer' # "idle"
  <2>1. CASE LogoutEnds(c)
    BY <2>1 DEF LogoutEnds, WaitersHaveClosed, ownerVars
  <2>2. CASE ~LogoutEnds(c)
    BY <1>7, <2>2 DEF CallStep, CallStarts, EndReturns, LogoutSettles, LogoutReturns, CallEnd,
       CallLogout, CallLogoutOffline, HandlerFinishes, reporterVars
  <2> QED
    BY <2>1, <2>2
<1>8. CASE UNCHANGED vars
  BY <1>8, StutterUnchanged
<1> QED
  BY <1>2, <1>3, <1>4, <1>5, <1>6, <1>7, <1>8 DEF Next

(* So has init() when it waits for it. *)
LEMMA JoiningBegins ==
  ASSUME OwnerFacts, WaitersHaveClosed, [Next]_vars, init' = "joining"
  PROVE  closer' # "idle"
<1>1. CASE InitFails
  BY <1>1, ReportBegins DEF InitFails, OwnerFacts, Owner!IsClosing, ownerVars
<1>2. CASE InitStep /\ ~InitFails
  BY <1>2 DEF InitStep, InitCreated, InitRefused, InitRefusedJoined, InitConfigured,
     InitFailureJoined
<1>3. CASE RunCompletes
  BY <1>3, BegunStaysBegun DEF RunCompletes, WaitersHaveClosed
<1>4. CASE ~InitStep /\ ~RunCompletes
  BY <1>4, OutsideInit, BegunStaysBegun DEF WaitersHaveClosed
<1> QED
  BY <1>1, <1>2, <1>3, <1>4

(* Waiters have begun what they wait for. *)
LEMMA WaitersKeep ==
  ASSUME OwnerFacts, TeardownMatches, CallTypeOK, WaitersHaveClosed, [Next]_vars
  PROVE  WaitersHaveClosed'
<1>1. init' = "joining" \/ claim' # "none" => closer' # "idle"
  BY JoiningBegins, ClaimsBegin, BegunStaysBegun DEF WaitersHaveClosed
<1>2. ASSUME NEW c \in Callers, call'[c] \in {"ending", "logoutEnding", "awaitingClose"}
      PROVE  closer' # "idle"
  <2>1. CASE call[c] \in {"ending", "logoutEnding", "awaitingClose"}
    BY <2>1, BegunStaysBegun DEF WaitersHaveClosed
  <2>2. CASE call'[c] = call[c]
    BY <1>2, <2>2, BegunStaysBegun DEF WaitersHaveClosed
  <2>3. ASSUME NEW d \in Callers, CallStep(d) \/ CallStarts(d), call'[c] # call[c],
               call[c] \notin {"ending", "logoutEnding", "awaitingClose"}
        PROVE  closer' # "idle"
    <3>1. CASE CallEnd(d) \/ CallLogoutOffline(d) \/ LogoutSettles(d)
      BY <3>1, EndBegins DEF CallEnd, CallLogoutOffline, LogoutSettles
    <3>2. CASE EndReturns(d) \/ LogoutReturns(d)
      BY <1>2, <2>3, <3>2 DEF EndReturns, LogoutReturns, CallTypeOK, EndOutcome
    <3>3. CASE LogoutEnds(d)
      BY <1>2, <2>3, <3>3 DEF LogoutEnds, CallTypeOK
    <3>4. CASE CallLogout(d) \/ \E how \in {"returned", "hung"} : HandlerFinishes(d, how)
      BY <1>2, <2>3, <3>4 DEF CallLogout, HandlerFinishes, CallTypeOK
    <3> QED
      BY <2>3, <3>1, <3>2, <3>3, <3>4 DEF CallStep, CallStarts
  <2> QED
    BY <2>1, <2>2, <2>3, OutsideCalls
<1> QED
  BY <1>1, <1>2 DEF WaitersHaveClosed

(* Teardown leaves its end handlers when all have returned. *)
LEMMA HandlersEnd ==
  ASSUME TeardownMatches, SocketTypeOK, [Next]_vars, RunningEndHandlers, ~RunningEndHandlers'
  PROVE  /\ \A h \in Handlers : call[h] \in {"returned", "rejected"}
         /\ UNCHANGED <<call, joined>>
<1> USE DEF RunningEndHandlers
<1>1. CASE TeardownHandlersDone
  BY <1>1 DEF TeardownHandlersDone, callVars
<1>2. CASE TeardownStep /\ ~TeardownHandlersDone
  BY <1>2 DEF TeardownStep, TeardownResumes, TeardownDisconnects, TeardownBarrier,
     TeardownFlushes, TeardownSettles, CloseReleased, CloseSettles, TeardownStarts,
     TeardownMatches, Owner!RunClose
<1>3. CASE WsStep \/ UserWsClose \/ UserWsConnect
  BY <1>3 DEF WsStep, WsRuns, WsDisconnected, WsFinishes, UserWsClose, UserWsConnect
<1>4. CASE ~WsStep /\ ~UserWsClose /\ ~UserWsConnect /\ ~TeardownStep
  BY <1>4, OutsideTransport
<1> QED
  BY <1>1, <1>2, <1>3, <1>4

(* No end handler joins the close that waits for it. *)
LEMMA HandlersKeep ==
  ASSUME TeardownMatches, SocketTypeOK, CallTypeOK, HandlersJoinNothing, [Next]_vars
  PROVE  HandlersJoinNothing'
<1> SUFFICES ASSUME NEW h \in Handlers
             PROVE  /\ h \notin joined'
                    /\ call'[h] # "awaitingClose"
                    /\ call'[h] \in {"ending", "loggingOut", "logoutEnding"} => RunningEndHandlers'
  BY DEF HandlersJoinNothing
<1> USE DEF HandlersJoinNothing
<1>1. h \in Callers /\ h \notin Outside
  BY LifecycleAssumption DEF Callers
<1>2. ASSUME NEW c \in Callers, CallStep(c) \/ CallStarts(c) PROVE teardown' = teardown
  BY <1>2 DEF CallStep, CallStarts, EndReturns, LogoutSettles, LogoutEnds, LogoutReturns,
     CallEnd, CallLogout, CallLogoutOffline, HandlerFinishes
<1>3. CASE \A c \in Callers : ~CallStep(c) /\ ~CallStarts(c)
  BY <1>1, <1>3, OutsideCalls, HandlersEnd
<1>4. ASSUME NEW c \in Callers, c # h, CallStep(c) \/ CallStarts(c)
      PROVE  /\ h \notin joined'
             /\ call'[h] # "awaitingClose"
             /\ call'[h] \in {"ending", "loggingOut", "logoutEnding"} => RunningEndHandlers'
  <2>1. call'[h] = call[h]
    BY <1>1, <1>4 DEF CallTypeOK, CallStep, CallStarts, EndReturns, LogoutSettles, LogoutEnds,
       LogoutReturns, CallEnd, CallLogout, CallLogoutOffline, HandlerFinishes
  <2>2. joined' \subseteq joined \cup {c}
    BY <1>4 DEF CallStep, CallStarts, EndReturns, LogoutSettles, LogoutEnds,
       LogoutReturns, CallEnd, CallLogout, CallLogoutOffline, HandlerFinishes, End
  <2> QED
    BY <1>2, <1>4, <2>1, <2>2 DEF RunningEndHandlers
<1>5. CASE CallEnd(h) \/ CallLogout(h) \/ CallLogoutOffline(h)
           \/ \E how \in {"returned", "hung"} : HandlerFinishes(h, how)
  <2>1. RunningEndHandlers
    BY <1>1, <1>5 DEF CallEnd, CallLogout, CallLogoutOffline, HandlerFinishes, MayCall, HandlerTurn
  <2>2. RunningEndHandlers'
    BY <1>1, <1>2, <1>5, <2>1 DEF CallStarts, RunningEndHandlers
  <2> QED
    BY <1>1, <1>5, <2>1, <2>2 DEF CallEnd, CallLogout, CallLogoutOffline, HandlerFinishes, End, CallTypeOK
<1>6. CASE CallStep(h)
  <2>1. RunningEndHandlers /\ RunningEndHandlers'
    BY <1>1, <1>2, <1>6 DEF CallStep, EndReturns, LogoutSettles, LogoutEnds, LogoutReturns,
       RunningEndHandlers
  <2> QED
    BY <1>1, <1>6, <2>1 DEF CallStep, EndReturns, LogoutSettles, LogoutEnds, LogoutReturns, End,
       EndOutcome, AfterLogoutEnd, CallTypeOK
<1> QED
  BY <1>1, <1>3, <1>4, <1>5, <1>6 DEF CallStarts

(* Every step of the socket keeps all this. *)
LEMMA WaitsKeep == IInv /\ WaitInv /\ [Next]_vars => WaitInv'
<1> SUFFICES ASSUME IInv, WaitInv, [Next]_vars PROVE WaitInv'
  OBVIOUS
<1>1. OwnerFacts /\ Owner!TypeOK /\ SocketTypeOK /\ CallTypeOK /\ TeardownMatches
  BY OwnerKnown, TypesParted DEF IInv
<1>2. CloseIsPromised' /\ ClientIsNew' /\ PublishIsTimed'
  BY <1>1, PromiseKeeps, ClientKeepsNew, PublishKeepsTimed DEF WaitInv
<1>3. WaitersHaveClosed' /\ TransportCloses' /\ HandlersJoinNothing'
  BY <1>1, WaitersKeep, TransportKeepsClosing, HandlersKeep DEF WaitInv
<1> QED
  BY <1>2, <1>3 DEF WaitInv

(* While the end handlers run, teardown can go on, or one never returns.   *)
LEMMA HandlersGoOn ==
  ASSUME CallTypeOK, HandlersJoinNothing, RunningEndHandlers
  PROVE  TeardownReady
<1>1. \A h \in Handlers : call[h] \in CallStates /\ call[h] # "awaitingClose"
  BY DEF CallTypeOK, Callers, HandlersJoinNothing
<1>2. CASE HandlerHung
  BY <1>2 DEF TeardownReady
<1>3. CASE \A h \in Handlers : call[h] \in {"idle", "returned", "rejected"}
  <2>1. CASE \A h \in Handlers : call[h] \in {"returned", "rejected"}
    BY <2>1 DEF TeardownReady
  <2>2. ASSUME NEW h \in Handlers, call[h] = "idle" PROVE HandlerReady(h)
    BY <1>3, <2>2 DEF HandlerReady, HandlerTurn
  <2> QED
    BY <1>3, <2>1, <2>2 DEF TeardownReady
<1>4. ASSUME NEW h \in Handlers, call[h] \in {"ending", "loggingOut", "logoutEnding"}
      PROVE  CallReady(h)
  BY <1>4 DEF CallReady, EndAnswered, HandlersJoinNothing
<1> QED
  BY <1>1, <1>2, <1>3, <1>4 DEF TeardownReady, HandlerReady, HandlerHung, CallStates

(* So can a release in flight. *)
LEMMA ReleaseGoesOn ==
  ASSUME ReleaseMatches, SocketTypeOK, releasing[Client] = "running"
  PROVE  ReleaseReady
BY DEF ReleaseMatches, SocketTypeOK, ReleaseReady

(* A close that has begun and not settled with init() can go on. *)
LEMMA CloseGoesOn ==
  ASSUME IInv, WaitInv, closer # "idle", ~CloseSettled
  PROVE  CloseReady
<1> USE LifecycleAssumption
<1>1. OwnerFacts /\ SocketTypeOK /\ CallTypeOK /\ TeardownMatches /\ ReleaseMatches
  BY OwnerKnown, TypesParted DEF IInv
<1>2. CASE closer = "settled"
  <2>1. done \in {"resolved", "rejected"} /\ init # "settled"
    BY <1>1, <1>2 DEF OwnerFacts, CloseSettled, InitSettled
  <2>2. CASE init \in {"creating", "configuring", "joining"}
    BY <1>2, <2>1, <2>2 DEF CloseReady, InitReady
  <2>3. CASE init = "probing"
    BY <1>1, <1>2, <2>3 DEF CloseReady, InitReady, WaitInv, ClientIsNew, OwnerFacts
  <2>4. CASE init = "refused"
    BY <1>1, <1>2, <2>4, ReleaseGoesOn DEF CloseReady, InitReady, WaitInv, CloseIsPromised
  <2> QED
    BY <1>1, <2>1, <2>2, <2>3, <2>4 DEF SocketTypeOK
<1>3. CASE closer = "scheduled"
  BY <1>3 DEF CloseReady
<1>4. CASE closer = "teardown"
  <2>1. CASE teardown \in {"wsClosed", "wsFailed", "direct", "flush", "barrier", "settled"}
    BY <1>4, <2>1 DEF CloseReady, TeardownReady
  <2>2. CASE teardown = "ws"
    BY <1>1, <1>4, <2>2 DEF CloseReady, TeardownReady, WaitInv, TransportCloses, SocketTypeOK
  <2>3. CASE teardown = "handlers"
    BY <1>1, <1>4, <2>3, HandlersGoOn DEF CloseReady, WaitInv, RunningEndHandlers
  <2> QED
    BY <1>1, <1>4, <2>1, <2>2, <2>3 DEF SocketTypeOK, TeardownMatches
<1>5. CASE closer = "release"
  <2>1. captured = Client /\ releasing[Client] # "none"
    BY <1>1, <1>5 DEF OwnerFacts, IInv, OwnerProofs!OwnerIInv, OwnerProofs!RunningIsAwaited,
       OwnerProofs!NeverOwnerless
  <2> QED
    BY <1>1, <1>5, <2>1, ReleaseGoesOn DEF OwnerFacts, CloseReady
<1>6. CASE closer = "drain"
  BY <1>1, <1>6, ReleaseGoesOn DEF CloseReady, WaitInv, CloseIsPromised
<1> QED
  BY <1>1, <1>2, <1>3, <1>4, <1>5, <1>6 DEF OwnerFacts

(* No promise of a socket waits for itself, for any number of callers and  *)
(* end handlers and in any order: an end() or logout() in progress, also   *)
(* one made by an end handler or during a failing init(), can go on, or    *)
(* what the close it waits for awaits in turn can, unless an end handler   *)
(* of the consumer never returns; and a claimed close has its timer until  *)
(* it is published (core.ts, end, logout, runEndHandlers;                  *)
(* terminal-close-reporter.ts, reportAfter).                               *)
THEOREM NothingWaitsForItself == Spec => []NoWaitCycle
<1>1. ASSUME IInv, WaitInv, NEW c \in Callers, InProgress(c)
      PROVE  CallReady(c) \/ CloseReady \/ (awaiting /\ CloseSettled)
  <2>1. CASE ~CloseSettled
    BY <1>1, <2>1, CloseGoesOn DEF InProgress, CallReady, WaitInv, WaitersHaveClosed
  <2>2. CASE CloseSettled
    BY <1>1, <2>2 DEF InProgress, CallReady, EndAnswered, WaitInv, PublishIsTimed
  <2> QED
    BY <2>1, <2>2
<1>2. ASSUME IInv, WaitInv, claim # "none", deliveries = 0 PROVE watchdog = "armed"
  BY <1>2 DEF IInv, TypeOK, Reporter!ReporterTypeOK, ReportMatches, WaitInv, PublishIsTimed
<1>3. IInv /\ WaitInv => NoWaitCycle
  BY <1>1, <1>2 DEF NoWaitCycle
<1>4. Spec => []WaitInv
  BY WaitsInitially, WaitsKeep, Invariance, PTL DEF Spec
<1> QED
  BY <1>3, <1>4, Invariance, PTL
=============================================================================
