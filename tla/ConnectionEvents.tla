--------------------------- MODULE ConnectionEvents ---------------------------
(***************************************************************************)
(* What the event dispatcher reports of the connection and of the history  *)
(* sync (src/src/Socket/events-core.ts), against an engine that retries,   *)
(* stops, and reads the auto-reconnect flag on its own.                    *)
(*                                                                         *)
(* The engine is external: `up`, `down` (the loop goes on without a        *)
(* connection), `leaving` (Disconnected is dispatched, the flag not yet    *)
(* tested) or `stopped`.  Teardown is the subject of SocketLifecycle; here *)
(* it runs the dispatcher's end handler and frees the client.              *)
(***************************************************************************)
EXTENDS Sequences

VARIABLES
  engine,            \* the engine's run loop
  autoReconnect,     \* autoReconnectEnabled
  connection,        \* the connection of the last connection.update
  closing,           \* owner.isClosing()
  closeReported,     \* a terminal close was claimed
  timerCleared,           \* last event that had to cancel the pause timer: none, terminal, cleanup
  clientFreed,       \* teardown is over
  bootstrapComplete, \* initialBootstrapComplete
  recentComplete,    \* recentSyncComplete
  pausedTimeout,     \* off, or the value of `timerCleared` when it was armed
  recentBegun,       \* history: a RECENT chunk ended
  statuses           \* history: the messaging-history.status emitted

engineVars == <<engine, autoReconnect>>
closeVars == <<closing, closeReported, timerCleared, clientFreed>>
historyVars == <<bootstrapComplete, recentComplete, pausedTimeout, recentBegun, statuses>>
eventVars == <<engineVars, connection, closeVars, historyVars>>

EventsInit ==
  /\ engine = "down" /\ autoReconnect = TRUE
  /\ connection = "connecting"
  /\ closing = FALSE /\ closeReported = FALSE /\ timerCleared = "none" /\ clientFreed = FALSE
  /\ bootstrapComplete = FALSE /\ recentComplete = FALSE
  /\ pausedTimeout = "off" /\ recentBegun = FALSE /\ statuses = <<>>

EventsTypeOK ==
  /\ engine \in {"up", "down", "leaving", "stopped"}
  /\ {autoReconnect, closing, closeReported, clientFreed,
      bootstrapComplete, recentComplete, recentBegun} \subseteq BOOLEAN
  /\ connection \in {"connecting", "open", "close"}
  /\ timerCleared \in {"none", "terminal", "cleanup"}
  /\ pausedTimeout \in {"off", "none", "terminal", "cleanup"}
  /\ statuses \in Seq([sync : {"initial", "recent"}, status : {"complete", "paused"}, late : BOOLEAN])

-----------------------------------------------------------------------------
(* Connection events *)

ReportTerminal == closing' = TRUE /\ closeReported' = TRUE

(* Mutant: the pause timer stays armed. *)
BugEmitClose ==
  /\ ReportTerminal
  /\ timerCleared' = IF timerCleared = "none" THEN "terminal" ELSE timerCleared
  /\ UNCHANGED <<connection, clientFreed, historyVars>>

EmitClose ==
  /\ ReportTerminal
  /\ timerCleared' = IF timerCleared = "none" THEN "terminal" ELSE timerCleared
  /\ pausedTimeout' = "off"
  /\ UNCHANGED <<connection, clientFreed, bootstrapComplete, recentComplete, recentBegun, statuses>>

Publishes(state) == connection' = state /\ UNCHANGED <<closeVars, historyVars>>

(* Mutant: a drop cancels the pause timer. *)
BugEmitRetrying ==
  /\ connection' = "connecting" /\ pausedTimeout' = "off"
  /\ UNCHANGED <<closeVars, bootstrapComplete, recentComplete, recentBegun, statuses>>

EmitRetrying == Publishes("connecting")

RetriesOrCloses == IF autoReconnect THEN EmitRetrying ELSE EmitClose

(* The engine changes its state and dispatches an event. *)
Engine(from, to) == ~clientFreed /\ engine \in from /\ engine' = to /\ UNCHANGED autoReconnect

Connected == Engine({"down"}, "up") /\ Publishes("open")
Disconnected == Engine({"up"}, "leaving") /\ RetriesOrCloses

ConnectFailure ==
  \/ Engine({"down"}, "leaving") /\ RetriesOrCloses
  \/ Engine({"down"}, "stopped") /\ EmitClose

(* The loop goes on: a failed pairing, a stream error of code 429. *)
PairError == Engine({"up"}, "up") /\ EmitRetrying
RateLimited == Engine({"up"}, "up") /\ autoReconnect /\ EmitRetrying

(* loggedOut, streamReplaced, clientOutdated, temporaryBan, qrCodesExhausted *)
Terminal == Engine({"up", "down"}, "stopped") /\ EmitClose

TestsFlag ==
  /\ Engine({"leaving"}, IF autoReconnect THEN "down" ELSE "stopped")
  /\ UNCHANGED <<connection, closeVars, historyVars>>

SetAutoReconnect ==
  /\ autoReconnect' = ~autoReconnect
  /\ UNCHANGED <<engine, connection, closeVars, historyVars>>

(* The observer of waitForRunCompletion(). *)
RunEnds ==
  /\ engine = "stopped" /\ ~closing
  /\ ReportTerminal
  /\ UNCHANGED <<engineVars, connection, timerCleared, clientFreed, historyVars>>

SocketEnds ==
  /\ closing' = TRUE
  /\ UNCHANGED <<engineVars, connection, closeReported, timerCleared, clientFreed, historyVars>>

(* Teardown runs the end handler of the dispatcher, then frees the client. *)
Cleanup ==
  /\ closing /\ timerCleared # "cleanup"
  /\ timerCleared' = "cleanup"
  /\ pausedTimeout' = "off"
  /\ UNCHANGED <<engineVars, connection, closing, closeReported, clientFreed,
                 bootstrapComplete, recentComplete, recentBegun, statuses>>

Freed ==
  /\ timerCleared = "cleanup" /\ ~clientFreed
  /\ clientFreed' = TRUE /\ engine' = "stopped"
  /\ UNCHANGED <<autoReconnect, connection, closing, closeReported, timerCleared, historyVars>>

PublishClose ==
  /\ closeReported /\ clientFreed /\ connection # "close"
  /\ connection' = "close"
  /\ UNCHANGED <<engineVars, closeVars, historyVars>>

-----------------------------------------------------------------------------
(* History sync *)

Reports(sync, status, late) ==
  statuses' = Append(statuses, [sync |-> sync, status |-> status, late |-> late])

Sync == ~clientFreed /\ UNCHANGED <<engineVars, connection, closeVars>>

(* The last batch of a chunk; the batches before it change nothing here.   *)
InitialSync ==
  /\ Sync /\ ~bootstrapComplete
  /\ bootstrapComplete' = TRUE
  /\ Reports("initial", "complete", FALSE)
  /\ UNCHANGED <<recentComplete, pausedTimeout, recentBegun>>

RecentSync(progress) ==
  /\ Sync /\ ~recentComplete
  /\ recentBegun' = TRUE
  /\ IF progress = 100
     THEN /\ recentComplete' = TRUE
          /\ pausedTimeout' = "off"
          /\ Reports("recent", "complete", FALSE)
     ELSE pausedTimeout' = timerCleared /\ UNCHANGED <<recentComplete, statuses>>
  /\ UNCHANGED bootstrapComplete

(* The timer fires HISTORY_SYNC_PAUSED_TIMEOUT_MS after the last chunk. *)
PausedFires ==
  /\ pausedTimeout # "off"
  /\ pausedTimeout' = "off"
  /\ IF recentComplete THEN UNCHANGED <<recentComplete, statuses>>
     ELSE recentComplete' = TRUE /\ Reports("recent", "paused", pausedTimeout # timerCleared)
  /\ UNCHANGED <<engineVars, connection, closeVars, bootstrapComplete, recentBegun>>

EventsNext ==
  \/ Connected \/ Disconnected \/ ConnectFailure \/ PairError \/ RateLimited \/ Terminal
  \/ TestsFlag \/ SetAutoReconnect \/ RunEnds \/ SocketEnds \/ Cleanup \/ Freed \/ PublishClose
  \/ InitialSync \/ (\E progress \in {50, 100} : RecentSync(progress)) \/ PausedFires

(* Timers fire, promises settle, the engine tests its flag, a close is     *)
(* carried out; nobody has to connect, drop or sync.  A sync sends         *)
(* finitely many chunks, so that its timer is not restarted for ever.      *)
EventsFairness ==
  /\ WF_eventVars(TestsFlag) /\ WF_eventVars(RunEnds) /\ WF_eventVars(PausedFires)
  /\ WF_eventVars(Cleanup) /\ WF_eventVars(Freed) /\ WF_eventVars(PublishClose)

EventsSpec == EventsInit /\ [][EventsNext]_eventVars /\ EventsFairness

-----------------------------------------------------------------------------
(* Each sync reports its end once, and never by a timer armed before a     *)
(* terminal event or the end of the socket (events-core.ts, emitClose,     *)
(* historySync and the cleanup handler).                                   *)
StatusSound ==
  /\ \A i \in DOMAIN statuses : ~statuses[i].late
  /\ \A i, j \in DOMAIN statuses : statuses[i].sync = statuses[j].sync => i = j

(* A RECENT sync that has begun is reported complete or paused unless the  *)
(* socket ends, however the connection drops and is restored meanwhile     *)
(* (events-core.ts, disconnected and historySync).                         *)
RecentSyncReported == recentBegun ~> (recentComplete \/ closing)

(* An engine that stopped is announced by a close unless end() was called, *)
(* even if the flag changed between the event and the engine's own test    *)
(* (events-core.ts, disconnected; core.ts, waitForRunCompletion).          *)
StopIsAnnounced ==
  (engine = "stopped" /\ ~closing) ~> (connection = "close" \/ (closing /\ ~closeReported))
=============================================================================
