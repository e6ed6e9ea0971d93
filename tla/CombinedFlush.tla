---------------------------- MODULE CombinedFlush ----------------------------
(***************************************************************************)
(* flush() of the combined file store                                      *)
(* (src/src/Utils/transactional-file-store.ts): a barrier over every       *)
(* callback admitted to either of its two backends, the atomic snapshot    *)
(* (src/src/Utils/snapshot-transactions.ts), whose callbacks settle in the *)
(* order of their admission, and the per-key store, here reduced to        *)
(* callbacks that settle in any order and may leave a debounced write.     *)
(* What its own flush guarantees is the subject of BridgeStore.            *)
(*                                                                         *)
(* A callback may never settle: only the deadline of 30 s then ends a      *)
(* flush.  Time is abstract, a deadline may pass whenever somebody waits.  *)
(***************************************************************************)
EXTENDS Naturals, Sequences

CONSTANTS
  Flushes,      \* calls of flush()
  MaxCallbacks  \* bound: callbacks admitted

ASSUME FlushAssumption == MaxCallbacks \in Nat /\ 0 \notin Flushes

VARIABLES
  callbacks,  \* the callbacks admitted so far: their backend and their state
  retained,   \* inFlight of the snapshot: unsettled, or failed and not observed
  pendingCallbacks, \* pendingCallbacks of the combined store
  dirty,      \* the per-key store has a debounced write to flush
  flush,      \* per call of flush(): its position, pass and errors
  snapDrain,  \* per call: the snapshot.flush() of its pass
  ordDrain    \* per call: the drain of the per-key store of its pass

flushVars == <<callbacks, retained, pendingCallbacks, dirty, flush, snapDrain, ordDrain>>
callbackVars == <<callbacks, retained, pendingCallbacks, dirty>>

(* A loop over snapshots of what was admitted: what it waits for now, and  *)
(* the failures it has recorded.  0 stands for a failed debounced write.   *)
Loops == [at : {"idle", "waiting", "turn", "resolved", "rejected"},
          admitted : SUBSET (1..MaxCallbacks), errors : SUBSET (0..MaxCallbacks),
          before : 0..MaxCallbacks]
Loop(at, admitted, errors) ==
  [at |-> at, admitted |-> admitted, errors |-> errors, before |-> 0]
NoLoop == Loop("idle", {}, {})
Ended(errors) == Loop(IF errors = {} THEN "resolved" ELSE "rejected", {}, errors)

CombinedInit ==
  /\ callbacks = <<>>
  /\ retained = {} /\ pendingCallbacks = {} /\ dirty = FALSE
  /\ flush = [f \in Flushes |-> NoLoop]
  /\ snapDrain = flush /\ ordDrain = flush

CombinedTypeOK ==
  /\ callbacks \in Seq([backend : {"snapshot", "ordinary"},
                        state : {"pending", "ok", "failed", "failedAlone"}])
  /\ retained \subseteq DOMAIN callbacks /\ pendingCallbacks \subseteq DOMAIN callbacks
  /\ dirty \in BOOLEAN
  /\ \A loop \in {flush, snapDrain, ordDrain} : loop \in [Flushes -> Loops]

Pending(i) == callbacks[i].state = "pending"
Failed(s) == {i \in s : callbacks[i].state \in {"failed", "failedAlone"}}
Of(backend) == {i \in DOMAIN callbacks : callbacks[i].backend = backend}
Active == {f \in Flushes : flush[f].at \in {"waiting", "turn"}}
Over(loop) == loop.at \in {"resolved", "rejected"}

-----------------------------------------------------------------------------
(* The callbacks *)

Admit(backend) ==
  /\ Len(callbacks) < MaxCallbacks
  /\ callbacks' = Append(callbacks, [backend |-> backend, state |-> "pending"])
  /\ pendingCallbacks' = pendingCallbacks \cup {Len(callbacks) + 1}
  /\ retained' = IF backend = "snapshot" THEN retained \cup {Len(callbacks) + 1} ELSE retained
  /\ UNCHANGED <<dirty, flush, snapDrain, ordDrain>>

MaySettle(i) ==
  /\ Pending(i)
  /\ i \in Of("snapshot") => \A j \in Of("snapshot") : j < i => ~Pending(j)

Succeeds(i) ==
  /\ MaySettle(i)
  /\ callbacks' = [callbacks EXCEPT ![i].state = "ok"]
  /\ retained' = retained \ {i}
  /\ pendingCallbacks' = pendingCallbacks \ {i}
  /\ dirty' \in {dirty, dirty \/ i \in Of("ordinary")}
  /\ UNCHANGED <<flush, snapDrain, ordDrain>>

(* Mutant: a failure is not kept, not even during a drain. *)
BugKeepsFailure == FALSE

(* "Keep failures admitted during a drain." *)
KeepsFailure == Active # {}

Fails(i) ==
  /\ MaySettle(i)
  /\ callbacks' = [callbacks EXCEPT ![i].state = IF Active = {} THEN "failedAlone" ELSE "failed"]
  /\ pendingCallbacks' = IF KeepsFailure THEN pendingCallbacks ELSE pendingCallbacks \ {i}
  /\ UNCHANGED <<retained, dirty, flush, snapDrain, ordDrain>>

-----------------------------------------------------------------------------
(* flush() *)

(* A pass takes a snapshot of the callbacks and starts both drains. *)
PassStarts(f, errors) ==
  /\ flush' = [flush EXCEPT ![f] = [at |-> "waiting", admitted |-> pendingCallbacks,
                                    errors |-> errors, before |-> Len(callbacks)]]
  /\ snapDrain' = [snapDrain EXCEPT ![f] = Loop("waiting", retained, {})]
  /\ ordDrain' = [ordDrain EXCEPT ![f] =
       Loop("waiting", {i \in Of("ordinary") : Pending(i)}, {})]
  /\ UNCHANGED callbackVars

CallCombined(f) == flush[f].at = "idle" /\ PassStarts(f, {})

(* Failures of a pass: of what it awaited, and what its drains recorded.   *)
SnapErrors(f) == snapDrain[f].errors \cup Failed(snapDrain[f].admitted)
Known(f) == flush[f].errors \cup Failed(flush[f].admitted)
              \cup SnapErrors(f) \cup ordDrain[f].errors

(* Everything the pass awaits has settled. *)
PassSettles(f) ==
  /\ flush[f].at = "waiting"
  /\ Over(snapDrain[f]) /\ Over(ordDrain[f])
  /\ \A i \in flush[f].admitted : ~Pending(i)
  /\ flush' = [flush EXCEPT ![f].at = "turn", ![f].errors = Known(f)]
  /\ pendingCallbacks' = pendingCallbacks \ flush[f].admitted
  /\ snapDrain' = [snapDrain EXCEPT ![f] = NoLoop]
  /\ ordDrain' = [ordDrain EXCEPT ![f] = NoLoop]
  /\ UNCHANGED <<callbacks, retained, dirty>>

(* Mutant: the pass does not look for callbacks admitted meanwhile. *)
BugQuiet(f) == flush[f].admitted = {}

(* Nothing was awaited, admitted or left behind. *)
Quiet(f) ==
  /\ flush[f].admitted = {}
  /\ flush[f].before = Len(callbacks)
  /\ pendingCallbacks = {}

(* The event-loop turn after a pass: the flush is done, or goes on. *)
TurnPasses(f) ==
  /\ flush[f].at = "turn"
  /\ IF Quiet(f)
     THEN /\ flush' = [flush EXCEPT ![f] = Ended(flush[f].errors)]
          /\ UNCHANGED <<callbackVars, snapDrain, ordDrain>>
     ELSE PassStarts(f, flush[f].errors)

(* Mutant: no timer is set. *)
BugDeadline(f) == FALSE

(* The deadline passes while the flush waits, or is found to have passed   *)
(* after a turn.  The drains it has started go on.                         *)
Deadline(f) ==
  /\ f \in Active
  /\ flush[f].at = "waiting" \/ ~Quiet(f)
  /\ flush' = [flush EXCEPT ![f] = Loop("rejected", {}, Known(f))]
  /\ UNCHANGED <<callbackVars, snapDrain, ordDrain>>

-----------------------------------------------------------------------------
(* snapshot.flush() *)

(* What it awaited has settled: failures are recorded and forgotten. *)
SnapSettles(f) ==
  /\ snapDrain[f].at = "waiting"
  /\ \A i \in snapDrain[f].admitted : ~Pending(i)
  /\ retained' = retained \ snapDrain[f].admitted
  /\ snapDrain' = [snapDrain EXCEPT ![f] = Loop("turn", {}, SnapErrors(f))]
  /\ UNCHANGED <<callbacks, pendingCallbacks, dirty, flush, ordDrain>>

SnapTurn(f) ==
  /\ snapDrain[f].at = "turn"
  /\ snapDrain' = [snapDrain EXCEPT ![f] =
       IF retained = {} THEN Ended(@.errors) ELSE Loop("waiting", retained, @.errors)]
  /\ UNCHANGED <<callbackVars, flush, ordDrain>>

(* Its own deadline, never before that of the flush that started it. *)
SnapDeadline(f) ==
  /\ flush[f].at = "rejected"
  /\ snapDrain[f].at \in {"waiting", "turn"}
  /\ snapDrain' = [snapDrain EXCEPT ![f] = Loop("rejected", {}, SnapErrors(f))]
  /\ UNCHANGED <<callbackVars, flush, ordDrain>>

(* The per-key store's drain waits for its callbacks, writes the debounced *)
(* entries and starts over; a failure ends it.                             *)
OrdDrains(f, ok) ==
  LET known == ordDrain[f].errors \cup Failed(ordDrain[f].admitted)
      rest == {i \in Of("ordinary") : Pending(i)}
  IN /\ ordDrain[f].at = "waiting"
     /\ \A i \in ordDrain[f].admitted : ~Pending(i)
     /\ ok \/ dirty
     /\ dirty' = (dirty /\ ~ok)
     /\ ordDrain' = [ordDrain EXCEPT ![f] =
          IF ~ok THEN Ended(known \cup {0})
          ELSE IF ~dirty /\ rest = {} THEN Ended(known) ELSE Loop("waiting", rest, known)]
     /\ UNCHANGED <<callbacks, retained, pendingCallbacks, flush, snapDrain>>

-----------------------------------------------------------------------------
FlushAdvances(f) ==
  \/ PassSettles(f)
  \/ TurnPasses(f)
  \/ SnapSettles(f)
  \/ SnapTurn(f)
  \/ \E ok \in BOOLEAN : OrdDrains(f, ok)

CombinedNext ==
  \/ \E backend \in {"snapshot", "ordinary"} : Admit(backend)
  \/ \E i \in DOMAIN callbacks : Succeeds(i) \/ Fails(i)
  \/ \E f \in Flushes : CallCombined(f) \/ FlushAdvances(f) \/ Deadline(f) \/ SnapDeadline(f)

(* Timers fire and settled promises resume; no callback has to settle. *)
CombinedFairness ==
  \A f \in Flushes : WF_flushVars(FlushAdvances(f)) /\ WF_flushVars(Deadline(f))

CombinedSpec == CombinedInit /\ [][CombinedNext]_flushVars /\ CombinedFairness

-----------------------------------------------------------------------------
(* When a combined flush resolves, no callback of either backend is        *)
(* pending and no debounced write is left, also when completions of one    *)
(* backend kept admitting callbacks to the other                           *)
(* (transactional-file-store.ts, flush and admit).                         *)
FlushedMeansQuiet ==
  [][\A f \in Flushes : flush[f].at # "resolved" /\ flush'[f].at = "resolved" =>
       ~dirty' /\ \A i \in DOMAIN callbacks' : callbacks'[i].state # "pending"]_flushVars

(* A callback that fails while a flush is in progress, or any callback of  *)
(* the snapshot, is held for a flush to observe until one that does not    *)
(* resolve has recorded it: a resolved flush has swallowed no failure      *)
(* (transactional-file-store.ts, admit; snapshot-transactions.ts,          *)
(* exclusive).                                                             *)
NoFailureSwallowed ==
  \A i \in DOMAIN callbacks :
    callbacks[i].state = "failed" \/ (callbacks[i].state = "failedAlone" /\ i \in Of("snapshot")) =>
      \/ i \in pendingCallbacks \cup retained
      \/ \E f \in Flushes : flush[f].at # "resolved" /\ i \in Known(f)

(* Every flush settles, though callbacks may hang and more keep coming. *)
CombinedFlushSettles == \A f \in Flushes : (f \in Active) ~> (f \notin Active)
=============================================================================
