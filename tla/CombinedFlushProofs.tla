------------------------ MODULE CombinedFlushProofs ------------------------
(***************************************************************************)
(* Theorems about the combined flush, for any number of flushes and of     *)
(* callbacks: a resolved flush has swallowed no failure and found both     *)
(* backends quiet.                                                         *)
(***************************************************************************)
EXTENDS CombinedFlush, SequenceTheorems, TLAPS

Callbacks == [backend : {"snapshot", "ordinary"},
              state : {"pending", "ok", "failed", "failedAlone"}]

(* The types one by one, and the bound on admissions. *)
FlushTypes ==
  /\ callbacks \in Seq(Callbacks)
  /\ Len(callbacks) <= MaxCallbacks
  /\ retained \subseteq DOMAIN callbacks
  /\ pendingCallbacks \subseteq DOMAIN callbacks
  /\ dirty \in BOOLEAN
  /\ flush \in [Flushes -> Loops]
  /\ snapDrain \in [Flushes -> Loops]
  /\ ordDrain \in [Flushes -> Loops]

(* What a loop refers to has been admitted. *)
Refers(f) ==
  /\ flush[f].admitted \subseteq DOMAIN callbacks
  /\ snapDrain[f].admitted \subseteq DOMAIN callbacks
  /\ flush[f].before <= Len(callbacks)

(* Drains belong to a pass, or to a flush its deadline ended. *)
Belongs(f) ==
  /\ flush[f].at \in {"idle", "turn", "resolved"} => snapDrain[f] = NoLoop /\ ordDrain[f] = NoLoop
  /\ flush[f].at \in {"idle", "resolved"} => flush[f].admitted = {} /\ flush[f].errors = {}
  /\ snapDrain[f].at # "waiting" => snapDrain[f].admitted = {}
  /\ ordDrain[f].at = "rejected" => ordDrain[f].errors # {}

(* After a pass what it awaited has settled, its failures are recorded. *)
Recorded(f) ==
  flush[f].at = "turn" =>
    /\ \A i \in flush[f].admitted : ~Pending(i)
    /\ Failed(flush[f].admitted) \subseteq flush[f].errors

(* A pass that found nothing to wait for, and nothing has come since. *)
Alone(f) ==
  /\ flush[f].at \in {"waiting", "turn"}
  /\ flush[f].admitted = {}
  /\ flush[f].before = Len(callbacks)

(* During such a pass nothing is pending, and nothing is left to write     *)
(* once the per-key store's drain has resolved.                            *)
AloneIsQuiet(f) ==
  Alone(f) =>
    /\ \A i \in DOMAIN callbacks : ~Pending(i)
    /\ flush[f].at = "waiting" /\ ordDrain[f].at = "resolved" => ~dirty
    /\ flush[f].at = "turn" /\ flush[f].errors = {} => ~dirty

LoopsRefer == \A f \in Flushes : Refers(f)
DrainsBelong == \A f \in Flushes : Belongs(f)
PassRecorded == \A f \in Flushes : Recorded(f)
AlonePassIsQuiet == \A f \in Flushes : AloneIsQuiet(f)

(* An unsettled callback is where a flush looks for it. *)
PendingIsHeld ==
  \A i \in DOMAIN callbacks :
    Pending(i) => i \in pendingCallbacks /\ (callbacks[i].backend = "snapshot" => i \in retained)

(* The inductive invariant. *)
FlushIInv ==
  /\ FlushTypes
  /\ LoopsRefer
  /\ PendingIsHeld
  /\ DrainsBelong
  /\ PassRecorded
  /\ AlonePassIsQuiet
  /\ NoFailureSwallowed

-----------------------------------------------------------------------------
(* What the actions on callbacks do to them. *)

LEMMA DomainIsLength ==
  ASSUME FlushTypes
  PROVE  /\ DOMAIN callbacks = 1..Len(callbacks)
         /\ Len(callbacks) \in Nat
         /\ DOMAIN callbacks \subseteq 1..MaxCallbacks
         /\ \A i \in DOMAIN callbacks : callbacks[i] \in Callbacks
  <1>1. callbacks \in Seq(Callbacks) /\ Len(callbacks) <= MaxCallbacks
    BY DEF FlushTypes
  <1>2. DOMAIN callbacks = 1..Len(callbacks) /\ Len(callbacks) \in Nat
    BY <1>1, LenProperties
  <1>3. \A i \in 1..Len(callbacks) : callbacks[i] \in Callbacks
    BY <1>1, ElementOfSeq
  <1>4. 1..Len(callbacks) \subseteq 1..MaxCallbacks
    BY <1>1, <1>2, FlushAssumption
  <1> QED
    BY <1>2, <1>3, <1>4

LEMMA AdmitAppends ==
  ASSUME FlushTypes, NEW backend \in {"snapshot", "ordinary"}, Admit(backend)
  PROVE  /\ callbacks' \in Seq(Callbacks)
         /\ Len(callbacks') = Len(callbacks) + 1
         /\ DOMAIN callbacks' = DOMAIN callbacks \cup {Len(callbacks) + 1}
         /\ Len(callbacks) + 1 \notin DOMAIN callbacks
         /\ \A j \in DOMAIN callbacks : callbacks'[j] = callbacks[j]
         /\ callbacks'[Len(callbacks) + 1] = [backend |-> backend, state |-> "pending"]
  <1>1. [backend |-> backend, state |-> "pending"] \in Callbacks
    BY DEF Callbacks
  <1> QED
    BY <1>1 DEF FlushTypes, Admit

LEMMA SettleChangesOne ==
  ASSUME FlushTypes, NEW i \in DOMAIN callbacks, NEW s \in {"ok", "failed", "failedAlone"},
         callbacks' = [callbacks EXCEPT ![i].state = s]
  PROVE  /\ callbacks' \in Seq(Callbacks)
         /\ Len(callbacks') = Len(callbacks)
         /\ DOMAIN callbacks' = DOMAIN callbacks
         /\ \A j \in DOMAIN callbacks : j # i => callbacks'[j] = callbacks[j]
         /\ callbacks'[i].state = s
         /\ callbacks'[i].backend = callbacks[i].backend
  <1> DEFINE e == [backend |-> callbacks[i].backend, state |-> s]
  <1>1. callbacks[i] \in Callbacks /\ i \in 1..Len(callbacks)
    BY DomainIsLength
  <1>2. e \in Callbacks /\ e = [callbacks[i] EXCEPT !.state = s]
    BY <1>1 DEF Callbacks
  <1>3. callbacks' = [callbacks EXCEPT ![i] = e]
    BY <1>2
  <1>4. e.state = s /\ e.backend = callbacks[i].backend
    OBVIOUS
  <1> HIDE DEF e
  <1>5. callbacks \in Seq(Callbacks)
    BY DEF FlushTypes
  <1>6. /\ callbacks' \in Seq(Callbacks)
        /\ Len(callbacks') = Len(callbacks)
        /\ \A j \in 1..Len(callbacks) : callbacks'[j] = IF j = i THEN e ELSE callbacks[j]
    BY <1>1, <1>2, <1>3, <1>5, ExceptSeq
  <1>7. DOMAIN callbacks' = DOMAIN callbacks
    BY <1>3
  <1> QED
    BY <1>1, <1>4, <1>6, <1>7, DomainIsLength

LEMMA SettledIsOther ==
  ASSUME NEW i \in DOMAIN callbacks, MaySettle(i)
  PROVE  Pending(i)
  BY DEF MaySettle

-----------------------------------------------------------------------------
(* FlushTypes *)

LEMMA KnownIsTyped ==
  ASSUME FlushTypes, LoopsRefer, NEW f \in Flushes
  PROVE  /\ Known(f) \in SUBSET (0..MaxCallbacks)
         /\ SnapErrors(f) \in SUBSET (0..MaxCallbacks)
  <1>1. flush[f] \in Loops /\ snapDrain[f] \in Loops /\ ordDrain[f] \in Loops
    BY DEF FlushTypes
  <1>2. /\ flush[f].errors \subseteq 0..MaxCallbacks
        /\ snapDrain[f].errors \subseteq 0..MaxCallbacks
        /\ ordDrain[f].errors \subseteq 0..MaxCallbacks
        /\ flush[f].admitted \subseteq 1..MaxCallbacks
        /\ snapDrain[f].admitted \subseteq 1..MaxCallbacks
    BY <1>1 DEF Loops
  <1>3. 1..MaxCallbacks \subseteq 0..MaxCallbacks
    BY FlushAssumption
  <1> QED
    BY <1>2, <1>3 DEF Known, SnapErrors, Failed

LEMMA LoopTyped ==
  ASSUME NEW at \in {"idle", "waiting", "turn", "resolved", "rejected"},
         NEW s \in SUBSET (1..MaxCallbacks), NEW errors \in SUBSET (0..MaxCallbacks)
  PROVE  Loop(at, s, errors) \in Loops
  BY FlushAssumption DEF Loop, Loops

LEMMA NoLoopTyped == NoLoop \in Loops
  BY LoopTyped DEF NoLoop

(* An ended loop is resolved when it has no errors. *)
LEMMA EndedTyped ==
  ASSUME NEW errors \in SUBSET (0..MaxCallbacks)
  PROVE  /\ Ended(errors) \in Loops
         /\ Ended(errors).errors = errors
         /\ Ended(errors).admitted = {}
         /\ Ended(errors).before = 0
         /\ errors = {} => Ended(errors).at = "resolved"
         /\ errors # {} => Ended(errors).at = "rejected"
  <1> DEFINE end == IF errors = {} THEN "resolved" ELSE "rejected"
  <1>1. Ended(errors) = Loop(end, {}, errors)
    BY DEF Ended
  <1>2. /\ end \in {"idle", "waiting", "turn", "resolved", "rejected"}
        /\ errors = {} => end = "resolved"
        /\ errors # {} => end = "rejected"
    OBVIOUS
  <1> HIDE DEF end
  <1>3. Loop(end, {}, errors) \in Loops
    BY <1>2, LoopTyped
  <1>4. /\ Loop(end, {}, errors).at = end
        /\ Loop(end, {}, errors).admitted = {}
        /\ Loop(end, {}, errors).errors = errors
        /\ Loop(end, {}, errors).before = 0
    BY DEF Loop
  <1> QED
    BY <1>1, <1>2, <1>3, <1>4

LEMMA PassStartsTyped ==
  ASSUME FlushTypes, NEW f \in Flushes, NEW errors \in SUBSET (0..MaxCallbacks),
         PassStarts(f, errors)
  PROVE  FlushTypes'
  <1>1. /\ pendingCallbacks \in SUBSET (1..MaxCallbacks)
        /\ retained \in SUBSET (1..MaxCallbacks)
        /\ {i \in Of("ordinary") : Pending(i)} \in SUBSET (1..MaxCallbacks)
        /\ {} \in SUBSET (0..MaxCallbacks)
    BY DomainIsLength DEF FlushTypes, Of
  <1>2. Len(callbacks) \in 0..MaxCallbacks
    BY DomainIsLength, FlushAssumption DEF FlushTypes
  <1>3. [at |-> "waiting", admitted |-> pendingCallbacks,
         errors |-> errors, before |-> Len(callbacks)] \in Loops
    BY <1>1, <1>2 DEF Loops
  <1>4. /\ Loop("waiting", retained, {}) \in Loops
        /\ Loop("waiting", {i \in Of("ordinary") : Pending(i)}, {}) \in Loops
    BY <1>1, LoopTyped
  <1> QED
    BY <1>3, <1>4 DEF PassStarts, FlushTypes, callbackVars

LEMMA CallbackStepTyped ==
  ASSUME FlushTypes,
         \/ \E backend \in {"snapshot", "ordinary"} : Admit(backend)
         \/ \E i \in DOMAIN callbacks : Succeeds(i) \/ Fails(i)
  PROVE  FlushTypes'
  <1>1. ASSUME NEW backend \in {"snapshot", "ordinary"}, Admit(backend) PROVE FlushTypes'
    <2>1. Len(callbacks') <= MaxCallbacks
      BY <1>1, AdmitAppends, DomainIsLength, FlushAssumption DEF Admit
    <2> QED
      BY <1>1, <2>1, AdmitAppends DEF Admit, FlushTypes
  <1>2. ASSUME NEW i \in DOMAIN callbacks, Succeeds(i) PROVE FlushTypes'
    <2>1. callbacks' \in Seq(Callbacks) /\ Len(callbacks') = Len(callbacks) /\ DOMAIN callbacks' = DOMAIN callbacks
      BY <1>2, SettleChangesOne DEF Succeeds
    <2> QED
      BY <1>2, <2>1 DEF Succeeds, FlushTypes
  <1>3. ASSUME NEW i \in DOMAIN callbacks, Fails(i) PROVE FlushTypes'
    <2>1. callbacks' \in Seq(Callbacks) /\ Len(callbacks') = Len(callbacks) /\ DOMAIN callbacks' = DOMAIN callbacks
      BY <1>3, SettleChangesOne DEF Fails
    <2> QED
      BY <1>3, <2>1 DEF Fails, FlushTypes
  <1> QED
    BY <1>1, <1>2, <1>3

LEMMA FlushStepTyped ==
  ASSUME FlushTypes, LoopsRefer, NEW f \in Flushes,
         CallCombined(f) \/ FlushAdvances(f) \/ Deadline(f) \/ SnapDeadline(f)
  PROVE  FlushTypes'
  <1> USE DEF FlushTypes
  <1>0. /\ flush[f] \in Loops /\ snapDrain[f] \in Loops /\ ordDrain[f] \in Loops
        /\ flush[f].errors \in SUBSET (0..MaxCallbacks)
        /\ snapDrain[f].errors \in SUBSET (0..MaxCallbacks)
        /\ {} \in SUBSET (0..MaxCallbacks) /\ {} \in SUBSET (1..MaxCallbacks)
    BY DEF Loops
  <1>1. CASE CallCombined(f)
    BY <1>0, <1>1, PassStartsTyped DEF CallCombined
  <1>2. CASE PassSettles(f)
    <2>1. [flush[f] EXCEPT !.at = "turn", !.errors = Known(f)] \in Loops
      BY <1>0, KnownIsTyped DEF Loops
    <2>2. flush' = [flush EXCEPT ![f] = [flush[f] EXCEPT !.at = "turn", !.errors = Known(f)]]
      BY <1>2 DEF PassSettles
    <2> QED
      BY <1>2, <2>1, <2>2, NoLoopTyped DEF PassSettles
  <1>3. CASE TurnPasses(f)
    <2>1. CASE Quiet(f)
      BY <1>3, <2>1, <1>0, EndedTyped DEF TurnPasses, callbackVars
    <2>2. CASE ~Quiet(f)
      BY <1>0, <1>3, <2>2, PassStartsTyped DEF TurnPasses
    <2> QED
      BY <2>1, <2>2
  <1>4. CASE SnapSettles(f)
    <2>1. Loop("turn", {}, SnapErrors(f)) \in Loops
      BY <1>0, KnownIsTyped, LoopTyped
    <2> QED
      BY <1>4, <2>1 DEF SnapSettles
  <1>5. CASE SnapTurn(f)
    <2>1. Loop("waiting", retained, snapDrain[f].errors) \in Loops
      BY <1>0, DomainIsLength, LoopTyped
    <2>2. Ended(snapDrain[f].errors) \in Loops
      BY <1>0, EndedTyped
    <2> QED
      BY <1>5, <2>1, <2>2 DEF SnapTurn, callbackVars
  <1>6. CASE \E ok \in BOOLEAN : OrdDrains(f, ok)
    <2> PICK ok \in BOOLEAN : OrdDrains(f, ok)
      BY <1>6
    <2> DEFINE known == ordDrain[f].errors \cup Failed(ordDrain[f].admitted)
               rest == {i \in Of("ordinary") : Pending(i)}
    <2>1. known \in SUBSET (0..MaxCallbacks) /\ known \cup {0} \in SUBSET (0..MaxCallbacks)
      BY <1>0, FlushAssumption DEF Failed, Loops
    <2>2. rest \in SUBSET (1..MaxCallbacks)
      BY DomainIsLength DEF Of
    <2> HIDE DEF known, rest
    <2>3. Ended(known \cup {0}) \in Loops /\ Ended(known) \in Loops /\ Loop("waiting", rest, known) \in Loops
      BY <2>1, <2>2, LoopTyped, EndedTyped
    <2>4. ordDrain' \in [Flushes -> Loops]
      BY <2>3 DEF OrdDrains, known, rest
    <2> QED
      BY <2>4 DEF OrdDrains
  <1>7. CASE Deadline(f)
    <2>1. Loop("rejected", {}, Known(f)) \in Loops
      BY <1>0, KnownIsTyped, LoopTyped
    <2> QED
      BY <1>7, <2>1 DEF Deadline, callbackVars
  <1>8. CASE SnapDeadline(f)
    <2>1. Loop("rejected", {}, SnapErrors(f)) \in Loops
      BY <1>0, KnownIsTyped, LoopTyped
    <2> QED
      BY <1>8, <2>1 DEF SnapDeadline, callbackVars
  <1> QED
    BY <1>1, <1>2, <1>3, <1>4, <1>5, <1>6, <1>7, <1>8 DEF FlushAdvances

-----------------------------------------------------------------------------
(* Steps of callbacks *)

(* Failures do not go away: what a flush knows only grows when the         *)
(* callbacks change and the loops do not.                                  *)
LEMMA KnownGrows ==
  ASSUME LoopsRefer, UNCHANGED <<flush, snapDrain, ordDrain>>,
         \A j \in DOMAIN callbacks : callbacks'[j] = callbacks[j] \/ Pending(j)
  PROVE  \A f \in Flushes : Known(f) \subseteq Known(f)'
  BY DEF LoopsRefer, Refers, Known, SnapErrors, Failed, Pending

LEMMA AdmitKeeps ==
  ASSUME FlushIInv, NEW backend \in {"snapshot", "ordinary"}, Admit(backend)
  PROVE  FlushIInv'
  <1> DEFINE n == Len(callbacks) + 1
  <1>1. UNCHANGED <<flush, snapDrain, ordDrain, dirty>>
    BY DEF Admit
  <1>2. /\ Len(callbacks') = n /\ Len(callbacks) \in Nat
        /\ DOMAIN callbacks' = DOMAIN callbacks \cup {n} /\ n \notin DOMAIN callbacks
        /\ \A j \in DOMAIN callbacks : callbacks'[j] = callbacks[j]
        /\ callbacks'[n] = [backend |-> backend, state |-> "pending"]
    BY AdmitAppends, DomainIsLength DEF FlushIInv
  <1>3. /\ pendingCallbacks' = pendingCallbacks \cup {n}
        /\ retained' = IF backend = "snapshot" THEN retained \cup {n} ELSE retained
    BY DEF Admit
  <1>4. FlushTypes'
    BY CallbackStepTyped DEF FlushIInv
  <1>0. ASSUME NEW f \in Flushes PROVE flush[f].before \in Nat
    BY FlushAssumption DEF FlushIInv, FlushTypes, Loops
  <1> HIDE DEF n
  <1>5. LoopsRefer'
    <2>1. ASSUME NEW f \in Flushes PROVE flush[f].before <= n
      BY <1>0, <1>2 DEF n, FlushIInv, LoopsRefer, Refers
    <2> QED
      BY <1>1, <1>2, <2>1 DEF FlushIInv, LoopsRefer, Refers
  <1>6. PendingIsHeld'
    <2>1. ASSUME NEW i \in DOMAIN callbacks, Pending(i)'
          PROVE  i \in pendingCallbacks' /\ (callbacks'[i].backend = "snapshot" => i \in retained')
      BY <1>2, <1>3, <2>1 DEF FlushIInv, PendingIsHeld, Pending
    <2>2. n \in pendingCallbacks' /\ (callbacks'[n].backend = "snapshot" => n \in retained')
      BY <1>2, <1>3
    <2> QED
      BY <1>2, <2>1, <2>2 DEF PendingIsHeld
  <1>7. DrainsBelong'
    BY <1>1 DEF FlushIInv, DrainsBelong, Belongs
  <1>8. PassRecorded'
    BY <1>1, <1>2 DEF FlushIInv, PassRecorded, Recorded, LoopsRefer, Refers, Failed, Pending
  <1>9. AlonePassIsQuiet'
    <2>1. ASSUME NEW f \in Flushes PROVE ~Alone(f)'
      <3>1. flush[f].before <= Len(callbacks)
        BY DEF FlushIInv, LoopsRefer, Refers
      <3>2. flush[f].before # Len(callbacks')
        BY <1>0, <1>2, <3>1 DEF n
      <3> QED
        BY <1>1, <3>2 DEF Alone
    <2> QED
      BY <2>1 DEF AlonePassIsQuiet, AloneIsQuiet
  <1>10. NoFailureSwallowed'
    <2>1. \A f \in Flushes : Known(f) \subseteq Known(f)'
      BY <1>1, <1>2, KnownGrows DEF FlushIInv
    <2>2. pendingCallbacks \cup retained \subseteq pendingCallbacks' \cup retained'
      BY <1>3
    <2>3. \A i \in DOMAIN callbacks' :
            callbacks'[i].state \in {"failed", "failedAlone"} => i \in DOMAIN callbacks
      BY <1>2
    <2>4. \A i \in DOMAIN callbacks : i \in Of("snapshot") <=> i \in Of("snapshot")'
      BY <1>2 DEF Of
    <2> QED
      BY <1>1, <1>2, <2>1, <2>2, <2>3, <2>4 DEF FlushIInv, NoFailureSwallowed
  <1> QED
    BY <1>4, <1>5, <1>6, <1>7, <1>8, <1>9, <1>10 DEF FlushIInv

(* What a callback's end leaves as it was, whether it succeeds or fails. *)
LEMMA SettleKeeps ==
  ASSUME FlushIInv, NEW i \in DOMAIN callbacks, Succeeds(i) \/ Fails(i)
  PROVE  /\ LoopsRefer' /\ PendingIsHeld' /\ DrainsBelong' /\ PassRecorded' /\ AlonePassIsQuiet'
         /\ UNCHANGED <<flush, snapDrain, ordDrain>>
         /\ DOMAIN callbacks' = DOMAIN callbacks
         /\ Pending(i)
         /\ \A j \in DOMAIN callbacks : j # i => callbacks'[j] = callbacks[j]
         /\ callbacks'[i].backend = callbacks[i].backend
  <1>1. /\ UNCHANGED <<flush, snapDrain, ordDrain>>
        /\ Pending(i)
        /\ pendingCallbacks \ {i} \subseteq pendingCallbacks'
        /\ retained \ {i} \subseteq retained'
    BY DEF Succeeds, Fails, MaySettle
  <1>2. PICK s \in {"ok", "failed", "failedAlone"} : callbacks' = [callbacks EXCEPT ![i].state = s]
    BY DEF Succeeds, Fails
  <1>3. /\ Len(callbacks') = Len(callbacks)
        /\ DOMAIN callbacks' = DOMAIN callbacks
        /\ \A j \in DOMAIN callbacks : j # i => callbacks'[j] = callbacks[j]
        /\ callbacks'[i].state = s
        /\ callbacks'[i].backend = callbacks[i].backend
    BY <1>2, SettleChangesOne DEF FlushIInv
  <1>4. ~Pending(i)'
    BY <1>3 DEF Pending
  <1>5. LoopsRefer'
    BY <1>1, <1>3 DEF FlushIInv, LoopsRefer, Refers
  <1>6. PendingIsHeld'
    BY <1>1, <1>3, <1>4 DEF FlushIInv, PendingIsHeld, Pending
  <1>7. DrainsBelong'
    BY <1>1 DEF FlushIInv, DrainsBelong, Belongs
  <1>8. PassRecorded'
    BY <1>1, <1>3 DEF FlushIInv, PassRecorded, Recorded, LoopsRefer, Refers, Failed, Pending
  <1>9. AlonePassIsQuiet'
    <2>1. ASSUME NEW f \in Flushes PROVE ~Alone(f)
      BY <1>1 DEF FlushIInv, AlonePassIsQuiet, AloneIsQuiet
    <2>2. ASSUME NEW f \in Flushes PROVE ~Alone(f)'
      BY <1>1, <1>3, <2>1 DEF Alone
    <2> QED
      BY <2>2 DEF AlonePassIsQuiet, AloneIsQuiet
  <1> QED
    BY <1>1, <1>3, <1>5, <1>6, <1>7, <1>8, <1>9

LEMMA SucceedsKeeps ==
  ASSUME FlushIInv, NEW i \in DOMAIN callbacks, Succeeds(i)
  PROVE  FlushIInv'
  <1>1. FlushTypes'
    BY CallbackStepTyped DEF FlushIInv
  <1>2. callbacks'[i].state = "ok"
    BY SettleChangesOne DEF FlushIInv, Succeeds
  <1>3. NoFailureSwallowed'
    <2>1. \A f \in Flushes : Known(f) \subseteq Known(f)'
      BY SettleKeeps, KnownGrows DEF FlushIInv
    <2>2. (pendingCallbacks \cup retained) \ {i} \subseteq pendingCallbacks' \cup retained'
      BY DEF Succeeds
    <2>3. \A j \in DOMAIN callbacks : j \in Of("snapshot") <=> j \in Of("snapshot")'
      BY SettleKeeps DEF Of
    <2> QED
      BY <1>2, <2>1, <2>2, <2>3, SettleKeeps DEF FlushIInv, NoFailureSwallowed
  <1> QED
    BY <1>1, <1>3, SettleKeeps DEF FlushIInv

LEMMA FailsKeeps ==
  ASSUME FlushIInv, NEW i \in DOMAIN callbacks, Fails(i)
  PROVE  FlushIInv'
  <1>1. FlushTypes'
    BY CallbackStepTyped DEF FlushIInv
  <1>2. /\ callbacks'[i].state = IF Active = {} THEN "failedAlone" ELSE "failed"
        /\ retained' = retained
        /\ pendingCallbacks' = IF Active # {} THEN pendingCallbacks ELSE pendingCallbacks \ {i}
    <2>1. (IF Active = {} THEN "failedAlone" ELSE "failed") \in {"ok", "failed", "failedAlone"}
      OBVIOUS
    <2> QED
      BY <2>1, SettleChangesOne DEF FlushIInv, Fails, KeepsFailure
  <1>3. NoFailureSwallowed'
    <2>1. \A f \in Flushes : Known(f) \subseteq Known(f)'
      BY SettleKeeps, KnownGrows DEF FlushIInv
    <2>2. \A j \in DOMAIN callbacks : j \in Of("snapshot") <=> j \in Of("snapshot")'
      BY SettleKeeps DEF Of
    <2>3. ASSUME NEW j \in DOMAIN callbacks, j # i,
                 callbacks'[j].state = "failed" \/ (callbacks'[j].state = "failedAlone" /\ j \in Of("snapshot")')
          PROVE  \/ j \in pendingCallbacks' \cup retained'
                 \/ \E f \in Flushes : flush'[f].at # "resolved" /\ j \in Known(f)'
      <3>1. \/ j \in pendingCallbacks \cup retained
            \/ \E f \in Flushes : flush[f].at # "resolved" /\ j \in Known(f)
        BY <2>2, <2>3, SettleKeeps DEF FlushIInv, NoFailureSwallowed
      <3> QED
        BY <1>2, <2>1, <2>3, <3>1, SettleKeeps
    <2>4. ASSUME callbacks'[i].state = "failed" \/ i \in Of("snapshot")'
          PROVE  i \in pendingCallbacks' \cup retained'
      <3>1. i \in pendingCallbacks /\ (i \in Of("snapshot") => i \in retained)
        BY SettleKeeps DEF FlushIInv, PendingIsHeld, Of
      <3> QED
        BY <1>2, <2>2, <2>4, <3>1
    <2> QED
      BY <2>3, <2>4, SettleKeeps DEF NoFailureSwallowed
  <1> QED
    BY <1>1, <1>3, SettleKeeps DEF FlushIInv

-----------------------------------------------------------------------------
(* Steps of a flush *)

(* A step of flush f leaves the others' part of the invariant alone. *)
LEMMA OneFlushMoves ==
  ASSUME FlushIInv, NEW f \in Flushes, callbacks' = callbacks, dirty' => dirty,
         \A g \in Flushes \ {f} : /\ flush'[g] = flush[g]
                                  /\ snapDrain'[g] = snapDrain[g]
                                  /\ ordDrain'[g] = ordDrain[g],
         Refers(f)', Belongs(f)', Recorded(f)', AloneIsQuiet(f)'
  PROVE  LoopsRefer' /\ DrainsBelong' /\ PassRecorded' /\ AlonePassIsQuiet'
  <1>1. ASSUME NEW g \in Flushes \ {f}
        PROVE  Refers(g)' /\ Belongs(g)' /\ Recorded(g)' /\ AloneIsQuiet(g)'
    <2>1. Refers(g) /\ Belongs(g) /\ Recorded(g) /\ AloneIsQuiet(g)
      BY DEF FlushIInv, LoopsRefer, DrainsBelong, PassRecorded, AlonePassIsQuiet
    <2>2. Refers(g)' /\ Belongs(g)' /\ Recorded(g)'
      BY <2>1 DEF Refers, Belongs, Recorded, Failed, Pending
    <2>3. AloneIsQuiet(g)'
      BY <2>1 DEF AloneIsQuiet, Alone, Pending
    <2> QED
      BY <2>2, <2>3
  <1> QED
    BY <1>1 DEF LoopsRefer, DrainsBelong, PassRecorded, AlonePassIsQuiet

(* No failure is swallowed when flush f takes over what leaves the sets.   *)
LEMMA OneFlushTakesOver ==
  ASSUME FlushIInv, NEW f \in Flushes, callbacks' = callbacks,
         \A g \in Flushes \ {f} : /\ flush'[g] = flush[g]
                                  /\ snapDrain'[g] = snapDrain[g]
                                  /\ ordDrain'[g] = ordDrain[g],
         \A i \in Failed(DOMAIN callbacks) :
            i \in pendingCallbacks \cup retained \cup Known(f) =>
              i \in pendingCallbacks' \cup retained' \/ (flush'[f].at # "resolved" /\ i \in Known(f)')
  PROVE  NoFailureSwallowed'
  <1>1. \A g \in Flushes \ {f} : Known(g)' = Known(g)
    BY DEF Known, SnapErrors, Failed
  <1>2. Of("snapshot")' = Of("snapshot")
    BY DEF Of
  <1>3. ASSUME NEW i \in DOMAIN callbacks,
               callbacks[i].state = "failed" \/ (callbacks[i].state = "failedAlone" /\ i \in Of("snapshot"))
        PROVE  \/ i \in pendingCallbacks' \cup retained'
               \/ \E g \in Flushes : flush'[g].at # "resolved" /\ i \in Known(g)'
    <2>1. i \in Failed(DOMAIN callbacks)
      BY <1>3 DEF Failed
    <2>2. \/ i \in pendingCallbacks \cup retained
          \/ \E g \in Flushes : flush[g].at # "resolved" /\ i \in Known(g)
      BY <1>3 DEF FlushIInv, NoFailureSwallowed
    <2>3. CASE i \in pendingCallbacks \cup retained \cup Known(f)
      BY <2>1, <2>3
    <2>4. CASE \E g \in Flushes \ {f} : flush[g].at # "resolved" /\ i \in Known(g)
      BY <1>1, <2>4
    <2> QED
      BY <2>2, <2>3, <2>4
  <1> QED
    BY <1>2, <1>3 DEF NoFailureSwallowed

LEMMA PassStartsKeeps ==
  ASSUME FlushIInv, NEW f \in Flushes, NEW errors \in SUBSET (0..MaxCallbacks),
         Known(f) \subseteq errors, PassStarts(f, errors)
  PROVE  FlushIInv'
  <1>1. /\ UNCHANGED <<callbacks, pendingCallbacks, retained, dirty>>
        /\ flush'[f] = [at |-> "waiting", admitted |-> pendingCallbacks,
                        errors |-> errors, before |-> Len(callbacks)]
        /\ snapDrain'[f] = Loop("waiting", retained, {})
        /\ ordDrain'[f].at = "waiting"
        /\ \A g \in Flushes \ {f} : /\ flush'[g] = flush[g]
                                    /\ snapDrain'[g] = snapDrain[g]
                                    /\ ordDrain'[g] = ordDrain[g]
    BY DEF PassStarts, callbackVars, FlushIInv, FlushTypes, Loop
  <1>2. FlushTypes'
    BY PassStartsTyped DEF FlushIInv
  <1>3. Refers(f)'
    BY <1>1, DomainIsLength DEF Refers, FlushIInv, FlushTypes, Loop
  <1>4. Belongs(f)'
    BY <1>1 DEF Belongs, Loop
  <1>5. Recorded(f)'
    BY <1>1 DEF Recorded
  <1>6. AloneIsQuiet(f)'
    BY <1>1 DEF AloneIsQuiet, Alone, FlushIInv, PendingIsHeld, Pending
  <1>7. NoFailureSwallowed'
    <2>1. errors \subseteq Known(f)'
      BY <1>1 DEF Known
    <2>2. flush'[f].at # "resolved"
      BY <1>1
    <2>3. Known(f) \subseteq Known(f)'
      BY <2>1
    <2> QED
      BY <1>1, <2>2, <2>3, OneFlushTakesOver
  <1>8. PendingIsHeld'
    BY <1>1 DEF FlushIInv, PendingIsHeld, Pending
  <1>9. LoopsRefer' /\ DrainsBelong' /\ PassRecorded' /\ AlonePassIsQuiet'
    BY <1>1, <1>3, <1>4, <1>5, <1>6, OneFlushMoves
  <1> QED
    BY <1>2, <1>7, <1>8, <1>9 DEF FlushIInv

(* Before its first pass a flush knows nothing, after a pass what its      *)
(* errors say.                                                             *)
LEMMA KnownBetweenPasses ==
  ASSUME FlushIInv, NEW f \in Flushes, flush[f].at \in {"idle", "turn"}
  PROVE  Known(f) \subseteq flush[f].errors
  <1>1. snapDrain[f] = Loop("idle", {}, {}) /\ ordDrain[f] = Loop("idle", {}, {})
    BY DEF FlushIInv, DrainsBelong, Belongs, NoLoop
  <1>2. SnapErrors(f) = {} /\ ordDrain[f].errors = {}
    BY <1>1 DEF SnapErrors, Failed, Loop
  <1>3. Failed(flush[f].admitted) \subseteq flush[f].errors
    BY DEF FlushIInv, PassRecorded, Recorded, DrainsBelong, Belongs, Failed
  <1> QED
    BY <1>2, <1>3 DEF Known

LEMMA CallCombinedKeeps ==
  ASSUME FlushIInv, NEW f \in Flushes, CallCombined(f)
  PROVE  FlushIInv'
  <1>1. Known(f) \subseteq {}
    BY KnownBetweenPasses DEF CallCombined, FlushIInv, DrainsBelong, Belongs
  <1> QED
    BY <1>1, PassStartsKeeps DEF CallCombined

LEMMA PassSettlesKeeps ==
  ASSUME FlushIInv, NEW f \in Flushes, PassSettles(f)
  PROVE  FlushIInv'
  <1>1. /\ UNCHANGED <<callbacks, retained, dirty>>
        /\ flush'[f] = [flush[f] EXCEPT !.at = "turn", !.errors = Known(f)]
        /\ snapDrain'[f] = NoLoop /\ ordDrain'[f] = NoLoop
        /\ pendingCallbacks' = pendingCallbacks \ flush[f].admitted
        /\ \A i \in flush[f].admitted : ~Pending(i)
        /\ Over(ordDrain[f]) /\ flush[f].at = "waiting"
        /\ \A g \in Flushes \ {f} : /\ flush'[g] = flush[g]
                                    /\ snapDrain'[g] = snapDrain[g]
                                    /\ ordDrain'[g] = ordDrain[g]
    BY DEF PassSettles, FlushIInv, FlushTypes
  <1>2. /\ flush'[f].at = "turn" /\ flush'[f].errors = Known(f)
        /\ flush'[f].admitted = flush[f].admitted /\ flush'[f].before = flush[f].before
    BY <1>1 DEF FlushIInv, FlushTypes, Loops
  <1>3. FlushTypes'
    BY FlushStepTyped DEF FlushIInv, FlushAdvances
  <1>4. Refers(f) /\ Belongs(f) /\ AloneIsQuiet(f)
    BY DEF FlushIInv, LoopsRefer, DrainsBelong, AlonePassIsQuiet
  <1>5. Refers(f)'
    BY <1>1, <1>2, <1>4 DEF Refers, NoLoop, Loop
  <1>6. Belongs(f)'
    BY <1>1, <1>2 DEF Belongs, NoLoop, Loop
  <1>7. Recorded(f)'
    <2>1. Failed(flush[f].admitted) \subseteq Known(f)
      BY DEF Known
    <2> QED
      BY <1>1, <1>2, <2>1 DEF Recorded, Failed, Pending
  <1>8. AloneIsQuiet(f)'
    <2>1. Known(f) = {} => ordDrain[f].at = "resolved"
      BY <1>1, <1>4 DEF Known, Belongs, Over
    <2>2. Alone(f)' => Alone(f)
      BY <1>1, <1>2 DEF Alone
    <2> QED
      BY <1>1, <1>2, <1>4, <2>1, <2>2 DEF AloneIsQuiet, Pending
  <1>9. NoFailureSwallowed'
    <2>1. Known(f) \subseteq Known(f)'
      BY <1>2 DEF Known
    <2>2. Failed(flush[f].admitted) \subseteq Known(f)
      BY DEF Known
    <2>3. ASSUME NEW i \in Failed(DOMAIN callbacks), i \in pendingCallbacks \cup retained \cup Known(f)
          PROVE  i \in pendingCallbacks' \cup retained' \/ i \in Known(f)'
      <3>1. i \in flush[f].admitted => i \in Failed(flush[f].admitted)
        BY <2>3 DEF Failed
      <3> QED
        BY <1>1, <2>1, <2>2, <2>3, <3>1
    <2> QED
      BY <1>1, <1>2, <2>3, OneFlushTakesOver
  <1>10. PendingIsHeld'
    BY <1>1 DEF FlushIInv, PendingIsHeld, Pending
  <1>11. LoopsRefer' /\ DrainsBelong' /\ PassRecorded' /\ AlonePassIsQuiet'
    BY <1>1, <1>5, <1>6, <1>7, <1>8, OneFlushMoves
  <1> QED
    BY <1>3, <1>9, <1>10, <1>11 DEF FlushIInv

LEMMA TurnPassesKeeps ==
  ASSUME FlushIInv, NEW f \in Flushes, TurnPasses(f)
  PROVE  FlushIInv'
  <1>1. CASE ~Quiet(f)
    <2>1. flush[f].errors \in SUBSET (0..MaxCallbacks)
      BY DEF FlushIInv, FlushTypes, Loops
    <2> QED
      BY <1>1, <2>1, KnownBetweenPasses, PassStartsKeeps DEF TurnPasses
  <1>2. CASE Quiet(f)
    <2>1. /\ UNCHANGED <<callbacks, retained, pendingCallbacks, dirty, snapDrain, ordDrain>>
          /\ flush'[f] = Ended(flush[f].errors)
          /\ flush[f].at = "turn"
          /\ \A g \in Flushes \ {f} : flush'[g] = flush[g]
      BY <1>2 DEF TurnPasses, callbackVars, FlushIInv, FlushTypes
    <2>2. /\ flush'[f].errors = flush[f].errors
          /\ flush'[f].admitted = {} /\ flush'[f].before = 0
          /\ flush'[f].at \in {"resolved", "rejected"}
          /\ flush'[f].at = "resolved" => flush[f].errors = {}
      <3>1. flush[f].errors \in SUBSET (0..MaxCallbacks)
        BY DEF FlushIInv, FlushTypes, Loops
      <3> QED
        BY <2>1, <3>1, EndedTyped
    <2>3. FlushTypes'
      BY FlushStepTyped DEF FlushIInv, FlushAdvances
    <2>4. Refers(f) /\ Belongs(f)
      BY DEF FlushIInv, LoopsRefer, DrainsBelong
    <2>5. Refers(f)'
      <3>1. 0 <= Len(callbacks)
        BY DomainIsLength DEF FlushIInv
      <3> QED
        BY <2>1, <2>2, <2>4, <3>1 DEF Refers
    <2>6. Belongs(f)'
      BY <2>1, <2>2, <2>4 DEF Belongs
    <2>7. Recorded(f)' /\ AloneIsQuiet(f)'
      BY <2>2 DEF Recorded, AloneIsQuiet, Alone
    <2>8. NoFailureSwallowed'
      <3>1. Known(f) \subseteq flush[f].errors
        BY <2>1, KnownBetweenPasses
      <3>2. flush[f].errors \subseteq Known(f)'
        BY <2>2 DEF Known
      <3> QED
        BY <2>1, <2>2, <3>1, <3>2, OneFlushTakesOver
    <2>9. PendingIsHeld'
      BY <2>1 DEF FlushIInv, PendingIsHeld, Pending
    <2>10. LoopsRefer' /\ DrainsBelong' /\ PassRecorded' /\ AlonePassIsQuiet'
      BY <2>1, <2>5, <2>6, <2>7, OneFlushMoves
    <2> QED
      BY <2>3, <2>8, <2>9, <2>10 DEF FlushIInv
  <1> QED
    BY <1>1, <1>2

LEMMA DeadlineKeeps ==
  ASSUME FlushIInv, NEW f \in Flushes, Deadline(f)
  PROVE  FlushIInv'
  <1>1. /\ UNCHANGED <<callbacks, retained, pendingCallbacks, dirty, snapDrain, ordDrain>>
        /\ flush'[f] = Loop("rejected", {}, Known(f))
        /\ \A g \in Flushes \ {f} : flush'[g] = flush[g]
    BY DEF Deadline, callbackVars, FlushIInv, FlushTypes
  <1>2. /\ flush'[f].at = "rejected" /\ flush'[f].errors = Known(f)
        /\ flush'[f].admitted = {} /\ flush'[f].before = 0
    BY <1>1 DEF Loop
  <1>3. FlushTypes'
    BY FlushStepTyped DEF FlushIInv
  <1>4. Refers(f) /\ Belongs(f)
    BY DEF FlushIInv, LoopsRefer, DrainsBelong
  <1>5. Refers(f)'
    <2>1. 0 <= Len(callbacks)
      BY DomainIsLength DEF FlushIInv
    <2> QED
      BY <1>1, <1>2, <1>4, <2>1 DEF Refers
  <1>6. Belongs(f)'
    BY <1>1, <1>2, <1>4 DEF Belongs
  <1>7. Recorded(f)' /\ AloneIsQuiet(f)'
    BY <1>2 DEF Recorded, AloneIsQuiet, Alone
  <1>8. NoFailureSwallowed'
    <2>1. Known(f) \subseteq Known(f)'
      BY <1>2 DEF Known
    <2> QED
      BY <1>1, <1>2, <2>1, OneFlushTakesOver
  <1>9. PendingIsHeld'
    BY <1>1 DEF FlushIInv, PendingIsHeld, Pending
  <1>10. LoopsRefer' /\ DrainsBelong' /\ PassRecorded' /\ AlonePassIsQuiet'
    BY <1>1, <1>5, <1>6, <1>7, OneFlushMoves
  <1> QED
    BY <1>3, <1>8, <1>9, <1>10 DEF FlushIInv

(* A step of the snapshot's drain that keeps what the drain knows, or      *)
(* hands on what it forgets.                                               *)
LEMMA SnapDrainKeeps ==
  ASSUME FlushIInv, NEW f \in Flushes, FlushTypes', flush[f].at \in {"waiting", "rejected"},
         UNCHANGED <<callbacks, pendingCallbacks, dirty, flush, ordDrain>>,
         \A g \in Flushes \ {f} : snapDrain'[g] = snapDrain[g],
         snapDrain'[f].admitted \subseteq retained,
         snapDrain'[f].at # "waiting" => snapDrain'[f].admitted = {},
         SnapErrors(f) \subseteq snapDrain'[f].errors,
         \A i \in retained \ retained' : ~Pending(i) /\ (i \in Failed(retained) => i \in SnapErrors(f))
  PROVE  FlushIInv'
  <1>1. Refers(f) /\ Belongs(f) /\ Recorded(f) /\ AloneIsQuiet(f)
    BY DEF FlushIInv, LoopsRefer, DrainsBelong, PassRecorded, AlonePassIsQuiet
  <1>2. Refers(f)'
    BY <1>1 DEF Refers, FlushIInv, FlushTypes
  <1>3. Belongs(f)'
    BY <1>1 DEF Belongs
  <1>4. Recorded(f)' /\ AloneIsQuiet(f)'
    BY <1>1 DEF Recorded, AloneIsQuiet, Alone, Failed, Pending
  <1>5. NoFailureSwallowed'
    <2>1. Known(f) \subseteq Known(f)'
      BY DEF Known, SnapErrors, Failed
    <2>2. ASSUME NEW i \in Failed(DOMAIN callbacks), i \in retained \ retained'
          PROVE  i \in Known(f)
      <3>1. i \in Failed(retained)
        BY <2>2 DEF Failed
      <3> QED
        BY <2>2, <3>1 DEF Known
    <2>3. flush'[f].at # "resolved"
      OBVIOUS
    <2> QED
      BY <2>1, <2>2, <2>3, OneFlushTakesOver
  <1>6. PendingIsHeld'
    <2>1. \A i \in retained : Pending(i) => i \in retained'
      OBVIOUS
    <2> QED
      BY <2>1 DEF FlushIInv, PendingIsHeld, Pending
  <1>7. LoopsRefer' /\ DrainsBelong' /\ PassRecorded' /\ AlonePassIsQuiet'
    BY <1>2, <1>3, <1>4, OneFlushMoves
  <1> QED
    BY <1>5, <1>6, <1>7 DEF FlushIInv

(* Only a pass, or a flush its deadline ended, has a drain. *)
LEMMA DrainMeansPass ==
  ASSUME FlushIInv, NEW f \in Flushes, snapDrain[f].at # "idle" \/ ordDrain[f].at # "idle"
  PROVE  flush[f].at \in {"waiting", "rejected"}
  <1>1. flush[f].at \in {"idle", "waiting", "turn", "resolved", "rejected"}
    BY DEF FlushIInv, FlushTypes, Loops
  <1>2. NoLoop.at = "idle"
    BY DEF NoLoop, Loop
  <1> QED
    BY <1>1, <1>2 DEF FlushIInv, DrainsBelong, Belongs

LEMMA SnapSettlesKeeps ==
  ASSUME FlushIInv, NEW f \in Flushes, SnapSettles(f)
  PROVE  FlushIInv'
  <1>1. /\ UNCHANGED <<callbacks, pendingCallbacks, dirty, flush, ordDrain>>
        /\ snapDrain'[f] = Loop("turn", {}, SnapErrors(f))
        /\ \A g \in Flushes \ {f} : snapDrain'[g] = snapDrain[g]
        /\ retained' = retained \ snapDrain[f].admitted
        /\ \A i \in snapDrain[f].admitted : ~Pending(i)
    BY DEF SnapSettles, FlushIInv, FlushTypes
  <1>2. FlushTypes'
    BY FlushStepTyped DEF FlushIInv, FlushAdvances
  <1>3. flush[f].at \in {"waiting", "rejected"}
    BY DrainMeansPass DEF SnapSettles
  <1>4. snapDrain'[f].admitted = {} /\ snapDrain'[f].errors = SnapErrors(f)
    BY <1>1 DEF Loop
  <1>5. \A i \in retained \ retained' : ~Pending(i) /\ (i \in Failed(retained) => i \in SnapErrors(f))
    BY <1>1 DEF SnapErrors, Failed
  <1> QED
    BY <1>1, <1>2, <1>3, <1>4, <1>5, SnapDrainKeeps

LEMMA SnapTurnKeeps ==
  ASSUME FlushIInv, NEW f \in Flushes, SnapTurn(f)
  PROVE  FlushIInv'
  <1>1. /\ UNCHANGED <<callbacks, retained, pendingCallbacks, dirty, flush, ordDrain>>
        /\ snapDrain'[f] = IF retained = {} THEN Ended(snapDrain[f].errors)
                           ELSE Loop("waiting", retained, snapDrain[f].errors)
        /\ \A g \in Flushes \ {f} : snapDrain'[g] = snapDrain[g]
        /\ snapDrain[f].at = "turn"
    BY DEF SnapTurn, callbackVars, FlushIInv, FlushTypes
  <1>2. FlushTypes'
    BY FlushStepTyped DEF FlushIInv, FlushAdvances
  <1>3. flush[f].at \in {"waiting", "rejected"}
    BY <1>1, DrainMeansPass
  <1>4. SnapErrors(f) = snapDrain[f].errors
    <2>1. snapDrain[f].admitted = {}
      BY <1>1 DEF FlushIInv, DrainsBelong, Belongs
    <2> QED
      BY <2>1 DEF SnapErrors, Failed
  <1>5. /\ snapDrain'[f].admitted \subseteq retained
        /\ snapDrain'[f].at # "waiting" => snapDrain'[f].admitted = {}
        /\ snapDrain'[f].errors = snapDrain[f].errors
    <2>1. CASE retained = {}
      <3>1. snapDrain[f].errors \in SUBSET (0..MaxCallbacks)
        BY DEF FlushIInv, FlushTypes, Loops
      <3> QED
        BY <1>1, <2>1, <3>1, EndedTyped
    <2>2. CASE retained # {}
      BY <1>1, <2>2 DEF Loop
    <2> QED
      BY <2>1, <2>2
  <1> QED
    BY <1>1, <1>2, <1>3, <1>4, <1>5, SnapDrainKeeps

LEMMA SnapDeadlineKeeps ==
  ASSUME FlushIInv, NEW f \in Flushes, SnapDeadline(f)
  PROVE  FlushIInv'
  <1>1. /\ UNCHANGED <<callbacks, retained, pendingCallbacks, dirty, flush, ordDrain>>
        /\ snapDrain'[f] = Loop("rejected", {}, SnapErrors(f))
        /\ \A g \in Flushes \ {f} : snapDrain'[g] = snapDrain[g]
        /\ flush[f].at = "rejected"
    BY DEF SnapDeadline, callbackVars, FlushIInv, FlushTypes
  <1>2. FlushTypes'
    BY FlushStepTyped DEF FlushIInv
  <1>3. snapDrain'[f].admitted = {} /\ snapDrain'[f].errors = SnapErrors(f)
    BY <1>1 DEF Loop
  <1> QED
    BY <1>1, <1>2, <1>3, SnapDrainKeeps

LEMMA OrdDrainsKeeps ==
  ASSUME FlushIInv, NEW f \in Flushes, NEW ok \in BOOLEAN, OrdDrains(f, ok)
  PROVE  FlushIInv'
  <1> DEFINE known == ordDrain[f].errors \cup Failed(ordDrain[f].admitted)
             rest == {i \in Of("ordinary") : Pending(i)}
             next == IF ~ok THEN Ended(known \cup {0})
                     ELSE IF ~dirty /\ rest = {} THEN Ended(known) ELSE Loop("waiting", rest, known)
  <1>1. /\ UNCHANGED <<callbacks, retained, pendingCallbacks, flush, snapDrain>>
        /\ ordDrain'[f] = next
        /\ \A g \in Flushes \ {f} : ordDrain'[g] = ordDrain[g]
        /\ ordDrain[f].at = "waiting"
        /\ dirty' = (dirty /\ ~ok)
    BY DEF OrdDrains, FlushIInv, FlushTypes
  <1>2. FlushTypes'
    BY FlushStepTyped DEF FlushIInv, FlushAdvances
  <1>3. flush[f].at \in {"waiting", "rejected"}
    BY <1>1, DrainMeansPass
  <1>4. /\ ordDrain[f].errors \subseteq ordDrain'[f].errors
        /\ ordDrain'[f].at = "rejected" => ordDrain'[f].errors # {}
        /\ ordDrain'[f].at = "resolved" => ok
    <2>1. known \in SUBSET (0..MaxCallbacks) /\ known \cup {0} \in SUBSET (0..MaxCallbacks)
      BY FlushAssumption DEF FlushIInv, FlushTypes, Loops, Failed
    <2>2. ordDrain[f].errors \subseteq known
      OBVIOUS
    <2> HIDE DEF known, rest
    <2>3. CASE ~ok
      <3>1. known \cup {0} # {}
        OBVIOUS
      <3>2. ordDrain'[f] = Ended(known \cup {0})
        BY <1>1, <2>3
      <3> QED
        BY <2>1, <2>2, <3>1, <3>2, EndedTyped
    <2>4. CASE ok /\ ~dirty /\ rest = {}
      <3>1. ordDrain'[f] = Ended(known)
        BY <1>1, <2>4
      <3> QED
        BY <2>1, <2>2, <2>4, <3>1, EndedTyped
    <2>5. CASE ok /\ ~(~dirty /\ rest = {})
      <3>1. ordDrain'[f] = Loop("waiting", rest, known)
        BY <1>1, <2>5
      <3> QED
        BY <2>2, <2>5, <3>1 DEF Loop
    <2> QED
      BY <2>3, <2>4, <2>5
  <1> HIDE DEF known, rest, next
  <1>5. Refers(f) /\ Belongs(f) /\ Recorded(f) /\ AloneIsQuiet(f)
    BY DEF FlushIInv, LoopsRefer, DrainsBelong, PassRecorded, AlonePassIsQuiet
  <1>6. Refers(f)' /\ Belongs(f)'
    BY <1>1, <1>3, <1>4, <1>5 DEF Refers, Belongs
  <1>7. Recorded(f)'
    BY <1>3, <1>1 DEF Recorded
  <1>8. AloneIsQuiet(f)'
    <2>1. ordDrain'[f].at = "resolved" => ~dirty'
      BY <1>1, <1>4
    <2> QED
      BY <1>1, <1>3, <1>5, <2>1 DEF AloneIsQuiet, Alone, Pending
  <1>9. NoFailureSwallowed'
    <2>1. Known(f) \subseteq Known(f)'
      BY <1>1, <1>4 DEF Known, SnapErrors, Failed
    <2>2. flush'[f].at # "resolved"
      BY <1>1, <1>3
    <2> QED
      BY <1>1, <2>1, <2>2, OneFlushTakesOver
  <1>10. PendingIsHeld'
    BY <1>1 DEF FlushIInv, PendingIsHeld, Pending
  <1>11. LoopsRefer' /\ DrainsBelong' /\ PassRecorded' /\ AlonePassIsQuiet'
    BY <1>1, <1>6, <1>7, <1>8, OneFlushMoves
  <1> QED
    BY <1>2, <1>9, <1>10, <1>11 DEF FlushIInv

-----------------------------------------------------------------------------
(* The theorems *)

LEMMA InitFlushIInv == CombinedInit => FlushIInv
  <1> SUFFICES ASSUME CombinedInit PROVE FlushIInv
    OBVIOUS
  <1>0. callbacks = <<>>
    BY DEF CombinedInit
  <1>1. Len(callbacks) = 0 /\ DOMAIN callbacks = {} /\ callbacks \in Seq(Callbacks)
    BY <1>0, EmptySeq
  <1>2. /\ \A f \in Flushes : flush[f] = NoLoop /\ snapDrain[f] = NoLoop /\ ordDrain[f] = NoLoop
        /\ flush \in [Flushes -> Loops] /\ snapDrain \in [Flushes -> Loops]
        /\ ordDrain \in [Flushes -> Loops]
    BY NoLoopTyped DEF CombinedInit
  <1>3. /\ NoLoop.at = "idle" /\ NoLoop.admitted = {} /\ NoLoop.errors = {} /\ NoLoop.before = 0
    BY DEF NoLoop, Loop
  <1>4. FlushTypes
    <2>1. retained = {} /\ pendingCallbacks = {} /\ dirty \in BOOLEAN
      BY DEF CombinedInit
    <2> QED
      BY <1>1, <1>2, <2>1, FlushAssumption DEF FlushTypes
  <1>5. LoopsRefer
    <2>1. ASSUME NEW f \in Flushes PROVE Refers(f)
      <3>1. /\ flush[f].admitted = {} /\ snapDrain[f].admitted = {} /\ flush[f].before = 0
        BY <1>2, <1>3
      <3>2. flush[f].before <= Len(callbacks)
        BY <1>1, <3>1
      <3> QED
        BY <3>1, <3>2 DEF Refers
    <2> QED
      BY <2>1 DEF LoopsRefer
  <1>6. DrainsBelong
    BY <1>2, <1>3 DEF DrainsBelong, Belongs
  <1>7. PassRecorded /\ AlonePassIsQuiet
    BY <1>2, <1>3 DEF PassRecorded, Recorded, AlonePassIsQuiet, AloneIsQuiet, Alone
  <1>8. PendingIsHeld /\ NoFailureSwallowed
    BY <1>1 DEF PendingIsHeld, NoFailureSwallowed
  <1> QED
    BY <1>4, <1>5, <1>6, <1>7, <1>8 DEF FlushIInv

LEMMA NextFlushIInv == FlushIInv /\ [CombinedNext]_flushVars => FlushIInv'
  <1> SUFFICES ASSUME FlushIInv, [CombinedNext]_flushVars PROVE FlushIInv'
    OBVIOUS
  <1>1. CASE \E backend \in {"snapshot", "ordinary"} : Admit(backend)
    BY <1>1, AdmitKeeps
  <1>2. CASE \E i \in DOMAIN callbacks : Succeeds(i) \/ Fails(i)
    BY <1>2, SucceedsKeeps, FailsKeeps
  <1>3. ASSUME NEW f \in Flushes,
               CallCombined(f) \/ FlushAdvances(f) \/ Deadline(f) \/ SnapDeadline(f)
        PROVE  FlushIInv'
    BY <1>3, CallCombinedKeeps, PassSettlesKeeps, TurnPassesKeeps, DeadlineKeeps,
       SnapSettlesKeeps, SnapTurnKeeps, SnapDeadlineKeeps, OrdDrainsKeeps DEF FlushAdvances
  <1>4. CASE UNCHANGED flushVars
    <2> USE <1>4 DEF flushVars
    <2>1. FlushTypes' /\ LoopsRefer' /\ DrainsBelong'
      BY DEF FlushIInv, FlushTypes, LoopsRefer, Refers, DrainsBelong, Belongs
    <2>2. PassRecorded' /\ PendingIsHeld'
      BY DEF FlushIInv, PassRecorded, Recorded, PendingIsHeld, Pending, Failed
    <2>3. AlonePassIsQuiet'
      BY DEF FlushIInv, AlonePassIsQuiet, AloneIsQuiet, Alone, Pending
    <2>4. NoFailureSwallowed'
      BY DEF FlushIInv, NoFailureSwallowed, Of, Known, SnapErrors, Failed
    <2> QED
      BY <2>1, <2>2, <2>3, <2>4 DEF FlushIInv
  <1> QED
    BY <1>1, <1>2, <1>3, <1>4 DEF CombinedNext

LEMMA FlushTyped == FlushIInv => CombinedTypeOK
  BY DEF FlushIInv, FlushTypes, CombinedTypeOK, Callbacks

(* The invariant holds for every number of flushes and callbacks. *)
THEOREM FlushInvariance == CombinedSpec => []FlushIInv
  <1> QED
    BY InitFlushIInv, NextFlushIInv, PTL DEF CombinedSpec

(* The variables of the combined flush keep their types. *)
THEOREM FlushTypeCorrect == CombinedSpec => []CombinedTypeOK
  BY FlushTyped, FlushInvariance, PTL

(* No failure of a callback admitted during a flush, or to the snapshot,   *)
(* is swallowed by a flush that resolves (transactional-file-store.ts,     *)
(* admit and flush).                                                       *)
THEOREM FailuresAreReported == CombinedSpec => []NoFailureSwallowed
  <1>1. FlushIInv => NoFailureSwallowed
    BY DEF FlushIInv
  <1> QED
    BY <1>1, FlushInvariance, PTL

(* What a step says of the flushes that resolve with it. *)
ResolvesQuiet ==
  \A f \in Flushes : flush[f].at # "resolved" /\ flush'[f].at = "resolved" =>
    ~dirty' /\ \A i \in DOMAIN callbacks' : callbacks'[i].state # "pending"

LEMMA FlushesResolveQuiet == FlushIInv /\ [CombinedNext]_flushVars => [ResolvesQuiet]_flushVars
  <1>1. ASSUME FlushIInv, CombinedNext, NEW f \in Flushes,
               flush[f].at # "resolved", flush'[f].at = "resolved"
        PROVE  ~dirty' /\ \A i \in DOMAIN callbacks' : callbacks'[i].state # "pending"
    <2>1. TurnPasses(f) /\ Quiet(f)
      <3>1. flush' # flush
        BY <1>1
      <3>2. PICK g \in Flushes : CallCombined(g) \/ FlushAdvances(g) \/ Deadline(g)
        BY <1>1, <3>1 DEF CombinedNext, Admit, Succeeds, Fails, SnapDeadline
      <3>3. /\ flush \in [Flushes -> Loops]
            /\ flush[g] \in Loops
        BY <1>1 DEF FlushIInv, FlushTypes
      <3>4. CASE CallCombined(g)
        <4>1. flush'[g].at = "waiting" /\ \A h \in Flushes \ {g} : flush'[h] = flush[h]
          BY <3>3, <3>4 DEF CallCombined, PassStarts
        <4> QED
          BY <1>1, <4>1
      <3>5. CASE Deadline(g)
        <4>1. flush'[g].at = "rejected" /\ \A h \in Flushes \ {g} : flush'[h] = flush[h]
          BY <3>3, <3>5 DEF Deadline, Loop
        <4> QED
          BY <1>1, <4>1
      <3>6. CASE PassSettles(g)
        <4>1. flush' = [flush EXCEPT ![g] = [flush[g] EXCEPT !.at = "turn", !.errors = Known(g)]]
          BY <3>6 DEF PassSettles
        <4>2. flush'[g].at = "turn" /\ \A h \in Flushes \ {g} : flush'[h] = flush[h]
          BY <3>3, <4>1 DEF Loops
        <4> QED
          BY <1>1, <4>2
      <3>7. CASE TurnPasses(g)
        <4>1. \A h \in Flushes \ {g} : flush'[h] = flush[h]
          BY <3>3, <3>7 DEF TurnPasses, PassStarts
        <4>2. f = g
          BY <1>1, <4>1
        <4>3. ~Quiet(f) => flush'[f].at = "waiting"
          BY <3>3, <3>7, <4>2 DEF TurnPasses, PassStarts
        <4> QED
          BY <1>1, <3>7, <4>2, <4>3
      <3> QED
        BY <3>1, <3>2, <3>4, <3>5, <3>6, <3>7 DEF FlushAdvances, SnapSettles, SnapTurn, OrdDrains, callbackVars
    <2>2. /\ flush[f].at = "turn" /\ Alone(f)
          /\ dirty' = dirty /\ callbacks' = callbacks
          /\ flush'[f] = Ended(flush[f].errors)
      BY <1>1, <2>1 DEF TurnPasses, Quiet, Alone, callbackVars, FlushIInv, FlushTypes
    <2>3. flush[f].errors = {}
      <3>1. flush[f].errors \in SUBSET (0..MaxCallbacks)
        BY <1>1 DEF FlushIInv, FlushTypes, Loops
      <3> QED
        BY <1>1, <2>2, <3>1, EndedTyped
    <2>4. AloneIsQuiet(f)
      BY <1>1 DEF FlushIInv, AlonePassIsQuiet
    <2> QED
      BY <2>2, <2>3, <2>4 DEF AloneIsQuiet, Pending
  <1> QED
    BY <1>1 DEF ResolvesQuiet

(* A flush that resolves leaves no callback of either backend pending and  *)
(* no debounced write (transactional-file-store.ts, flush): its last pass  *)
(* awaited nothing, so nothing was pending during it, and without errors   *)
(* the per-key store's drain of that pass ended with nothing to write.     *)
THEOREM FlushBarrier == CombinedSpec => FlushedMeansQuiet
  <1> QED
    BY FlushesResolveQuiet, FlushInvariance, PTL DEF CombinedSpec, FlushedMeansQuiet, ResolvesQuiet
=============================================================================
