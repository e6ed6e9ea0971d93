------------------------------ MODULE PartsProofs ------------------------------
(***************************************************************************)
(* Theorems about the small parts, each with the invariant it needs.       *)
(***************************************************************************)
EXTENDS Parts, ClientOwnerProofs, SignalKeysProofs, CombinedFlushProofs, SequenceTheorems

(***************************************************************************)
(* The engine's forwarding flag follows the raw listeners, for any number  *)
(* of waiters.  What TLC checks speaks of a running client only; what the  *)
(* end of init() needs is that the flag is not on for nobody before it.    *)
(***************************************************************************)

(* The flag before init() has replayed it: nobody has set it without a     *)
(* client, and an adopted client's is on only while somebody listens.      *)
FlagBeforeReplay ==
  /\ client = "none" => ~forwarding
  /\ client = "adopted" => (forwarding => listeners # {})

RawIInv ==
  /\ forwarding \in BOOLEAN
  /\ FlagBeforeReplay
  /\ ForwardingFollowsListeners

(* Whatever changes the listeners through mutateListeners() keeps the flag *)
(* with them.                                                              *)
LEMMA MutationKeeps ==
  ASSUME RawIInv, NEW after, Mutates(after), UNCHANGED client
  PROVE  RawIInv'
<1> USE DEF RawIInv, FlagBeforeReplay, ForwardingFollowsListeners, Mutates
<1>1. CASE client \in {"adopted", "running"} /\ (after = {}) # (listeners = {})
  BY <1>1
<1>2. CASE client \in {"adopted", "running"} /\ (after = {}) = (listeners = {})
  BY <1>2
<1>3. CASE client \notin {"adopted", "running"}
  BY <1>3
<1> QED
  BY <1>1, <1>2, <1>3

(* Nobody listens and no flag is set at first. *)
LEMMA RawInitially == RawInit => RawIInv
BY DEF RawInit, RawIInv, FlagBeforeReplay, ForwardingFollowsListeners

(* Every step keeps the flag with the listeners. *)
LEMMA RawStep == RawIInv /\ [RawNext]_rawVars => RawIInv'
<1> SUFFICES ASSUME RawIInv, [RawNext]_rawVars PROVE RawIInv'
  OBVIOUS
<1>1. CASE UserMutates
  BY <1>1, MutationKeeps DEF UserMutates
<1>2. CASE EmitCallback
  BY <1>2, MutationKeeps DEF EmitCallback, EmissionEnds
<1>3. ASSUME NEW w \in Waiters, EmitTag(w) PROVE RawIInv'
  BY <1>3, MutationKeeps DEF EmitTag, EmissionEnds
<1>4. ASSUME NEW w \in Waiters, NEW kind, CallWaiter(w, kind) PROVE RawIInv'
  BY <1>4, MutationKeeps DEF CallWaiter
<1>5. ASSUME NEW w \in Waiters, WaiterEnds(w) PROVE RawIInv'
  BY <1>5, MutationKeeps DEF WaiterEnds
<1> USE DEF RawIInv, FlagBeforeReplay, ForwardingFollowsListeners
<1>6. CASE ConnectFails
  BY <1>6 DEF ConnectFails
<1>7. ASSUME NEW w \in Waiters, TimesOut(w) PROVE RawIInv'
  BY <1>7 DEF TimesOut
<1>8. CASE Adopts
  BY <1>8 DEF Adopts
<1>9. CASE ReplaysForwarding
  BY <1>9 DEF ReplaysForwarding
<1>10. CASE ClientReleased
  BY <1>10 DEF ClientReleased
<1>11. CASE UNCHANGED rawVars
  BY <1>11 DEF rawVars
<1> QED
  BY <1>1, <1>2, <1>3, <1>4, <1>5, <1>6, <1>7, <1>8, <1>9, <1>10, <1>11 DEF RawNext

(* Whenever init() has run and the client lives, raw stanzas are forwarded *)
(* if and only if somebody listens (websocket-client.ts, mutateListeners;  *)
(* core.ts, init).                                                         *)
THEOREM FlagFollowsListeners == RawSpec => []ForwardingFollowsListeners
<1>1. RawIInv => ForwardingFollowsListeners
  BY DEF RawIInv
<1> QED
  BY <1>1, RawInitially, RawStep, PTL DEF RawSpec

(***************************************************************************)
(* One refresh per mark, for any number of overlapping notifications and   *)
(* expiries.  The invariant TLC checks compares two notifications; what    *)
(* admits a third safely is that all of the current window's were admitted *)
(* under the mark that still stands.                                       *)
(***************************************************************************)

Admitted(n) == notice[n] \notin {"none", "debounced"}

(* A notification is admitted in a window that has begun, and in the       *)
(* current one only while its mark stands.                                 *)
MarkCoversWindow ==
  \A n \in Notices :
    Admitted(n) => admittedIn[n] <= window /\ (admittedIn[n] = window => marked)

IdentityIInv ==
  /\ IdentityTypeOK
  /\ MarkCoversWindow
  /\ OneRefreshPerMark

(* Nothing is admitted at first. *)
LEMMA IdentityInitially == IdentityInit => IdentityIInv
<1> SUFFICES ASSUME IdentityInit PROVE IdentityIInv
  OBVIOUS
<1>1. IdentityTypeOK
  <2>1. 0 \in 0..MaxWindows
    BY IdentityAssumption
  <2>2. /\ notice \in [Notices -> {"none", "validating", "asserting"} \cup Answers]
        /\ admittedIn \in [Notices -> 0..MaxWindows]
    BY <2>1 DEF IdentityInit
  <2> QED
    BY <2>1, <2>2 DEF IdentityInit, IdentityTypeOK
<1>2. \A n \in Notices : notice[n] = "none"
  BY DEF IdentityInit
<1>3. MarkCoversWindow
  BY <1>2 DEF MarkCoversWindow, Admitted
<1>4. OneRefreshPerMark
  BY <1>2 DEF OneRefreshPerMark
<1> QED
  BY <1>1, <1>3, <1>4 DEF IdentityIInv

(* A step that changes nobody's admission keeps the rest. *)
LEMMA SameAdmissions ==
  ASSUME MarkCoversWindow, OneRefreshPerMark, UNCHANGED <<marked, window, admittedIn>>,
         \A n \in Notices : Admitted(n)' => Admitted(n)
  PROVE  MarkCoversWindow' /\ OneRefreshPerMark'
BY DEF MarkCoversWindow, OneRefreshPerMark, Admitted

(* Every step keeps the types. *)
LEMMA IdentityTypes == IdentityTypeOK /\ [IdentityNext]_identityVars => IdentityTypeOK'
<1> SUFFICES ASSUME IdentityTypeOK, [IdentityNext]_identityVars PROVE IdentityTypeOK'
  OBVIOUS
<1> USE IdentityAssumption DEF IdentityTypeOK, Answers
<1>1. ASSUME NEW n \in Notices, IsDebounced(n) PROVE IdentityTypeOK'
  BY <1>1 DEF IsDebounced, Proceeds
<1>2. ASSUME NEW n \in Notices, Admits(n) PROVE IdentityTypeOK'
  <2>1. marked' \in BOOLEAN /\ window' \in 0..MaxWindows
    BY <1>2 DEF Admits
  <2>2. notice' \in [Notices -> {"none", "validating", "asserting"} \cup Answers]
    BY <1>2 DEF Admits, Proceeds
  <2>3. admittedIn' \in [Notices -> 0..MaxWindows]
    BY <1>2 DEF Admits
  <2> QED
    BY <2>1, <2>2, <2>3
<1>3. ASSUME NEW n \in Notices, NEW answered, Validated(n, answered) PROVE IdentityTypeOK'
  BY <1>3 DEF Validated, Proceeds
<1>4. ASSUME NEW n \in Notices, NEW answered, Asserted(n, answered) PROVE IdentityTypeOK'
  BY <1>4 DEF Asserted, Proceeds
<1>5. CASE MarkExpires
  <2>1. marked' \in BOOLEAN /\ notice' = notice /\ admittedIn' = admittedIn
    BY <1>5 DEF MarkExpires
  <2>2. window' \in 0..MaxWindows
    <3> USE DEF MarkExpires
    <3> HIDE DEF Answers
    <3>1. window \in Nat /\ window < MaxWindows /\ window' = window + 1
      BY <1>5
    <3> QED
      BY <3>1, IdentityAssumption
  <2> QED
    BY <2>1, <2>2
<1>6. CASE UNCHANGED identityVars
  BY <1>6 DEF identityVars
<1> QED
  BY <1>1, <1>2, <1>3, <1>4, <1>5, <1>6 DEF IdentityNext

(* Every step keeps the invariant. *)
LEMMA IdentityStep == IdentityIInv /\ [IdentityNext]_identityVars => IdentityIInv'
<1> SUFFICES ASSUME IdentityIInv, [IdentityNext]_identityVars PROVE IdentityIInv'
  OBVIOUS
<1>1. IdentityTypeOK' /\ IdentityTypeOK /\ MarkCoversWindow /\ OneRefreshPerMark
  BY IdentityTypes DEF IdentityIInv
<1>2. SUFFICES MarkCoversWindow' /\ OneRefreshPerMark'
  BY <1>1 DEF IdentityIInv
<1>3. ASSUME NEW n \in Notices, IsDebounced(n) PROVE MarkCoversWindow' /\ OneRefreshPerMark'
  <2>1. \A m \in Notices : Admitted(m)' => Admitted(m)
    BY <1>1, <1>3 DEF IsDebounced, Proceeds, Admitted, IdentityTypeOK
  <2> QED
    BY <1>1, <1>3, <2>1, SameAdmissions DEF IsDebounced
<1>4. ASSUME NEW n \in Notices, Admits(n) PROVE MarkCoversWindow' /\ OneRefreshPerMark'
  <2>1. /\ window \in Nat /\ marked' = TRUE /\ ~marked /\ window' = window
        /\ admittedIn'[n] = window
        /\ \A m \in Notices \ {n} : admittedIn'[m] = admittedIn[m] /\ notice'[m] = notice[m]
    BY <1>1, <1>4, IdentityAssumption DEF Admits, Proceeds, IdentityTypeOK
  <2>2. \A m \in Notices \ {n} : Admitted(m)' => admittedIn[m] # window /\ admittedIn[m] <= window
    BY <1>1, <2>1 DEF MarkCoversWindow, Admitted
  <2>3. MarkCoversWindow'
    BY <2>1, <2>2 DEF MarkCoversWindow
  <2>4. OneRefreshPerMark'
    BY <1>1, <2>1, <2>2 DEF OneRefreshPerMark, Admitted
  <2> QED
    BY <2>3, <2>4
<1>5. ASSUME NEW n \in Notices, NEW answered, Validated(n, answered) \/ Asserted(n, answered)
      PROVE  MarkCoversWindow' /\ OneRefreshPerMark'
  <2>1. \A m \in Notices : Admitted(m)' => Admitted(m)
    BY <1>1, <1>5 DEF Validated, Asserted, Proceeds, Admitted, IdentityTypeOK
  <2> QED
    BY <1>1, <1>5, <2>1, SameAdmissions DEF Validated, Asserted
<1>6. CASE MarkExpires
  <2>1. window \in Nat /\ admittedIn \in [Notices -> Nat]
    BY <1>1, IdentityAssumption DEF IdentityTypeOK
  <2>2. window' = window + 1 /\ admittedIn' = admittedIn /\ notice' = notice
    BY <1>6 DEF MarkExpires
  <2>3. MarkCoversWindow'
    BY <1>1, <2>1, <2>2 DEF MarkCoversWindow, Admitted
  <2>4. OneRefreshPerMark'
    BY <1>1, <2>2 DEF OneRefreshPerMark
  <2> QED
    BY <2>3, <2>4
<1>7. CASE UNCHANGED identityVars
  BY <1>1, <1>7, SameAdmissions DEF identityVars, Admitted
<1> QED
  BY <1>3, <1>4, <1>5, <1>6, <1>7 DEF IdentityNext

(* However the handlers of a contact's notifications overlap, one of them  *)
(* is admitted while a mark lasts (identity-change-handler.ts).            *)
THEOREM OneAdmissionPerMark == IdentitySpec => []OneRefreshPerMark
<1>1. IdentityIInv => OneRefreshPerMark
  BY DEF IdentityIInv
<1> QED
  BY <1>1, IdentityInitially, IdentityStep, PTL DEF IdentitySpec

(***************************************************************************)
(* The dispatcher's history-sync statuses.  Why a status comes once: its   *)
(* flag is set with it.  Why a timer is never late: whatever ends the      *)
(* socket disarms it.                                                      *)
(***************************************************************************)

Statuses == [sync : {"initial", "recent"}, status : {"complete", "paused"}, late : BOOLEAN]

(* A sync that has reported its end is complete. *)
StatusesComplete ==
  \A i \in DOMAIN statuses :
    /\ statuses[i].sync = "initial" => bootstrapComplete
    /\ statuses[i].sync = "recent" => recentComplete

StatusIInv ==
  /\ EventsTypeOK
  /\ StatusSound
  /\ StatusesComplete
  /\ pausedTimeout \in {"off", timerCleared}

LEMMA StatusReported ==
  ASSUME StatusIInv, NEW sync \in {"initial", "recent"}, NEW status \in {"complete", "paused"},
         Reports(sync, status, FALSE),
         \/ sync = "initial" /\ ~bootstrapComplete /\ bootstrapComplete' /\ recentComplete' = recentComplete
         \/ sync = "recent" /\ ~recentComplete /\ recentComplete' /\ bootstrapComplete' = bootstrapComplete
  PROVE  statuses' \in Seq(Statuses) /\ StatusSound' /\ StatusesComplete'
<1>1. PICK r : r = [sync |-> sync, status |-> status, late |-> FALSE]
  OBVIOUS
<1>2. r \in Statuses /\ ~r.late /\ r.sync = sync /\ statuses \in Seq(Statuses)
  BY <1>1 DEF Statuses, StatusIInv, EventsTypeOK
<1>3. statuses' = Append(statuses, r)
  BY <1>1 DEF Reports
<1>4. /\ DOMAIN statuses' = DOMAIN statuses \cup {Len(statuses) + 1}
      /\ \A i \in DOMAIN statuses : statuses'[i] = statuses[i]
      /\ statuses'[Len(statuses) + 1] = r
      /\ statuses' \in Seq(Statuses)
  BY <1>2, <1>3
<1>5. \A i \in DOMAIN statuses : ~statuses[i].late /\ statuses[i].sync # sync
  BY DEF StatusIInv, StatusSound, StatusesComplete
<1>6. StatusSound'
  <2>1. \A i \in DOMAIN statuses' : ~statuses'[i].late
    BY <1>2, <1>4, <1>5
  <2>2. \A i, j \in DOMAIN statuses : statuses[i].sync = statuses[j].sync => i = j
    BY DEF StatusIInv, StatusSound
  <2>3. \A i, j \in DOMAIN statuses' : statuses'[i].sync = statuses'[j].sync => i = j
    BY <1>2, <1>4, <1>5, <2>2
  <2> QED
    BY <2>1, <2>3 DEF StatusSound
<1>7. StatusesComplete'
  BY <1>2, <1>4 DEF StatusIInv, StatusesComplete
<1> QED
  BY <1>4, <1>6, <1>7

LEMMA StatusStep == StatusIInv /\ [EventsNext]_eventVars => StatusIInv'
<1> SUFFICES ASSUME StatusIInv, [EventsNext]_eventVars PROVE StatusIInv'
  OBVIOUS
<1> USE DEF StatusIInv
<1>1. ASSUME EventsTypeOK', UNCHANGED <<bootstrapComplete, recentComplete, statuses>>,
             pausedTimeout' \in {"off", timerCleared'}
      PROVE  StatusIInv'
  BY <1>1 DEF StatusSound, StatusesComplete
<1>2. CASE \/ Connected \/ Disconnected \/ ConnectFailure \/ PairError \/ RateLimited \/ Terminal
           \/ TestsFlag \/ SetAutoReconnect \/ RunEnds \/ SocketEnds \/ Cleanup \/ Freed
           \/ PublishClose \/ UNCHANGED eventVars
  <2>1. UNCHANGED <<bootstrapComplete, recentComplete, recentBegun, statuses>>
    BY <1>2 DEF Connected, Disconnected, ConnectFailure, PairError, RateLimited, Terminal,
       TestsFlag, SetAutoReconnect, RunEnds, SocketEnds, Cleanup, Freed, PublishClose, eventVars,
       RetriesOrCloses, EmitClose, EmitRetrying, Publishes, historyVars
  <2>2. \/ UNCHANGED <<pausedTimeout, timerCleared>>
        \/ pausedTimeout' = "off" /\ timerCleared' \in {"none", "terminal", "cleanup"}
    BY <1>2 DEF Connected, Disconnected, ConnectFailure, PairError, RateLimited, Terminal,
       TestsFlag, SetAutoReconnect, RunEnds, SocketEnds, Cleanup, Freed, PublishClose, eventVars,
       RetriesOrCloses, EmitClose, EmitRetrying, Publishes, historyVars, closeVars, EventsTypeOK
  <2>3. /\ engine' \in {"up", "down", "leaving", "stopped"}
        /\ connection' \in {"connecting", "open", "close"}
        /\ {autoReconnect, closing, closeReported, clientFreed}' \subseteq BOOLEAN
    BY <1>2 DEF Connected, Disconnected, ConnectFailure, PairError, RateLimited, Terminal,
       TestsFlag, SetAutoReconnect, RunEnds, SocketEnds, Cleanup, Freed, PublishClose, eventVars,
       RetriesOrCloses, EmitClose, EmitRetrying, Publishes, Engine, ReportTerminal, closeVars,
       engineVars, EventsTypeOK
  <2>4. EventsTypeOK'
    BY <2>1, <2>2, <2>3 DEF EventsTypeOK
  <2> QED
    BY <1>1, <2>1, <2>2, <2>4
<1>3. CASE InitialSync
  <2>1. statuses' \in Seq(Statuses) /\ StatusSound' /\ StatusesComplete'
    BY <1>3, StatusReported DEF InitialSync
  <2> QED
    BY <1>3, <2>1 DEF InitialSync, Sync, EventsTypeOK, Statuses, engineVars, closeVars
<1>4. ASSUME NEW progress \in {50, 100}, RecentSync(progress) PROVE StatusIInv'
  <2>1. CASE progress = 100
    <3>1. statuses' \in Seq(Statuses) /\ StatusSound' /\ StatusesComplete'
      BY <1>4, <2>1, StatusReported DEF RecentSync
    <3> QED
      BY <1>4, <2>1, <3>1 DEF RecentSync, Sync, EventsTypeOK, Statuses, engineVars, closeVars
  <2>2. CASE progress # 100
    <3>1. EventsTypeOK'
      BY <1>4, <2>2 DEF RecentSync, Sync, EventsTypeOK, engineVars, closeVars
    <3> QED
      BY <1>1, <1>4, <2>2, <3>1 DEF RecentSync, Sync, closeVars
  <2> QED
    BY <2>1, <2>2
<1>5. CASE PausedFires
  <2>1. CASE recentComplete
    <3>1. EventsTypeOK'
      BY <1>5, <2>1 DEF PausedFires, EventsTypeOK, engineVars, closeVars
    <3> QED
      BY <1>1, <1>5, <2>1, <3>1 DEF PausedFires, closeVars
  <2>2. CASE ~recentComplete
    <3>1. Reports("recent", "paused", FALSE)
      BY <1>5, <2>2 DEF PausedFires
    <3>2. statuses' \in Seq(Statuses) /\ StatusSound' /\ StatusesComplete'
      BY <1>5, <2>2, <3>1, StatusReported DEF PausedFires
    <3> QED
      BY <1>5, <2>2, <3>2 DEF PausedFires, EventsTypeOK, Statuses, engineVars, closeVars
  <2> QED
    BY <2>1, <2>2
<1> QED
  BY <1>2, <1>3, <1>4, <1>5 DEF EventsNext

LEMMA StatusInitially == EventsInit => StatusIInv
<1> SUFFICES ASSUME EventsInit PROVE StatusIInv
  OBVIOUS
<1>1. statuses \in Seq(Statuses)
  BY DEF EventsInit
<1>2. EventsTypeOK
  BY <1>1 DEF EventsInit, EventsTypeOK, Statuses
<1>3. StatusSound /\ StatusesComplete /\ pausedTimeout = "off"
  BY DEF EventsInit, StatusSound, StatusesComplete
<1> QED
  BY <1>2, <1>3 DEF StatusIInv

(* A history sync reports its end once, and never by a timer that a        *)
(* terminal event or the end of the socket should have disarmed.           *)
THEOREM SyncsEndOnce == EventsSpec => []StatusSound
<1>1. StatusIInv => StatusSound
  BY DEF StatusIInv
<1> QED
  BY <1>1, StatusInitially, StatusStep, PTL DEF EventsSpec

(***************************************************************************)
(* The legacy mirror.  What a get() would return now is acceptable, at     *)
(* every step of every operation; for that the envelope of an acknowledged *)
(* projected operation belongs to the legacy row, which is how a rewrite   *)
(* by another owner is noticed, and on the device route the envelope stays *)
(* acceptable whatever credentials a new process finds beside it.          *)
(***************************************************************************)

MirrorIInv ==
  /\ MirrorTypeOK
  /\ operation \in [kind : {"none", "get", "set", "delete"}, value : Payloads,
                    at : {"idle", "read", "write"}]
  /\ operation.kind = "set" => operation.value \in Writable(route)
  /\ Imported(legacy) \in acceptable
  /\ route = "device" /\ native # None => native.payload \in acceptable
  /\ route = "projected" /\ settled /\ native # None => native.digest = legacy

LEMMA MirrorData ==
  /\ \A l \in LegacyRows : FromLegacy(l) \in Payloads
  /\ \A v \in Payloads \ {None}, l \in LegacyRows :
       /\ Envelope(v, l) \in Envelopes
       /\ Envelope(v, l).payload = v /\ Envelope(v, l).digest = l
  /\ \A r : Writable(r) \subseteq Payloads \ {None}
  /\ \A v \in DOMAIN Projection : Projection[v] \in LegacyRows \ {None}
  /\ None \notin Envelopes
  /\ \A e \in Envelopes : e.payload \in Payloads \ {None} /\ e.digest \in LegacyRows
<1>1. DOMAIN Projection = {"a", "a2", "b", "c"} /\ DOMAIN Codec = {"A", "B", "C"}
  BY DEF Projection, Codec
<1>2. \A l \in DOMAIN Codec : Codec[l] \in {"a", "b", "c"}
  BY DEF Codec
<1>3. \A v \in DOMAIN Projection : Projection[v] \in DOMAIN Codec
  BY DEF Projection, Codec
<1> QED
  BY <1>1, <1>2, <1>3, MirrorAssumption
     DEF FromLegacy, Payloads, LegacyRows, Envelopes, Envelope, Writable

LEMMA MirrorStep == MirrorIInv /\ [MirrorNext]_mirrorVars => MirrorIInv'
<1> SUFFICES ASSUME MirrorIInv, [MirrorNext]_mirrorVars PROVE MirrorIInv'
  OBVIOUS
<1> USE MirrorData DEF MirrorIInv, MirrorTypeOK
<1>1. Imported(legacy) \in Payloads
  BY DEF Imported, Matches
<1>2. CASE CallMirrorGet
  BY <1>2, MirrorAssumption DEF CallMirrorGet, mirrorRows, Starts, Imported, Matches, Payloads
<1>3. CASE GetAnswers
  BY <1>1, <1>3 DEF GetAnswers, Ends, NoOperation, Repairs, mirrorRows, Imported, Matches, Payloads
<1>4. ASSUME NEW ok \in BOOLEAN, GetRepairs(ok) PROVE MirrorIInv'
  <2>1. CASE ok
    <3>1. /\ native' = Repaired(legacy) /\ Imported(legacy) = FromLegacy(legacy)
          /\ acceptable' = {FromLegacy(legacy)} /\ operation' = NoOperation
          /\ answer' = Imported(legacy)
          /\ settled' = (Imported(legacy) # "failed")
          /\ UNCHANGED <<route, isolated, legacy, savedCreds>>
      BY <1>4, <2>1 DEF GetRepairs, Ends, Repairs, Imported
    <3>2. native' = None \/ (native' \in Envelopes /\ native'.payload = FromLegacy(legacy)
                                /\ native'.digest = legacy)
      BY <3>1 DEF Repaired
    <3>3. native' = None => FromLegacy(legacy) = None
      BY <3>1 DEF Repaired
    <3>4. FromLegacy(legacy) \in Payloads
      OBVIOUS
    <3> QED
      BY <3>1, <3>2, <3>3, <3>4 DEF NoOperation, Imported, Matches, Payloads
  <2>2. CASE ~ok
    BY <1>4, <2>2 DEF GetRepairs, Ends, NoOperation, Imported, Matches, Payloads
  <2> QED
    BY <2>1, <2>2
<1>5. ASSUME NEW v \in Payloads, CallSet(v) PROVE MirrorIInv'
  <2>1. CASE route = "device"
    BY <1>5, <2>1 DEF CallSet, Starts, AfterFailure, Imported, Matches, Writable, Payloads, Projection
  <2>2. CASE route # "device"
    BY <1>5, <2>2 DEF CallSet, Starts, Imported, Matches
  <2> QED
    BY <2>1, <2>2
<1>6. ASSUME NEW v \in Payloads, NEW ok \in BOOLEAN, v \in AfterFailure(v),
             Acknowledged(v, ok), UNCHANGED savedCreds,
             legacy' \in LegacyRows, native' \in Envelopes \cup {None},
             Imported(legacy)' \in AfterFailure(v),
             ok => Imported(legacy)' = v,
             route = "device" /\ native' # None => native'.payload \in AfterFailure(v),
             ok /\ native' # None => native'.digest = legacy' /\ native'.payload = v
      PROVE  MirrorIInv'
  <2>1. /\ operation' = NoOperation /\ answer' \in {"none", "failed"}
        /\ acceptable' = IF ok THEN {v} ELSE AfterFailure(v)
        /\ settled' = ok /\ UNCHANGED <<route, isolated>>
    BY <1>6 DEF Acknowledged, Ends
  <2>2. acceptable' \subseteq Payloads
    BY <2>1 DEF AfterFailure, Payloads
  <2> QED
    BY <1>6, <2>1, <2>2 DEF NoOperation, Payloads
<1>7. ASSUME NEW v \in Payloads, NEW row \in LegacyRows, FromLegacy(row) \in AfterFailure(v),
             \/ native' = native \/ native' = None
             \/ native' \in Envelopes /\ native'.payload = v,
             legacy' \in {legacy, row}
      PROVE  /\ Imported(legacy)' \in AfterFailure(v)
             /\ native' # None => native'.payload \in AfterFailure(v)
  BY <1>7 DEF Imported, Matches, AfterFailure
<1>8. ASSUME NEW ok \in BOOLEAN, SetProjected(ok) PROVE MirrorIInv'
  <2>1. PICK v \in Payloads \ {None} : v = operation.value
    BY <1>8 DEF SetProjected
  <2>2. PICK row \in LegacyRows : row = IF NativeOnly(v) THEN legacy ELSE Projection[v]
    BY DEF NativeOnly
  <2>3. PICK e \in Envelopes : e = Envelope(v, row) /\ e.payload = v /\ e.digest = row
    BY <2>1, <2>2
  <2>4. /\ Persists(e, row, ok) /\ Acknowledged(v, ok)
        /\ UNCHANGED savedCreds
    BY <1>8, <2>1, <2>2, <2>3 DEF SetProjected
  <2>5. /\ native' \in {native, e} /\ legacy' \in {legacy, row}
        /\ ok => native' = e /\ legacy' = row
    BY <2>4 DEF Persists
  <2>6. FromLegacy(row) \in AfterFailure(v)
    BY <2>2 DEF AfterFailure, NativeOnly
  <2>7. ok => Imported(legacy)' = v
    BY <2>3, <2>5 DEF Imported, Matches
  <2>8. v \in AfterFailure(v)
    BY DEF AfterFailure
  <2>9. /\ Imported(legacy)' \in AfterFailure(v)
        /\ native' # None => native'.payload \in AfterFailure(v)
    BY <1>7, <2>2, <2>3, <2>5, <2>6
  <2> QED
    BY <1>6, <2>3, <2>4, <2>5, <2>7, <2>8, <2>9
<1>9. ASSUME NEW saves \in BOOLEAN, NEW persists \in BOOLEAN, SetDevice(saves, persists)
      PROVE  MirrorIInv'
  <2>1. PICK v \in Payloads \ {None} : v = operation.value
    BY <1>9 DEF SetDevice
  <2>2. PICK e \in Envelopes : e = Envelope(v, legacy) /\ e.payload = v /\ e.digest = legacy
    BY <2>1
  <2>3. PICK ok \in BOOLEAN : ok = (saves /\ persists)
    OBVIOUS
  <2>4. /\ native' = (IF persists THEN e ELSE native) /\ legacy' = legacy
        /\ savedCreds' \in {legacy, savedCreds} /\ Acknowledged(v, ok)
    BY <1>9, <2>1, <2>2, <2>3 DEF SetDevice
  <2>5. /\ operation' = NoOperation /\ answer' \in {"none", "failed"}
        /\ acceptable' = IF ok THEN {v} ELSE AfterFailure(v)
        /\ settled' = ok /\ UNCHANGED <<route, isolated>> /\ route = "device"
    BY <1>9, <2>4 DEF Acknowledged, Ends, SetDevice
  <2>6. /\ Imported(legacy)' \in AfterFailure(v)
        /\ native' # None => native'.payload \in AfterFailure(v)
    <3>1. FromLegacy(legacy) \in AfterFailure(v)
      BY DEF AfterFailure
    <3> QED
      BY <1>7, <2>2, <2>4, <3>1
  <2>7. ok => Imported(legacy)' = v /\ native'.payload = v
    BY <2>2, <2>3, <2>4 DEF Imported, Matches
  <2>8. acceptable' \subseteq Payloads
    BY <2>5 DEF AfterFailure, Payloads
  <2> QED
    BY <2>4, <2>5, <2>6, <2>7, <2>8 DEF NoOperation, Payloads
<1>10. CASE CallDelete
  BY <1>10 DEF CallDelete, mirrorRows, Starts, Imported, Matches, Payloads
<1>11. ASSUME NEW ok \in BOOLEAN, DeleteProjected(ok) PROVE MirrorIInv'
  <2>1. Persists(None, None, ok) /\ Acknowledged(None, ok) /\ UNCHANGED savedCreds
    BY <1>11 DEF DeleteProjected
  <2>2. /\ native' \in {native, None} /\ legacy' \in {legacy, None}
        /\ ok => native' = None /\ legacy' = None
    BY <2>1 DEF Persists
  <2>3. None \in Payloads /\ None \in LegacyRows /\ None \in AfterFailure(None) /\ FromLegacy(None) = None
    BY DEF Payloads, LegacyRows, AfterFailure, FromLegacy
  <2>4. /\ Imported(legacy)' \in AfterFailure(None)
        /\ native' # None => native'.payload \in AfterFailure(None)
    BY <1>7, <2>2, <2>3
  <2>5. ok => Imported(legacy)' = None
    BY <2>2, <2>3 DEF Imported, Matches
  <2> QED
    BY <1>6, <2>1, <2>2, <2>3, <2>4, <2>5
<1>12. ASSUME NEW l \in LegacyRows, OtherOwnerWrites(l) PROVE MirrorIInv'
  <2>1. /\ legacy' = l /\ acceptable' = {FromLegacy(l)} /\ settled' = FALSE /\ answer' = "none"
        /\ UNCHANGED <<route, isolated, native, savedCreds, operation>>
        /\ route = "projected" /\ settled /\ l # legacy
    BY <1>12 DEF OtherOwnerWrites
  <2>2. FromLegacy(l) \in Payloads
    OBVIOUS
  <2>3. Imported(legacy)' = FromLegacy(l)
    BY <2>1 DEF Imported, Matches
  <2>4. native' = None \/ native' \in Envelopes
    BY <2>1
  <2>5. /\ legacy' \in LegacyRows /\ savedCreds' \in LegacyRows
        /\ operation'.at \in {"idle", "read", "write"} /\ isolated' \in BOOLEAN
    <3>1. legacy' = l /\ savedCreds' = savedCreds /\ operation' = operation /\ isolated' = isolated
      BY <2>1
    <3>2. savedCreds \in LegacyRows /\ operation.at \in {"idle", "read", "write"}
      OBVIOUS
    <3>3. isolated \in BOOLEAN
      OBVIOUS
    <3> QED
      BY <1>12, <3>1, <3>2, <3>3
  <2>6. acceptable' \subseteq Payloads /\ settled' \in BOOLEAN /\ answer' = "none"
    <3>1. acceptable' = {FromLegacy(l)} /\ settled' = FALSE /\ answer' = "none"
      BY <2>1
    <3>2. {FromLegacy(l)} \subseteq Payloads
      BY <2>2
    <3> QED
      BY <3>1, <3>2
  <2>7. MirrorTypeOK'
    BY <2>4, <2>5, <2>6
  <2> QED
    BY <2>1, <2>3, <2>7
<1>13. CASE Restart
  <2>1. /\ operation' = NoOperation /\ answer' = "none" /\ settled' = FALSE
        /\ UNCHANGED <<route, isolated, native, savedCreds>>
    BY <1>13 DEF Restart
  <2>2. NoOperation \in [kind : {"none", "get", "set", "delete"}, value : Payloads,
                         at : {"idle", "read", "write"}]
    BY DEF NoOperation, Payloads
  <2>3. NoOperation.kind = "none" /\ NoOperation.at = "idle"
    BY DEF NoOperation
  <2>4. CASE route = "device" /\ legacy # savedCreds
    <3>1. legacy' = savedCreds /\ acceptable' = acceptable \cup {FromLegacy(savedCreds)}
      BY <1>13, <2>4 DEF Restart
    <3>2. FromLegacy(savedCreds) \in Payloads
      OBVIOUS
    <3>3. Imported(legacy)' \in acceptable'
      BY <2>1, <2>4, <3>1 DEF Imported, Matches
    <3>4. acceptable' \subseteq Payloads
      BY <3>1, <3>2
    <3>5. /\ native' = None \/ native' \in Envelopes
          /\ legacy' \in LegacyRows /\ savedCreds' \in LegacyRows
          /\ operation'.at \in {"idle", "read", "write"}
          /\ {isolated', settled'} \subseteq BOOLEAN
          /\ answer' \in Payloads \cup {"none", "failed"}
      BY <2>1, <2>3, <3>1
    <3> QED
      BY <2>1, <2>2, <2>3, <2>4, <3>1, <3>3, <3>4, <3>5
  <2>5. CASE ~(route = "device" /\ legacy # savedCreds)
    <3>1. legacy' = legacy /\ acceptable' = acceptable
      BY <1>13, <2>5 DEF Restart
    <3>2. Imported(legacy)' = Imported(legacy)
      BY <2>1, <3>1 DEF Imported, Matches
    <3>3. MirrorTypeOK'
      BY <2>1, <2>3, <3>1
    <3> QED
      BY <2>1, <2>2, <2>3, <3>1, <3>2, <3>3
  <2> QED
    BY <2>4, <2>5
<1>14. CASE UNCHANGED mirrorVars
  BY <1>14 DEF mirrorVars, Imported, Matches
<1> QED
  BY <1>2, <1>3, <1>4, <1>5, <1>8, <1>9, <1>10, <1>11, <1>12, <1>13, <1>14 DEF MirrorNext

LEMMA MirrorInitially == MirrorInit => MirrorIInv
<1> SUFFICES ASSUME MirrorInit PROVE MirrorIInv
  OBVIOUS
<1>1. legacy \in LegacyRows /\ savedCreds \in LegacyRows /\ native = None /\ acceptable = {FromLegacy(legacy)}
  BY DEF MirrorInit, LegacyRows, Codec
<1>2. FromLegacy(legacy) \in Payloads /\ Imported(legacy) = FromLegacy(legacy)
  BY <1>1, MirrorData DEF Imported, Matches
<1> QED
  BY <1>1, <1>2 DEF MirrorInit, MirrorIInv, MirrorTypeOK, NoOperation, Payloads

LEMMA MirrorInvariant == MirrorSpec => []MirrorIInv
BY MirrorInitially, MirrorStep, PTL DEF MirrorSpec

LEMMA MirrorAnswers ==
  MirrorIInv /\ [MirrorNext]_mirrorVars =>
    [answer' \in Payloads /\ operation.kind = "get" => answer' \in acceptable]_mirrorVars
<1>1. ASSUME MirrorIInv, [MirrorNext]_mirrorVars, answer' \in Payloads, operation.kind = "get",
             ~UNCHANGED mirrorVars
      PROVE  answer' \in acceptable
  <2>1. answer' \notin {"none", "failed"}
    BY <1>1, MirrorAssumption DEF Payloads, Projection
  <2>2. answer' = Imported(legacy) => answer' \in acceptable
    BY <1>1 DEF MirrorIInv
  <2>3. GetAnswers \/ (\E ok \in BOOLEAN : GetRepairs(ok)) => answer' \in {Imported(legacy), "failed"}
    BY DEF GetAnswers, GetRepairs, Ends
  <2>4. CASE CallMirrorGet \/ CallDelete \/ Restart \/ (\E v \in Payloads : CallSet(v))
               \/ (\E l \in LegacyRows : OtherOwnerWrites(l))
    BY <2>1, <2>4 DEF CallMirrorGet, CallDelete, Restart, CallSet, OtherOwnerWrites, Starts
  <2>5. /\ \A ok \in BOOLEAN : ~SetProjected(ok) /\ ~DeleteProjected(ok)
        /\ \A saves, persists \in BOOLEAN : ~SetDevice(saves, persists)
    BY <1>1 DEF SetProjected, DeleteProjected, SetDevice
  <2> QED
    BY <1>1, <2>1, <2>2, <2>3, <2>4, <2>5 DEF MirrorNext
<1> QED
  BY <1>1

(* A get() returns the exact bytes of the last acknowledged set(), or what *)
(* another owner has written since, on either route, with any failures and *)
(* restarts in between.                                                    *)
THEOREM MirrorIsExact == MirrorSpec => MirrorReadsExact
BY MirrorAnswers, MirrorInvariant, PTL DEF MirrorSpec, MirrorReadsExact

(***************************************************************************)
(* The merge of the event buffer.  `Merged` is what a consumer would hold  *)
(* if everything were released now, deletions aside: every payload but a   *)
(* late history row is folded into it as if it had been applied last.      *)
(***************************************************************************)

Numbers == [Fields -> Nat]
RowsOrAbsent == Numbers \cup {Absent}
Merged == Assign(Assign(Assign(consumer, histRow), upsertRow), updateRow)

MergeIInv ==
  /\ entity \in {"chat", "contact", "message"} /\ emitted \in Nat
  /\ {histRow, upsertRow, updateRow, consumer} \subseteq RowsOrAbsent
  /\ newest \in Numbers /\ newestUpdate \in Numbers
  /\ \A f \in Fields : newest[f] <= emitted
  /\ upsertRow # Absent => updateRow = Absent
  /\ ~lateHistory => histRow = Absent \/ (upsertRow = Absent /\ updateRow = Absent)
  /\ ~lateHistory /\ entity = "message" /\ updateRow # Absent =>
       \A f \in Fields : updateRow[f] # 0 => newestUpdate[f] = updateRow[f]
  /\ deletion \in BOOLEAN /\ (deletion => newest = Nothing /\ entity # "contact")
  /\ gone => deletion \/ Merged = Absent
  /\ ~lateHistory => \A f \in Fields : newest[f] # 0 =>
       /\ Merged # Absent
       /\ Merged[f] >= newest[f] \/ (entity = "message" /\ Merged[f] = newestUpdate[f])

LEMMA AssignedIs ==
  /\ Absent \notin Numbers
  /\ \A r \in RowsOrAbsent : Assign(Absent, r) = r /\ Assign(r, Absent) = r
  /\ \A l, r \in RowsOrAbsent : Assign(l, r) \in RowsOrAbsent
  /\ \A l \in RowsOrAbsent, r \in Numbers : Assign(l, r) \in Numbers /\ Assign(r, l) \in Numbers
  /\ \A l, r \in Numbers, f \in Fields : Assign(l, r)[f] = IF r[f] # 0 THEN r[f] ELSE l[f]
<1>1. Absent \notin Numbers
  BY MergeAssumption DEF Numbers
<1>2. \A r \in RowsOrAbsent : Assign(Absent, r) = r /\ Assign(r, Absent) = r
  BY DEF Assign
<1>3. \A l, r \in Numbers : /\ Assign(l, r) \in Numbers
                            /\ \A f \in Fields : Assign(l, r)[f] = IF r[f] # 0 THEN r[f] ELSE l[f]
  BY <1>1 DEF Assign, Numbers
<1> QED
  BY <1>1, <1>2, <1>3 DEF RowsOrAbsent

LEMMA AssignAssociates ==
  ASSUME NEW a \in RowsOrAbsent, NEW b \in RowsOrAbsent, NEW c \in RowsOrAbsent
  PROVE  Assign(Assign(a, b), c) = Assign(a, Assign(b, c))
<1>1. CASE a = Absent \/ b = Absent \/ c = Absent
  BY <1>1, AssignedIs
<1>2. CASE a \in Numbers /\ b \in Numbers /\ c \in Numbers
  <2>1. /\ Assign(a, b) \in Numbers /\ Assign(b, c) \in Numbers
        /\ Assign(Assign(a, b), c) \in Numbers /\ Assign(a, Assign(b, c)) \in Numbers
    BY <1>2, AssignedIs DEF RowsOrAbsent
  <2>2. \A f \in Fields : Assign(Assign(a, b), c)[f] = Assign(a, Assign(b, c))[f]
    <3> TAKE f \in Fields
    <3>1. Assign(Assign(a, b), c)[f] = IF c[f] # 0 THEN c[f] ELSE Assign(a, b)[f]
      BY <1>2, <2>1, AssignedIs
    <3>2. Assign(a, b)[f] = IF b[f] # 0 THEN b[f] ELSE a[f]
      BY <1>2, AssignedIs
    <3>3. Assign(a, Assign(b, c))[f] = IF Assign(b, c)[f] # 0 THEN Assign(b, c)[f] ELSE a[f]
      BY <1>2, <2>1, AssignedIs
    <3>4. Assign(b, c)[f] = IF c[f] # 0 THEN c[f] ELSE b[f]
      BY <1>2, AssignedIs
    <3> QED
      BY <3>1, <3>2, <3>3, <3>4
  <2> QED
    BY <2>1, <2>2 DEF Numbers
<1> QED
  BY <1>1, <1>2 DEF RowsOrAbsent

(* A live event folded in last keeps the consumer current. *)
LEMMA StaysCurrent ==
  ASSUME NEW n \in Nat, NEW row \in Numbers, \A f \in Fields : row[f] \in {0, n},
         NEW kept \in RowsOrAbsent, NEW old \in Numbers, NEW oldUpdate \in Numbers,
         NEW newUpdate \in Numbers, NEW isMessage \in BOOLEAN,
         \A f \in Fields : old[f] <= n,
         isMessage => newUpdate = Assign(oldUpdate, row),
         \A f \in Fields : old[f] # 0 =>
           kept # Absent /\ (kept[f] >= old[f] \/ (isMessage /\ kept[f] = oldUpdate[f]))
  PROVE  \A f \in Fields : Assign(old, row)[f] # 0 =>
           /\ Assign(kept, row) # Absent
           /\ \/ Assign(kept, row)[f] >= Assign(old, row)[f]
              \/ isMessage /\ Assign(kept, row)[f] = newUpdate[f]
<1> SUFFICES ASSUME NEW f \in Fields, Assign(old, row)[f] # 0
             PROVE  /\ Assign(kept, row) # Absent
                    /\ \/ Assign(kept, row)[f] >= Assign(old, row)[f]
                       \/ isMessage /\ Assign(kept, row)[f] = newUpdate[f]
  OBVIOUS
<1>1. Assign(kept, row) \in Numbers /\ Assign(kept, row) # Absent
  BY AssignedIs
<1>2. Assign(old, row)[f] = IF row[f] # 0 THEN row[f] ELSE old[f]
  BY AssignedIs
<1>3. isMessage => newUpdate[f] = IF row[f] # 0 THEN row[f] ELSE oldUpdate[f]
  BY AssignedIs
<1>4. row[f] \in Nat /\ old[f] \in Nat
  BY DEF Numbers
<1>5. CASE kept = Absent
  <2>1. Assign(kept, row) = row
    BY <1>5, AssignedIs DEF RowsOrAbsent
  <2>2. old[f] = 0
    BY <1>5
  <2> QED
    BY <1>1, <1>2, <1>4, <2>1, <2>2
<1>6. CASE kept \in Numbers
  <2>1. Assign(kept, row)[f] = IF row[f] # 0 THEN row[f] ELSE kept[f]
    BY <1>6, AssignedIs
  <2> QED
    BY <1>1, <1>2, <1>3, <1>4, <2>1
<1> QED
  BY <1>5, <1>6 DEF RowsOrAbsent

(* An event whose fields, if any, are folded in last. *)
LEMMA EmissionKeepsMerge ==
  ASSUME MergeIInv, NEW row \in Payload(emitted + 1), NEW update \in {row, Absent},
         Emits(row, update), entity = "message" => update = row,
         ~lateHistory => Merged' = Assign(Merged, row),
         {histRow, upsertRow, updateRow}' \subseteq RowsOrAbsent,
         upsertRow' # Absent => updateRow' = Absent,
         ~lateHistory => histRow' = Absent \/ (upsertRow' = Absent /\ updateRow' = Absent),
         ~lateHistory /\ entity = "message" /\ updateRow' # Absent =>
           \A f \in Fields : updateRow'[f] # 0 => newestUpdate'[f] = updateRow'[f],
         deletion' = FALSE, lateHistory' = lateHistory
  PROVE  MergeIInv'
<1> USE DEF MergeIInv
<1>1. row \in Numbers /\ \A f \in Fields : row[f] \in {0, emitted + 1}
  BY DEF Payload, Numbers
<1>2. /\ emitted' = emitted + 1 /\ newest' = Assign(newest, row) /\ gone' = FALSE
      /\ newestUpdate' = Assign(newestUpdate, update) /\ entity' = entity /\ consumer' = consumer
  BY DEF Emits
<1>3. newest' \in Numbers /\ newestUpdate' \in Numbers
  BY <1>1, <1>2, AssignedIs DEF RowsOrAbsent
<1>4. \A f \in Fields : newest'[f] <= emitted'
  <2> TAKE f \in Fields
  <2>1. newest'[f] = IF row[f] # 0 THEN row[f] ELSE newest[f]
    BY <1>1, <1>2, AssignedIs
  <2>2. newest[f] \in Nat
    BY DEF Numbers
  <2> QED
    BY <1>1, <1>2, <2>1, <2>2
<1>5. Merged \in RowsOrAbsent
  BY AssignedIs DEF Merged
<1>6. ~lateHistory' => \A f \in Fields : newest'[f] # 0 =>
        /\ Merged' # Absent
        /\ Merged'[f] >= newest'[f] \/ (entity' = "message" /\ Merged'[f] = newestUpdate'[f])
  <2> SUFFICES ASSUME ~lateHistory
               PROVE  \A f \in Fields : newest'[f] # 0 =>
        /\ Merged' # Absent
        /\ Merged'[f] >= newest'[f] \/ (entity' = "message" /\ Merged'[f] = newestUpdate'[f])
    OBVIOUS
  <2>1. PICK isMessage \in BOOLEAN : isMessage = (entity = "message")
    OBVIOUS
  <2>2. \A f \in Fields : newest[f] <= emitted + 1
    BY DEF Numbers
  <2>4. isMessage => newestUpdate' = Assign(newestUpdate, row)
    BY <1>2, <2>1
  <2>5. \A f \in Fields : newest[f] # 0 =>
          Merged # Absent /\ (Merged[f] >= newest[f] \/ (isMessage /\ Merged[f] = newestUpdate[f]))
    BY <2>1
  <2>6. newest \in Numbers /\ newestUpdate \in Numbers /\ emitted + 1 \in Nat
    OBVIOUS
  <2>3. \A f \in Fields : Assign(newest, row)[f] # 0 =>
           /\ Assign(Merged, row) # Absent
           /\ \/ Assign(Merged, row)[f] >= Assign(newest, row)[f]
              \/ isMessage /\ Assign(Merged, row)[f] = newestUpdate'[f]
    <3>1. PICK n \in Nat : n = emitted + 1
      BY <2>6
    <3>2. PICK kept \in RowsOrAbsent : kept = Merged
      BY <1>5
    <3>3. PICK old \in Numbers : old = newest
      BY <2>6
    <3>4. PICK oldUpdate \in Numbers : oldUpdate = newestUpdate
      BY <2>6
    <3>5. PICK newUpdate \in Numbers : newUpdate = newestUpdate'
      BY <1>3
    <3>6. /\ \A f \in Fields : row[f] \in {0, n}
          /\ \A f \in Fields : old[f] <= n
          /\ isMessage => newUpdate = Assign(oldUpdate, row)
          /\ \A f \in Fields : old[f] # 0 =>
               kept # Absent /\ (kept[f] >= old[f] \/ (isMessage /\ kept[f] = oldUpdate[f]))
      BY <1>1, <2>2, <2>4, <2>5, <3>1, <3>2, <3>3, <3>4, <3>5
    <3>7. row \in Numbers
      BY <1>1
    <3>8. \A f \in Fields : Assign(old, row)[f] # 0 =>
           /\ Assign(kept, row) # Absent
           /\ \/ Assign(kept, row)[f] >= Assign(old, row)[f]
              \/ isMessage /\ Assign(kept, row)[f] = newUpdate[f]
      <4> HIDE DEF MergeIInv
      <4> QED
        BY <3>6, <3>7, StaysCurrent
    <3> QED
      BY <3>2, <3>3, <3>5, <3>8
  <2> QED
    BY <1>2, <2>1, <2>3
<1>7. \A r \in {histRow, upsertRow, updateRow, consumer}' : r \in RowsOrAbsent
  BY <1>2
<1>8. emitted' \in Nat
  BY <1>2
<1> QED
  BY <1>2, <1>3, <1>4, <1>6, <1>7, <1>8

LEMMA MergeStep == MergeIInv /\ [MergeNext]_mergeVars => MergeIInv'
<1> SUFFICES ASSUME MergeIInv, [MergeNext]_mergeVars PROVE MergeIInv'
  OBVIOUS
<1>1. /\ histRow \in RowsOrAbsent /\ upsertRow \in RowsOrAbsent /\ updateRow \in RowsOrAbsent
      /\ consumer \in RowsOrAbsent /\ Absent \in RowsOrAbsent /\ emitted \in Nat
  BY DEF MergeIInv, RowsOrAbsent
<1>2. \A row \in Payload(emitted + 1) :
        row \in Numbers /\ row \in RowsOrAbsent /\ row # Absent /\ \A f \in Fields : row[f] \in {0, emitted + 1}
  BY <1>1, AssignedIs DEF Payload, Numbers, RowsOrAbsent
<1>3. Merged \in RowsOrAbsent
  BY <1>1, AssignedIs DEF Merged
<1>4. ASSUME NEW row \in Payload(emitted + 1), HistorySet(row) PROVE MergeIInv'
  <2>1. /\ emitted' = emitted + 1 /\ newest' = newest /\ newestUpdate' = newestUpdate
        /\ gone' = FALSE /\ UNCHANGED <<entity, consumer, upsertRow, deletion>>
        /\ updateRow' \in {updateRow, Absent}
        /\ histRow' \in {histRow, row, Assign(updateRow, row), Assign(histRow, row)}
        /\ lateHistory' = (lateHistory \/ upsertRow # Absent \/ updateRow' # Absent)
    <3>1. newest \in RowsOrAbsent /\ newestUpdate \in RowsOrAbsent
      BY DEF MergeIInv, RowsOrAbsent
    <3>2. Assign(newest, Absent) = newest /\ Assign(newestUpdate, Absent) = newestUpdate
      BY <3>1, AssignedIs
    <3>3. Emits(Absent, Absent)
      BY <1>4 DEF HistorySet
    <3>4. /\ emitted' = emitted + 1 /\ newest' = newest /\ newestUpdate' = newestUpdate
          /\ gone' = FALSE /\ UNCHANGED <<entity, consumer>>
      BY <3>2, <3>3 DEF Emits
    <3> QED
      BY <1>4, <3>4 DEF HistorySet
  <2>2. histRow' \in RowsOrAbsent /\ updateRow' \in RowsOrAbsent
    BY <1>1, <1>2, <2>1, AssignedIs
  <2>3. ~lateHistory' => Merged' \in {Merged, Assign(Merged, row)}
    <3> SUFFICES ASSUME ~lateHistory' PROVE Merged' \in {Merged, Assign(Merged, row)}
      OBVIOUS
    <3>1. upsertRow = Absent /\ updateRow' = Absent
      BY <2>1
    <3>2. Merged' = Assign(consumer, histRow')
      BY <1>1, <2>1, <2>2, <3>1, AssignedIs DEF Merged
    <3>3. Merged = Assign(Assign(consumer, histRow), updateRow)
      BY <1>1, <3>1, AssignedIs DEF Merged
    <3>4. \/ histRow' = histRow /\ updateRow = Absent
          \/ histRow = Absent /\ histRow' = Assign(updateRow, row)
          \/ histRow = Absent /\ updateRow = Absent /\ histRow' = row
          \/ updateRow = Absent /\ histRow' = Assign(histRow, row)
      BY <1>4, <3>1 DEF HistorySet
    <3>5. row \in RowsOrAbsent
      BY <1>2
    <3>6. /\ Assign(Absent, row) = row
          /\ Assign(consumer, Absent) = consumer
          /\ Assign(Assign(consumer, histRow), Absent) = Assign(consumer, histRow)
          /\ Assign(Assign(consumer, updateRow), row) = Assign(consumer, Assign(updateRow, row))
          /\ Assign(Assign(consumer, histRow), row) = Assign(consumer, Assign(histRow, row))
      BY <1>1, <3>5, AssignedIs, AssignAssociates
    <3> QED
      BY <3>2, <3>3, <3>4, <3>6
  <2>4. ~lateHistory' => \A f \in Fields : newest'[f] # 0 =>
          /\ Merged' # Absent
          /\ Merged'[f] >= newest'[f] \/ (entity' = "message" /\ Merged'[f] = newestUpdate'[f])
    <3> SUFFICES ASSUME ~lateHistory', NEW f \in Fields, newest[f] # 0
                 PROVE  /\ Merged' # Absent
                        /\ Merged'[f] >= newest[f] \/ (entity = "message" /\ Merged'[f] = newestUpdate[f])
      BY <2>1
    <3>1. Merged # Absent /\ (Merged[f] >= newest[f] \/ (entity = "message" /\ Merged[f] = newestUpdate[f]))
      BY <2>1 DEF MergeIInv
    <3>2. Merged \in Numbers /\ row \in Numbers /\ newest[f] \in Nat /\ newest[f] <= emitted
      BY <1>2, <1>3, <3>1 DEF RowsOrAbsent, MergeIInv, Numbers
    <3>3. /\ Assign(Merged, row) # Absent
          /\ Assign(Merged, row)[f] = IF row[f] # 0 THEN row[f] ELSE Merged[f]
      <4>1. PICK kept \in Numbers : kept = Merged
        BY <3>2
      <4>2. kept \in RowsOrAbsent /\ row \in Numbers
        BY <3>2 DEF RowsOrAbsent
      <4>3. Assign(kept, row) \in Numbers
        BY <4>2, AssignedIs
      <4>4. Assign(kept, row)[f] = IF row[f] # 0 THEN row[f] ELSE kept[f]
        BY <4>2, AssignedIs
      <4> QED
        BY <4>1, <4>3, <4>4, AssignedIs
    <3>4. row[f] \in {0, emitted + 1}
      BY <1>2
    <3> QED
      BY <1>1, <2>3, <3>1, <3>2, <3>3, <3>4
  <2>5. \A f \in Fields : newest'[f] <= emitted'
    <3> TAKE f \in Fields
    <3>1. newest[f] <= emitted /\ newest[f] \in Nat
      BY DEF MergeIInv, Numbers
    <3> QED
      BY <1>1, <2>1, <3>1
  <2>6. ~lateHistory' => histRow' = Absent \/ (upsertRow' = Absent /\ updateRow' = Absent)
    BY <2>1
  <2>7. ~lateHistory' => ~lateHistory /\ updateRow' = Absent
    BY <2>1
  <2> QED
    BY <1>1, <2>1, <2>2, <2>4, <2>5, <2>6, <2>7 DEF MergeIInv
<1>5. ASSUME NEW row \in Payload(emitted + 1), UpsertChatOrContact(row) PROVE MergeIInv'
  <2>1. /\ Emits(row, Absent) /\ JoinsUpsert(UpsertRow(row)) /\ updateRow' = Absent
        /\ deletion' = FALSE /\ lateHistory' = lateHistory /\ entity # "message" /\ consumer' = consumer
    BY <1>5 DEF UpsertChatOrContact, Emits
  <2>2. PICK joined \in RowsOrAbsent : joined = Assign(updateRow, row)
    BY <1>1, <1>2, AssignedIs
  <2>3. IF upsertRow = Absent /\ histRow # Absent
        THEN histRow' = Assign(histRow, joined) /\ upsertRow' = upsertRow
        ELSE upsertRow' = Assign(upsertRow, joined) /\ histRow' = histRow
    BY <2>1, <2>2 DEF JoinsUpsert, UpsertRow
  <2>4. histRow' \in RowsOrAbsent /\ upsertRow' \in RowsOrAbsent
    BY <1>1, <2>3, AssignedIs
  <2>5. Assign(Merged, row) = Assign(Assign(Assign(consumer, histRow), upsertRow), joined)
    <3>1. Assign(Assign(consumer, histRow), upsertRow) \in RowsOrAbsent /\ row \in RowsOrAbsent
      BY <1>1, <1>2, AssignedIs
    <3> QED
      BY <1>1, <2>2, <3>1, AssignAssociates DEF Merged
  <2>6. Merged' = Assign(Merged, row)
    <3>1. Merged' = Assign(Assign(consumer, histRow'), upsertRow')
      <4>1. Assign(Assign(consumer, histRow'), upsertRow') \in RowsOrAbsent
        BY <1>1, <2>4, AssignedIs
      <4> QED
        BY <2>1, <4>1, AssignedIs DEF Merged
    <3>2. CASE upsertRow = Absent /\ histRow # Absent
      <4>1. Assign(consumer, histRow) \in RowsOrAbsent
        BY <1>1, AssignedIs
      <4>2. Assign(Assign(consumer, histRow), Absent) = Assign(consumer, histRow)
        BY <4>1, AssignedIs
      <4>3. Assign(Assign(consumer, histRow), joined) = Assign(consumer, Assign(histRow, joined))
        BY <1>1, AssignAssociates
      <4>4. Assign(Assign(consumer, histRow'), Absent) = Assign(consumer, histRow')
        BY <1>1, <2>4, AssignedIs
      <4> QED
        BY <2>3, <2>5, <3>1, <3>2, <4>2, <4>3, <4>4
    <3>3. CASE ~(upsertRow = Absent /\ histRow # Absent)
      <4>1. Assign(consumer, histRow) \in RowsOrAbsent
        BY <1>1, AssignedIs
      <4>2. Assign(Assign(Assign(consumer, histRow), upsertRow), joined)
              = Assign(Assign(consumer, histRow), Assign(upsertRow, joined))
        BY <1>1, <4>1, AssignAssociates
      <4> QED
        BY <2>3, <2>5, <3>1, <3>3, <4>2
    <3> QED
      BY <3>2, <3>3
  <2>7. ~lateHistory => histRow' = Absent \/ (upsertRow' = Absent /\ updateRow' = Absent)
    BY <2>1, <2>3 DEF MergeIInv
  <2> QED
    BY <1>1, <2>1, <2>4, <2>6, <2>7, EmissionKeepsMerge
<1>6. ASSUME NEW row \in Payload(emitted + 1), UpsertMessage(row) PROVE MergeIInv'
  <2>1. /\ Emits(row, Absent) /\ entity = "message" /\ deletion = FALSE /\ deletion' = FALSE
        /\ \A f \in Fields : row[f] # 0
        /\ updateRow' = Absent /\ lateHistory' = lateHistory
        /\ \/ histRow # Absent /\ histRow' = Assign(row, updateRow) /\ upsertRow' = upsertRow
           \/ histRow = Absent /\ upsertRow' = Assign(row, updateRow) /\ histRow' = histRow
    BY <1>6 DEF UpsertMessage, Whole, MergeIInv
  <2>2. PICK placed \in Numbers : placed = Assign(row, updateRow)
    BY <1>1, <1>2, AssignedIs
  <2>3. /\ emitted' = emitted + 1 /\ newest' = Assign(newest, row) /\ newestUpdate' = newestUpdate
        /\ gone' = FALSE /\ entity' = entity /\ consumer' = consumer
    <3>1. newestUpdate \in RowsOrAbsent
      BY DEF MergeIInv, RowsOrAbsent
    <3> QED
      BY <2>1, <3>1, AssignedIs DEF Emits
  <2>4. /\ histRow' \in RowsOrAbsent /\ upsertRow' \in RowsOrAbsent
        /\ placed \in RowsOrAbsent /\ placed # Absent
    BY <1>1, <2>1, <2>2, AssignedIs DEF RowsOrAbsent
  <2>5. \A f \in Fields : newest'[f] = row[f] /\ row[f] = emitted + 1
    <3> TAKE f \in Fields
    <3>1. newest \in Numbers /\ row \in Numbers
      BY <1>2 DEF MergeIInv
    <3>2. Assign(newest, row)[f] = IF row[f] # 0 THEN row[f] ELSE newest[f]
      BY <3>1, AssignedIs
    <3> QED
      BY <1>2, <2>1, <2>3, <3>2
  <2>6. ~lateHistory => Merged' = Assign(IF histRow = Absent THEN Assign(consumer, Absent) ELSE consumer,
                                         placed)
    <3> SUFFICES ASSUME ~lateHistory
                 PROVE  Merged' = Assign(IF histRow = Absent THEN Assign(consumer, Absent) ELSE consumer,
                                         placed)
      OBVIOUS
    <3>1. Merged' = Assign(Assign(consumer, histRow'), upsertRow')
      <4>1. Assign(Assign(consumer, histRow'), upsertRow') \in RowsOrAbsent
        BY <1>1, <2>4, AssignedIs
      <4> QED
        BY <2>1, <2>3, <4>1, AssignedIs DEF Merged
    <3>2. CASE histRow # Absent
      <4>1. upsertRow = Absent /\ updateRow = Absent
        BY <3>2 DEF MergeIInv
      <4>2. Assign(consumer, placed) \in RowsOrAbsent
        BY <1>1, <2>4, AssignedIs
      <4> QED
        BY <2>1, <2>2, <3>1, <3>2, <4>1, <4>2, AssignedIs
    <3>3. CASE histRow = Absent
      <4>1. upsertRow' = placed /\ histRow' = Absent
        BY <2>1, <2>2, <3>3
      <4> QED
        BY <3>1, <3>3, <4>1
    <3> QED
      BY <3>2, <3>3
  <2>7. ~lateHistory => Merged' = Assign(consumer, placed)
    BY <1>1, <2>6, AssignedIs
  <2>8. ~lateHistory => \A f \in Fields :
          /\ Merged' # Absent
          /\ Merged'[f] = newest'[f] \/ Merged'[f] = newestUpdate'[f]
    <3> SUFFICES ASSUME ~lateHistory, NEW f \in Fields
                 PROVE  /\ Assign(consumer, placed) # Absent
                        /\ \/ Assign(consumer, placed)[f] = newest'[f]
                           \/ Assign(consumer, placed)[f] = newestUpdate'[f]
      BY <2>7
    <3>1. placed[f] # 0 /\ (placed[f] = newest'[f] \/ placed[f] = newestUpdate'[f])
      <4>1. CASE updateRow = Absent
        <5>1. placed = row
          BY <1>2, <2>2, <4>1, AssignedIs
        <5> QED
          BY <2>1, <2>5, <5>1
      <4>2. CASE updateRow \in Numbers
        <5>1. placed[f] = IF updateRow[f] # 0 THEN updateRow[f] ELSE row[f]
          BY <1>2, <2>2, <4>2, AssignedIs
        <5>2. updateRow[f] # 0 => newestUpdate[f] = updateRow[f]
          BY <2>1, <4>2, AssignedIs DEF MergeIInv
        <5> QED
          BY <2>1, <2>3, <2>5, <5>1, <5>2
      <4> QED
        BY <1>1, <4>1, <4>2 DEF RowsOrAbsent
    <3>2. Assign(consumer, placed) \in Numbers
      BY <1>1, AssignedIs
    <3>3. Assign(consumer, placed)[f] = placed[f]
      <4>1. CASE consumer = Absent
        BY <2>4, <4>1, AssignedIs
      <4>2. CASE consumer \in Numbers
        <5>1. Assign(consumer, placed)[f] = IF placed[f] # 0 THEN placed[f] ELSE consumer[f]
          BY <4>2, AssignedIs
        <5> QED
          BY <3>1, <5>1
      <4> QED
        BY <1>1, <4>1, <4>2 DEF RowsOrAbsent
    <3> QED
      BY <3>1, <3>2, <3>3, AssignedIs
  <2>9. newest' \in Numbers /\ newestUpdate' \in Numbers
    BY <1>2, <2>3, AssignedIs DEF MergeIInv, RowsOrAbsent
  <2>10. \A f \in Fields : newest'[f] <= emitted' /\ newest'[f] >= newest'[f]
    BY <1>1, <2>3, <2>5
  <2>11. ~lateHistory => histRow' = Absent \/ (upsertRow' = Absent /\ updateRow' = Absent)
    BY <2>1 DEF MergeIInv
  <2>12. ~lateHistory' => \A f \in Fields : newest'[f] # 0 =>
          /\ Merged' # Absent
          /\ Merged'[f] >= newest'[f] \/ (entity' = "message" /\ Merged'[f] = newestUpdate'[f])
    BY <2>1, <2>3, <2>8, <2>10
  <2>13. \A r \in {histRow, upsertRow, updateRow, consumer}' : r \in RowsOrAbsent
    BY <1>1, <2>1, <2>3, <2>4
  <2>14. emitted' \in Nat /\ entity' \in {"chat", "contact", "message"}
    BY <1>1, <2>3 DEF MergeIInv
  <2>15. /\ upsertRow' # Absent => updateRow' = Absent
         /\ updateRow' = Absent /\ deletion' = FALSE /\ gone' = FALSE /\ lateHistory' = lateHistory
    BY <2>1, <2>3
  <2> QED
    BY <2>9, <2>10, <2>11, <2>12, <2>13, <2>14, <2>15 DEF MergeIInv
<1>7. ASSUME NEW row \in Payload(emitted + 1), Update(row) PROVE MergeIInv'
  <2>1. /\ Emits(row, row) /\ deletion' = FALSE /\ lateHistory' = lateHistory /\ consumer' = consumer
        /\ newestUpdate' = Assign(newestUpdate, row) /\ entity' = entity
        /\ histRow' = IF histRow # Absent THEN Assign(histRow, row) ELSE Absent
        /\ upsertRow' = IF histRow = Absent /\ upsertRow # Absent THEN Assign(upsertRow, row) ELSE upsertRow
        /\ updateRow' = IF histRow = Absent /\ upsertRow = Absent THEN Assign(updateRow, row) ELSE updateRow
    <3>1. deletion' = FALSE
      BY <1>7 DEF Update, MergeIInv
    <3> QED
      BY <1>7, <3>1 DEF Update, Emits
  <2>2. histRow' \in RowsOrAbsent /\ upsertRow' \in RowsOrAbsent /\ updateRow' \in RowsOrAbsent
    BY <1>1, <1>2, <2>1, AssignedIs
  <2>3. upsertRow' # Absent => updateRow' = Absent
    BY <2>1 DEF MergeIInv
  <2>4. ~lateHistory => histRow' = Absent \/ (upsertRow' = Absent /\ updateRow' = Absent)
    BY <2>1 DEF MergeIInv
  <2>5. ~lateHistory => Merged' = Assign(Merged, row)
    <3> SUFFICES ASSUME ~lateHistory PROVE Merged' = Assign(Merged, row)
      OBVIOUS
    <3>1. row \in RowsOrAbsent
      BY <1>2
    <3>2. Assign(consumer, histRow) \in RowsOrAbsent /\ Assign(Assign(consumer, histRow), upsertRow) \in RowsOrAbsent
      BY <1>1, AssignedIs
    <3>3. CASE histRow # Absent
      <4>1. upsertRow = Absent /\ updateRow = Absent /\ upsertRow' = Absent /\ updateRow' = Absent
        BY <2>1, <3>3 DEF MergeIInv
      <4>2. Merged = Assign(consumer, histRow)
        BY <3>2, <4>1, AssignedIs DEF Merged
      <4>3. Merged' = Assign(consumer, histRow')
        BY <1>1, <2>1, <2>2, <4>1, AssignedIs DEF Merged
      <4> QED
        BY <1>1, <2>1, <3>1, <3>3, <4>2, <4>3, AssignAssociates
    <3>4. CASE histRow = Absent /\ upsertRow # Absent
      <4>1. updateRow = Absent /\ updateRow' = Absent /\ histRow' = Absent /\ upsertRow' = Assign(upsertRow, row)
        BY <2>1, <3>4 DEF MergeIInv
      <4>2. Merged = Assign(Assign(consumer, histRow), upsertRow)
        BY <3>2, <4>1, AssignedIs DEF Merged
      <4>3. Assign(Assign(consumer, histRow), Assign(upsertRow, row)) \in RowsOrAbsent
        BY <1>1, <3>1, <3>2, AssignedIs
      <4>4. Merged' = Assign(Assign(consumer, histRow), Assign(upsertRow, row))
        BY <2>1, <3>4, <4>1, <4>3, AssignedIs DEF Merged
      <4> QED
        BY <1>1, <3>1, <3>2, <4>2, <4>4, AssignAssociates
    <3>5. CASE histRow = Absent /\ upsertRow = Absent
      <4>1. histRow' = Absent /\ upsertRow' = Absent /\ updateRow' = Assign(updateRow, row)
        BY <2>1, <3>5
      <4> QED
        BY <1>1, <2>1, <3>1, <3>2, <3>5, <4>1, AssignAssociates DEF Merged
    <3> QED
      BY <3>3, <3>4, <3>5
  <2>6. ~lateHistory /\ entity = "message" /\ updateRow' # Absent =>
          \A f \in Fields : updateRow'[f] # 0 => newestUpdate'[f] = updateRow'[f]
    <3> SUFFICES ASSUME ~lateHistory, entity = "message", updateRow' # Absent, NEW f \in Fields,
                        updateRow'[f] # 0
                 PROVE  newestUpdate'[f] = updateRow'[f]
      OBVIOUS
    <3>1. histRow = Absent /\ upsertRow = Absent /\ updateRow' = Assign(updateRow, row)
      BY <2>1, <2>4 DEF MergeIInv
    <3>2. newestUpdate'[f] = IF row[f] # 0 THEN row[f] ELSE newestUpdate[f]
      BY <1>2, <2>1, AssignedIs DEF MergeIInv
    <3>3. CASE updateRow = Absent
      <4>1. updateRow' = row
        BY <1>2, <3>1, <3>3, AssignedIs
      <4> QED
        BY <3>2, <4>1
    <3>4. CASE updateRow \in Numbers
      <4>1. updateRow'[f] = IF row[f] # 0 THEN row[f] ELSE updateRow[f]
        BY <1>2, <3>1, <3>4, AssignedIs
      <4>2. updateRow[f] # 0 => newestUpdate[f] = updateRow[f]
        BY <3>4, AssignedIs DEF MergeIInv
      <4> QED
        BY <3>2, <4>1, <4>2
    <3> QED
      BY <1>1, <3>3, <3>4 DEF RowsOrAbsent
  <2> QED
    BY <2>1, <2>2, <2>3, <2>4, <2>5, <2>6, EmissionKeepsMerge
<1>8. CASE Delete
  <2>1. /\ entity \in {"chat", "message"} /\ emitted' = emitted + 1 /\ deletion' = TRUE
        /\ upsertRow' = Absent /\ updateRow' = Absent /\ histRow' \in {Absent, histRow}
        /\ newest' = Nothing /\ newestUpdate' = Nothing /\ gone' = TRUE
        /\ UNCHANGED <<entity, consumer, lateHistory>>
    BY <1>8 DEF Delete
  <2>2. Nothing \in Numbers /\ \A f \in Fields : Nothing[f] = 0
    BY DEF Nothing, Numbers
  <2> QED
    BY <1>1, <2>1, <2>2 DEF MergeIInv
<1>9. CASE ClearChat
  BY <1>9 DEF ClearChat, heldVars, MergeIInv, Merged
<1>10. CASE ReleaseHeld
  <2>1. /\ histRow' = Absent /\ upsertRow' = Absent /\ updateRow' = Absent /\ deletion' = FALSE
        /\ consumer' = IF deletion THEN Absent ELSE Merged
        /\ UNCHANGED <<entity, emitted, newest, newestUpdate, gone, lateHistory>>
    BY <1>10 DEF ReleaseHeld, Consolidated, Merged
  <2>2. consumer' \in RowsOrAbsent
    BY <1>1, <1>3, <2>1
  <2>3. Merged' = consumer'
    BY <1>1, <2>1, <2>2, AssignedIs DEF Merged
  <2>4. \A f \in Fields : deletion => newest[f] = 0
    BY DEF MergeIInv, Nothing
  <2> QED
    BY <1>1, <2>1, <2>2, <2>3, <2>4 DEF MergeIInv
<1>11. CASE UNCHANGED mergeVars
  BY <1>11 DEF mergeVars, MergeIInv, Merged
<1> QED
  BY <1>4, <1>5, <1>6, <1>7, <1>8, <1>9, <1>10, <1>11 DEF MergeNext

LEMMA MergeInitially == MergeInit => MergeIInv
<1> SUFFICES ASSUME MergeInit PROVE MergeIInv
  OBVIOUS
<1>1. Nothing \in Numbers /\ \A f \in Fields : Nothing[f] = 0
  BY DEF Nothing, Numbers
<1>2. \A f \in Fields : newest[f] = 0
  BY <1>1, Zenon DEF MergeInit
<1>3. /\ newest \in Numbers /\ newestUpdate \in Numbers
      /\ emitted = 0 /\ \A f \in Fields : newest[f] <= emitted
  <2>1. newest \in Numbers /\ newestUpdate \in Numbers /\ emitted = 0
    BY <1>1 DEF MergeInit
  <2> QED
    BY <1>2, <2>1
<1>4. {histRow, upsertRow, updateRow, consumer} \subseteq RowsOrAbsent
  BY DEF MergeInit, RowsOrAbsent
<1>5. /\ entity \in {"chat", "contact", "message"} /\ histRow = Absent /\ upsertRow = Absent
      /\ updateRow = Absent /\ deletion = FALSE /\ gone = FALSE
  BY DEF MergeInit
<1> QED
  BY <1>2, <1>3, <1>4, <1>5 DEF MergeIInv

LEMMA MergedIsReleased == MergeIInv => ReleasedIsNewest
<1> SUFFICES ASSUME MergeIInv, Released PROVE ReleasedIsNewest
  BY DEF ReleasedIsNewest
<1>1. histRow = Absent /\ upsertRow = Absent /\ updateRow = Absent /\ ~deletion
  BY DEF Released
<1>2. Merged = consumer
  BY <1>1, AssignedIs DEF MergeIInv, Merged
<1> QED
  BY <1>1, <1>2 DEF MergeIInv, ReleasedIsNewest, Current

(* Whatever order payloads come in and however they are folded, what the   *)
(* buffer releases leaves the consumer with the newest value of every      *)
(* field, and with nothing of an entity that was deleted last.             *)
THEOREM MergeKeepsNewest == MergeSpec => []ReleasedIsNewest
BY MergeInitially, MergedIsReleased, MergeStep, PTL DEF MergeSpec

(***************************************************************************)
(* The retry manager.  The least recently used list holds no key twice;    *)
(* the index names at most one key per id, always one that the list still  *)
(* holds, and every recent message of an id no two chats have shared.      *)
(***************************************************************************)

Distinct(s) == \A j, k \in DOMAIN s : s[j] = s[k] => j = k

LEMMA RemovedOnce ==
  ASSUME NEW S, NEW s \in Seq(S), NEW m, Distinct(s)
  PROVE  /\ RemoveFirst(s, m) \in Seq(S) /\ Distinct(RemoveFirst(s, m))
         /\ ToSet(RemoveFirst(s, m)) = ToSet(s) \ {m}
         /\ Len(RemoveFirst(s, m)) = IF m \in ToSet(s) THEN Len(s) - 1 ELSE Len(s)
<1>1. CASE m \notin ToSet(s)
  <2>1. RemoveFirst(s, m) = s
    BY <1>1 DEF RemoveFirst, ToSet
  <2> QED
    BY <1>1, <2>1
<1>2. CASE m \in ToSet(s)
  <2>1. PICK k \in 1..Len(s) : s[k] = m
    BY <1>2 DEF ToSet
  <2>2. SelectInSeq(s, LAMBDA v : v = m) = k
    BY <2>1 DEF SelectInSeq, Min, Distinct
  <2>3. PICK r : r = SubSeq(s, 1, k - 1) \o SubSeq(s, k + 1, Len(s))
    OBVIOUS
  <2>4. RemoveFirst(s, m) = r
    BY <2>1, <2>2, <2>3 DEF RemoveFirst, RemoveAt
  <2>5. /\ r \in Seq(S) /\ Len(r) = Len(s) - 1 /\ DOMAIN r = 1..(Len(s) - 1)
        /\ \A j \in 1..(Len(s) - 1) : r[j] = IF j < k THEN s[j] ELSE s[j + 1]
    <3>0. SubSeq(s, 1, k - 1) \in Seq(S) /\ SubSeq(s, k + 1, Len(s)) \in Seq(S)
      BY <2>1
    <3>1. PICK front \in Seq(S) : front = SubSeq(s, 1, k - 1)
      BY <3>0
    <3>2. PICK back \in Seq(S) : back = SubSeq(s, k + 1, Len(s))
      BY <3>0
    <3>3. Len(front) = k - 1 /\ \A j \in 1..(k - 1) : front[j] = s[j]
      BY <2>1, <3>1
    <3>4. Len(back) = Len(s) - k /\ \A j \in 1..(Len(s) - k) : back[j] = s[k + j]
      BY <2>1, <3>2
    <3>5. r = front \o back
      BY <2>3, <3>1, <3>2
    <3>6. r \in Seq(S) /\ Len(r) = Len(s) - 1 /\ DOMAIN r = 1..(Len(s) - 1)
      BY <2>1, <3>3, <3>4, <3>5
    <3>7. \A j \in 1..(Len(s) - 1) : r[j] = IF j < k THEN s[j] ELSE s[j + 1]
      <4> TAKE j \in 1..(Len(s) - 1)
      <4>1. CASE j < k
        BY <2>1, <3>3, <3>4, <3>5, <4>1
      <4>2. CASE j >= k
        <5>1. r[j] = back[j - (k - 1)] /\ j - (k - 1) \in 1..(Len(s) - k)
          BY <2>1, <3>3, <3>4, <3>5, <4>2
        <5>2. back[j - (k - 1)] = s[k + (j - (k - 1))] /\ k + (j - (k - 1)) = j + 1
          BY <2>1, <3>4, <5>1
        <5> QED
          BY <4>2, <5>1, <5>2
      <4> QED
        BY <2>1, <4>1, <4>2
    <3> QED
      BY <3>6, <3>7
  <2>6. Distinct(r)
    BY <2>1, <2>5 DEF Distinct
  <2>7. ToSet(r) = ToSet(s) \ {m}
    <3>1. ASSUME NEW x \in ToSet(r) PROVE x \in ToSet(s) /\ x # m
      <4>1. PICK j \in 1..(Len(s) - 1) : r[j] = x
        BY <2>5 DEF ToSet
      <4>2. PICK i \in 1..Len(s) : s[i] = x /\ i # k
        <5>1. CASE j < k
          BY <2>1, <2>5, <4>1, <5>1
        <5>2. CASE ~(j < k)
          BY <2>1, <2>5, <4>1, <5>2
        <5> QED
          BY <5>1, <5>2
      <4>3. x # m
        BY <2>1, <4>2 DEF Distinct
      <4> QED
        BY <4>2, <4>3 DEF ToSet
    <3>2. ASSUME NEW x \in ToSet(s), x # m PROVE x \in ToSet(r)
      <4>1. PICK j \in 1..Len(s) : s[j] = x
        BY DEF ToSet
      <4>2. CASE j < k
        BY <2>1, <2>5, <4>1, <4>2 DEF ToSet
      <4>3. CASE j > k
        <5>1. j - 1 \in 1..(Len(s) - 1) /\ r[j - 1] = x
          BY <2>1, <2>5, <4>1, <4>3
        <5> QED
          BY <2>5, <5>1 DEF ToSet
      <4> QED
        BY <2>1, <3>2, <4>1, <4>2, <4>3
    <3> QED
      BY <3>1, <3>2
  <2> QED
    BY <1>2, <2>4, <2>5, <2>6, <2>7
<1> QED
  BY <1>1, <1>2

LEMMA AppendedLast ==
  ASSUME NEW S, NEW s \in Seq(S), NEW m \in S, Distinct(s), m \notin ToSet(s)
  PROVE  /\ Append(s, m) \in Seq(S) /\ Distinct(Append(s, m))
         /\ ToSet(Append(s, m)) = ToSet(s) \cup {m}
         /\ s # <<>> => \E e \in ToSet(s) : /\ Tail(Append(s, m)) \in Seq(S)
                                            /\ Distinct(Tail(Append(s, m)))
                                            /\ ToSet(Tail(Append(s, m))) = (ToSet(s) \ {e}) \cup {m}
<1>1. PICK a : a = Append(s, m)
  OBVIOUS
<1>2. /\ a \in Seq(S) /\ Len(a) = Len(s) + 1 /\ DOMAIN a = 1..(Len(s) + 1) /\ DOMAIN s = 1..Len(s)
      /\ \A k \in 1..Len(s) : a[k] = s[k]
      /\ a[Len(s) + 1] = m
  BY <1>1
<1>3. Distinct(a)
  BY <1>2 DEF Distinct, ToSet
<1>4. ToSet(a) = ToSet(s) \cup {m}
  BY <1>2 DEF ToSet
<1>5. ASSUME s # <<>>
      PROVE  \E e \in ToSet(s) : /\ Tail(a) \in Seq(S) /\ Distinct(Tail(a))
                                 /\ ToSet(Tail(a)) = (ToSet(s) \ {e}) \cup {m}
  <2>1. Len(s) \in Nat /\ Len(s) >= 1
    BY <1>5
  <2>2. PICK t : t = Tail(a)
    OBVIOUS
  <2>3. /\ t \in Seq(S) /\ Len(t) = Len(s) /\ DOMAIN t = 1..Len(s)
        /\ \A k \in 1..Len(s) : t[k] = a[k + 1]
    BY <1>2, <2>1, <2>2
  <2>4. Distinct(t)
    <3> SUFFICES ASSUME NEW j \in 1..Len(s), NEW k \in 1..Len(s), t[j] = t[k] PROVE j = k
      BY <2>3 DEF Distinct
    <3>1. /\ j + 1 \in 1..(Len(s) + 1) /\ k + 1 \in 1..(Len(s) + 1)
          /\ t[j] = a[j + 1] /\ t[k] = a[k + 1]
      BY <2>1, <2>3
    <3>2. j + 1 = k + 1
      BY <1>2, <1>3, <3>1 DEF Distinct
    <3> QED
      BY <3>2
  <2>5. ToSet(t) = ToSet(a) \ {a[1]}
    <3>1. \A x \in ToSet(t) : x \in ToSet(a) /\ x # a[1]
      BY <1>2, <1>3, <2>1, <2>3 DEF ToSet, Distinct
    <3>2. ASSUME NEW x \in ToSet(a), x # a[1] PROVE x \in ToSet(t)
      <4>1. PICK k \in 1..(Len(s) + 1) : a[k] = x
        BY <1>2 DEF ToSet
      <4>2. k - 1 \in 1..Len(s) /\ t[k - 1] = x
        BY <2>1, <2>3, <3>2, <4>1
      <4> QED
        BY <2>3, <4>2 DEF ToSet
    <3> QED
      BY <3>1, <3>2
  <2>6. a[1] \in ToSet(s) /\ a[1] # m
    BY <1>2, <2>1 DEF ToSet
  <2> QED
    BY <1>4, <2>2, <2>3, <2>4, <2>5, <2>6
<1> QED
  BY <1>1, <1>2, <1>3, <1>4, <1>5

(* A finite map from ids to keys that indexes a set of recent messages. *)
Indexes(S, keys, sh) ==
  /\ S \subseteq RecentKeys /\ keys \in [Ids -> SUBSET RecentKeys] /\ sh \subseteq Ids
  /\ \A i \in Ids : /\ \A m \in keys[i] : m \in S /\ Id(m) = i
                    /\ \A m, other \in keys[i] : m = other
                    /\ i \notin sh => \A m \in S : Id(m) = i => m \in keys[i]

RetryIInv ==
  /\ recent \in Seq(RecentKeys) /\ Distinct(recent)
  /\ Indexes(ToSet(recent), index, shared)
  /\ requests \subseteq Ids /\ timeouts \in [Ids -> Nat]
  /\ \A i \in Ids : timeouts[i] = IF i \in requests THEN 1 ELSE 0

(* What leaves the map leaves the index with it. *)
LEMMA StaysIndexed ==
  ASSUME NEW S, NEW keys, NEW sh, Indexes(S, keys, sh),
         NEW S2 \in SUBSET RecentKeys, NEW keys2 \in [Ids -> SUBSET RecentKeys],
         NEW sh2, sh2 = {i \in Ids : \/ \E m, other \in S2 : Id(m) = i /\ Id(other) = i /\ m # other
                                     \/ i \in sh /\ \E m \in S2 : Id(m) = i},
         \A i \in Ids :
           \/ \E m \in S2 : keys2[i] = {m} /\ Id(m) = i
           \/ /\ keys2[i] = {}
              /\ \A m \in S2 : Id(m) = i => m \in S /\ (m \in keys[i] => \E e \in S \ {m} : Id(e) = i)
           \/ keys2[i] = keys[i] /\ \A m \in RecentKeys : Id(m) = i => (m \in S2 <=> m \in S)
  PROVE  Indexes(S2, keys2, sh2)
<1> SUFFICES ASSUME NEW i \in Ids
             PROVE  /\ \A m \in keys2[i] : m \in S2 /\ Id(m) = i
                    /\ \A m, other \in keys2[i] : m = other
                    /\ i \notin sh2 => \A m \in S2 : Id(m) = i => m \in keys2[i]
  BY DEF Indexes
<1>1. /\ \A m \in keys[i] : m \in S /\ Id(m) = i /\ m \in RecentKeys
      /\ \A m, other \in keys[i] : m = other
      /\ i \notin sh => \A m \in S : Id(m) = i => m \in keys[i]
      /\ S \subseteq RecentKeys
  BY DEF Indexes
<1>2. i \notin sh2 => /\ \A m, other \in S2 : Id(m) = i /\ Id(other) = i => m = other
                      /\ i \notin sh \/ \A m \in S2 : Id(m) # i
  OBVIOUS
<1>3. CASE \E m \in S2 : keys2[i] = {m} /\ Id(m) = i
  BY <1>2, <1>3
<1>4. CASE /\ keys2[i] = {}
           /\ \A m \in S2 : Id(m) = i => m \in S /\ (m \in keys[i] => \E e \in S \ {m} : Id(e) = i)
  BY <1>1, <1>2, <1>4
<1>5. CASE keys2[i] = keys[i] /\ \A m \in RecentKeys : Id(m) = i => (m \in S2 <=> m \in S)
  BY <1>1, <1>2, <1>5
<1> QED
  BY <1>3, <1>4, <1>5

LEMMA RetryStep == RetryIInv /\ [RetryNext]_retryVars => RetryIInv'
<1> SUFFICES ASSUME RetryIInv, [RetryNext]_retryVars PROVE RetryIInv'
  OBVIOUS
<1>1. PICK S \in SUBSET RecentKeys : S = ToSet(recent)
  BY DEF RetryIInv, Indexes
<1>2. \A m \in RecentKeys : Id(m) \in Ids
  BY DEF RecentKeys, Id
<1>3. \A m : /\ Without(m) \in Seq(RecentKeys) /\ Distinct(Without(m))
              /\ ToSet(Without(m)) = S \ {m}
  BY <1>1, RemovedOnce DEF RetryIInv, Without
<1>4. ASSUME recent' \in Seq(RecentKeys), Distinct(recent)', Shares(recent'),
             index' \in [Ids -> SUBSET RecentKeys],
             requests' \subseteq Ids, timeouts' \in [Ids -> Nat],
             \A i \in Ids : timeouts'[i] = IF i \in requests' THEN 1 ELSE 0,
             \A i \in Ids :
               \/ \E m \in ToSet(recent') : index'[i] = {m} /\ Id(m) = i
               \/ /\ index'[i] = {}
                  /\ \A m \in ToSet(recent') : Id(m) = i =>
                       m \in S /\ (m \in index[i] => \E e \in S \ {m} : Id(e) = i)
               \/ /\ index'[i] = index[i]
                  /\ \A m \in RecentKeys : Id(m) = i => (m \in ToSet(recent') <=> m \in S)
      PROVE  RetryIInv'
  <2>1. PICK S2 \in SUBSET RecentKeys : S2 = ToSet(recent')
    <3>1. PICK new \in Seq(RecentKeys) : new = recent'
      BY <1>4
    <3>2. ToSet(new) \subseteq RecentKeys
      BY DEF ToSet
    <3> QED
      BY <3>1, <3>2
  <2>2. PICK keys : keys = index
    OBVIOUS
  <2>3. PICK keys2 \in [Ids -> SUBSET RecentKeys] : keys2 = index'
    BY <1>4
  <2>4. PICK sh : sh = shared
    OBVIOUS
  <2>5. PICK sh2 : sh2 = shared'
    OBVIOUS
  <2>6. Indexes(S, keys, sh)
    BY <1>1, <2>2, <2>4 DEF RetryIInv
  <2>7. sh2 = {i \in Ids : \/ \E m, other \in S2 : Id(m) = i /\ Id(other) = i /\ m # other
                           \/ i \in sh /\ \E m \in S2 : Id(m) = i}
    <3>1. sh2 = {i \in Ids : \/ \E m, other \in {m \in S2 : Id(m) = i} : m # other
                             \/ i \in sh /\ {m \in S2 : Id(m) = i} # {}}
      BY <1>4, <2>1, <2>4, <2>5 DEF Shares, IdsOf
    <3> QED
      BY <3>1
  <2>8. Indexes(S2, keys2, sh2)
    <3>1. \A i \in Ids :
            \/ \E m \in S2 : keys2[i] = {m} /\ Id(m) = i
            \/ /\ keys2[i] = {}
               /\ \A m \in S2 : Id(m) = i => m \in S /\ (m \in keys[i] => \E e \in S \ {m} : Id(e) = i)
            \/ keys2[i] = keys[i] /\ \A m \in RecentKeys : Id(m) = i => (m \in S2 <=> m \in S)
      BY <1>4, <2>1, <2>2, <2>3
    <3> QED
      BY <2>6, <2>7, <3>1, StaysIndexed
  <2>9. Indexes(ToSet(recent), index, shared)'
    BY <2>1, <2>3, <2>5, <2>8 DEF Indexes, ToSet
  <2> QED
    BY <1>4, <2>9 DEF RetryIInv
<1>5. ASSUME UNCHANGED <<recent, index, shared>>, requests' \subseteq Ids, timeouts' \in [Ids -> Nat],
             \A i \in Ids : timeouts'[i] = IF i \in requests' THEN 1 ELSE 0
      PROVE  RetryIInv'
  BY <1>5 DEF RetryIInv, Distinct, Indexes, ToSet
<1>6. /\ requests \subseteq Ids /\ timeouts \in [Ids -> Nat]
      /\ \A i \in Ids : timeouts[i] = IF i \in requests THEN 1 ELSE 0
  BY DEF RetryIInv
<1>7. /\ index \in [Ids -> SUBSET RecentKeys]
      /\ \A i \in Ids : \A m \in index[i] : m \in S /\ Id(m) = i
      /\ \A i \in Ids : \A m, other \in index[i] : m = other
  BY <1>1 DEF RetryIInv, Indexes
<1>8. ASSUME NEW m \in RecentKeys, AddRecentMessage(m) PROVE RetryIInv'
  <2>1. PICK rest \in Seq(RecentKeys) : rest = Without(m) /\ Distinct(rest) /\ ToSet(rest) = S \ {m}
    BY <1>3
  <2>2. \E E \in SUBSET S : /\ recent' \in Seq(RecentKeys) /\ Distinct(recent)'
                            /\ m \notin E /\ ToSet(recent') = (S \ E) \cup {m}
    <3>1. PICK all : all = Append(rest, m)
      OBVIOUS
    <3>2. recent' = IF Len(all) > MaxRecent THEN Tail(all) ELSE all
      BY <1>8, <2>1, <3>1 DEF AddRecentMessage, Put
    <3>3. all \in Seq(RecentKeys) /\ Distinct(all) /\ ToSet(all) = (S \ {m}) \cup {m}
      BY <2>1, <3>1, AppendedLast
    <3>4. CASE Len(all) > MaxRecent
      <4>1. rest # <<>>
        BY <3>1, <3>4, RetryAssumption
      <4>2. PICK e \in ToSet(rest) : /\ Tail(all) \in Seq(RecentKeys) /\ Distinct(Tail(all))
                                     /\ ToSet(Tail(all)) = (ToSet(rest) \ {e}) \cup {m}
        BY <2>1, <3>1, <4>1, AppendedLast
      <4>3. {e} \subseteq S /\ m \notin {e} /\ (ToSet(rest) \ {e}) \cup {m} = (S \ {e}) \cup {m}
        BY <2>1, <4>2
      <4>4. Distinct(recent)'
        BY <3>2, <3>4, <4>2 DEF Distinct
      <4> QED
        BY <3>2, <3>4, <4>2, <4>3, <4>4
    <3>5. CASE ~(Len(all) > MaxRecent)
      <4>1. Distinct(recent)'
        BY <3>2, <3>3, <3>5 DEF Distinct
      <4> QED
        BY <3>2, <3>3, <3>5, <4>1, {} \subseteq S, (S \ {m}) \cup {m} = (S \ {}) \cup {m}
    <3> QED
      BY <3>4, <3>5
  <2>3. PICK E \in SUBSET S : /\ recent' \in Seq(RecentKeys) /\ Distinct(recent)'
                             /\ m \notin E /\ ToSet(recent') = (S \ E) \cup {m}
    BY <2>2
  <2>4. PutDeletes(m) = S \cap ({m} \cup E)
    BY <1>1, <1>8, <2>3 DEF PutDeletes, AddRecentMessage
  <2>5. index' = [[i \in Ids |-> IF i \in {Id(o) : o \in S \cap ({m} \cup E)} THEN {} ELSE index[i]]
                    EXCEPT ![Id(m)] = {m}]
    BY <1>8, <2>4 DEF AddRecentMessage, Disposed
  <2>6. \A i \in Ids : index'[i] = IF i = Id(m) THEN {m}
                                   ELSE IF \E o \in E : Id(o) = i THEN {} ELSE index[i]
    BY <1>2, <2>3, <2>5
  <2>7. index' \in [Ids -> SUBSET RecentKeys]
    BY <1>2, <1>7, <2>5
  <2>8. ASSUME NEW i \in Ids
        PROVE  \/ \E o \in ToSet(recent') : index'[i] = {o} /\ Id(o) = i
               \/ /\ index'[i] = {}
                  /\ \A o \in ToSet(recent') : Id(o) = i =>
                       o \in S /\ (o \in index[i] => \E e \in S \ {o} : Id(e) = i)
               \/ /\ index'[i] = index[i]
                  /\ \A o \in RecentKeys : Id(o) = i => (o \in ToSet(recent') <=> o \in S)
    <3>1. CASE i = Id(m)
      BY <2>3, <2>6, <3>1
    <3>2. CASE i # Id(m) /\ \E o \in E : Id(o) = i
      BY <2>3, <2>6, <3>2
    <3>3. CASE i # Id(m) /\ ~(\E o \in E : Id(o) = i)
      BY <2>3, <2>6, <3>3
    <3> QED
      BY <3>1, <3>2, <3>3
  <2> QED
    BY <1>4, <1>6, <1>8, <2>3, <2>7, <2>8 DEF AddRecentMessage
<1>9. ASSUME NEW m \in RecentKeys, GetRecentMessage(m) PROVE RetryIInv'
  <2>1. PICK rest \in Seq(RecentKeys) : rest = Without(m) /\ Distinct(rest) /\ ToSet(rest) = S \ {m}
    BY <1>3
  <2>2. PICK all : all = Append(rest, m)
    OBVIOUS
  <2>3. all \in Seq(RecentKeys) /\ Distinct(all) /\ ToSet(all) = (S \ {m}) \cup {m}
    BY <2>1, <2>2, AppendedLast
  <2>4. m \in S /\ recent' = all /\ UNCHANGED <<index, counters, requests, timeouts, shared>>
    BY <1>1, <1>9, <2>1, <2>2 DEF GetRecentMessage
  <2>5. ToSet(all) = S
    BY <2>3, <2>4
  <2>6. /\ recent' \in Seq(RecentKeys) /\ Distinct(recent)'
        /\ Indexes(ToSet(recent), index, shared)'
    <3>1. PICK keys, sh : keys = index /\ sh = shared /\ Indexes(S, keys, sh)
      BY <1>1 DEF RetryIInv
    <3>2. Indexes(ToSet(recent), index, shared)'
      BY <2>4, <2>5, <3>1 DEF Indexes, ToSet
    <3>3. Distinct(recent)'
      BY <2>3, <2>4 DEF Distinct
    <3> QED
      BY <2>3, <2>4, <3>2, <3>3
  <2> QED
    BY <1>6, <2>4, <2>6 DEF RetryIInv
<1>10. ASSUME NEW m \in RecentKeys, MessageExpires(m) PROVE RetryIInv'
  <2>1. PICK rest \in Seq(RecentKeys) : rest = Without(m) /\ Distinct(rest) /\ ToSet(rest) = S \ {m}
    BY <1>3
  <2>2. /\ m \in S /\ recent' = rest /\ Shares(recent') /\ UNCHANGED <<counters, requests, timeouts>>
        /\ index' = [i \in Ids |-> IF i \in {Id(o) : o \in {m}} THEN {} ELSE index[i]]
    BY <1>1, <1>10, <2>1 DEF MessageExpires, Disposed
  <2>3. \A i \in Ids : index'[i] = IF i = Id(m) THEN {} ELSE index[i]
    BY <2>2
  <2>4. index' \in [Ids -> SUBSET RecentKeys]
    BY <1>7, <2>2
  <2>5. ASSUME NEW i \in Ids
        PROVE  \/ /\ index'[i] = {}
                  /\ \A o \in ToSet(recent') : Id(o) = i =>
                       o \in S /\ (o \in index[i] => \E e \in S \ {o} : Id(e) = i)
               \/ /\ index'[i] = index[i]
                  /\ \A o \in RecentKeys : Id(o) = i => (o \in ToSet(recent') <=> o \in S)
    BY <2>1, <2>2, <2>3
  <2>6. Distinct(recent)'
    BY <2>1, <2>2 DEF Distinct
  <2> QED
    BY <1>4, <1>6, <2>1, <2>2, <2>4, <2>5, <2>6
<1>11. ASSUME NEW i \in Ids, IncrementRetryCount(i) \/ CounterExpires(i) PROVE RetryIInv'
  BY <1>5, <1>6, <1>11 DEF IncrementRetryCount, CounterExpires
<1>12. ASSUME NEW i \in Ids, SchedulePhoneRequest(i) PROVE RetryIInv'
  BY <1>5, <1>6, <1>12 DEF SchedulePhoneRequest, Cancelled
<1>13. ASSUME NEW i \in Ids, CancelPendingPhoneRequest(i) PROVE RetryIInv'
  BY <1>5, <1>6, <1>13 DEF CancelPendingPhoneRequest, Cancelled
<1>14. ASSUME NEW i \in Ids, RequestFires(i) PROVE RetryIInv'
  BY <1>5, <1>6, <1>14 DEF RequestFires
<1>15. ASSUME NEW i \in Ids, MarkRetryDone(i) PROVE RetryIInv'
  <2>1. /\ timeouts' = [timeouts EXCEPT ![i] = Cancelled(i)] /\ requests' = requests \ {i}
        /\ index' = [index EXCEPT ![i] = {}] /\ Shares(recent')
        /\ IF index[i] = {} THEN recent' = recent ELSE \E m \in index[i] : recent' = Without(m)
    BY <1>15 DEF MarkRetryDone, IndexedBy
  <2>2. /\ timeouts' \in [Ids -> Nat] /\ requests' \subseteq Ids
        /\ \A j \in Ids : timeouts'[j] = IF j \in requests' THEN 1 ELSE 0
    BY <1>6, <2>1 DEF Cancelled
  <2>3. /\ recent' \in Seq(RecentKeys) /\ Distinct(recent)' /\ ToSet(recent') = S \ index[i]
    <3>1. CASE index[i] = {}
      BY <1>1, <2>1, <3>1 DEF RetryIInv, Distinct
    <3>2. CASE index[i] # {}
      <4>1. PICK m \in index[i] : recent' = Without(m)
        BY <2>1, <3>2
      <4>2. S \ {m} = S \ index[i]
        BY <1>7, <4>1
      <4>3. Distinct(recent)'
        BY <1>3, <4>1 DEF Distinct
      <4> QED
        BY <1>3, <4>1, <4>2, <4>3
    <3> QED
      BY <3>1, <3>2
  <2>4. index' \in [Ids -> SUBSET RecentKeys] /\ \A j \in Ids : index'[j] = IF j = i THEN {} ELSE index[j]
    BY <1>7, <2>1
  <2>5. ASSUME NEW j \in Ids
        PROVE  \/ /\ index'[j] = {}
                  /\ \A o \in ToSet(recent') : Id(o) = j =>
                       o \in S /\ (o \in index[j] => \E e \in S \ {o} : Id(e) = j)
               \/ /\ index'[j] = index[j]
                  /\ \A o \in RecentKeys : Id(o) = j => (o \in ToSet(recent') <=> o \in S)
    BY <1>7, <2>3, <2>4
  <2> QED
    BY <1>4, <2>1, <2>2, <2>3, <2>4, <2>5
<1>16. CASE Clear
  <2>1. /\ recent' = <<>> /\ index' = [i \in Ids |-> {}] /\ shared' = {} /\ requests' = {}
        /\ timeouts' = [i \in Ids |-> Cancelled(i)]
    BY <1>16 DEF Clear
  <2>2. /\ timeouts' \in [Ids -> Nat] /\ requests' \subseteq Ids
        /\ \A i \in Ids : timeouts'[i] = IF i \in requests' THEN 1 ELSE 0
    BY <1>6, <2>1 DEF Cancelled
  <2>3. recent' \in Seq(RecentKeys) /\ Distinct(recent)' /\ Indexes(ToSet(recent), index, shared)'
    BY <2>1 DEF Distinct, Indexes, ToSet
  <2> QED
    BY <2>2, <2>3 DEF RetryIInv
<1>17. CASE UNCHANGED retryVars
  BY <1>5, <1>6, <1>17 DEF retryVars
<1> QED
  BY <1>8, <1>9, <1>10, <1>11, <1>12, <1>13, <1>14, <1>15, <1>16, <1>17 DEF RetryNext

LEMMA RetryInitially == RetryInit => RetryIInv
BY DEF RetryInit, RetryIInv, Distinct, Indexes, ToSet

LEMMA RetriesIndexed == RetryIInv => RetriesAreForgotten
BY DEF RetryIInv, Indexes, RetriesAreForgotten, IdsOf

(* A finished retry finds its message, and every timeout that will fire is *)
(* still reached: the index and the map agree through re-adding, eviction  *)
(* and expiry, for every number of chats, ids and recent messages.         *)
THEOREM RetriesForgotten == RetrySpec => []RetriesAreForgotten
BY RetryInitially, RetriesIndexed, RetryStep, PTL DEF RetrySpec

(***************************************************************************)
(* The atomic rows.  A contact's row is the newest of what was heard since *)
(* it exists: no token and no stamp heard is newer than those it holds.    *)
(***************************************************************************)

RowValues == TokenRows \cup {NoRow, Invalid, "mac"} \cup (SUBSET Jids) \cup (SUBSET MacKeys)
Heard == [received : [Stamps -> Tokens \cup {NoRow}], touched : SUBSET Stamps]

(* A row holds the newest of what a contact was heard to send. *)
NewestIn(row, known) ==
  IF row = NoRow THEN known = Unheard
  ELSE /\ row \in TokenRows
       /\ \/ row.token = NoRow /\ \A s \in Stamps : known.received[s] = NoRow
          \/ /\ row.token # NoRow /\ row.token = known.received[row.stamp]
             /\ \A s \in Stamps : known.received[s] # NoRow => s <= row.stamp
       /\ \/ row.sender = NoRow /\ known.touched = {}
          \/ row.sender \in known.touched /\ \A s \in known.touched : s <= row.sender

TokenIndex == <<"meta", "tc_token_jids">>
MacIndex == <<"meta", "mutation_mac_keys">>

RowsIInv ==
  /\ rows \in [RowKeys -> RowValues]
  /\ heard \in [Jids -> Heard]
  /\ maintained \in BOOLEAN
  /\ rows[TokenIndex] \in {NoRow, Invalid} \cup SUBSET Jids
  /\ rows[MacIndex] \in {NoRow, Invalid} \cup SUBSET MacKeys
  /\ \A j \in Jids : /\ NewestIn(rows[<<"tc_token", j>>], heard[j])
                     /\ rows[<<"tc_token", j>>] # NoRow /\ rows[TokenIndex] # Invalid =>
                          j \in Index("tc_token_jids")
  /\ maintained /\ rows[MacIndex] # Invalid =>
       \A k \in MacKeys : k \in Index("mutation_mac_keys") <=> rows[<<"mutation_mac", k>>] # NoRow

LEMMA KeysApart ==
  /\ TokenIndex \in RowKeys /\ MacIndex \in RowKeys /\ TokenIndex # MacIndex
  /\ \A j \in Jids : /\ <<"tc_token", j>> \in RowKeys
                     /\ <<"tc_token", j>> \notin {TokenIndex, MacIndex}
  /\ \A k \in MacKeys : /\ <<"mutation_mac", k>> \in RowKeys
                        /\ <<"mutation_mac", k>> \notin {TokenIndex, MacIndex}
  /\ \A j \in Jids, k \in MacKeys : <<"tc_token", j>> # <<"mutation_mac", k>>
  BY DEF RowKeys, TokenIndex, MacIndex

LEMMA TokenOfNewRow ==
  ASSUME NEW stamp \in Stamps, NEW row, NEW known \in Heard, NewestIn(row, known),
         NEW old, old = IF row = NoRow THEN TokenRow(NoRow, stamp, NoRow) ELSE row
  PROVE  /\ old \in TokenRows /\ old # NoRow
         /\ \/ old.token = NoRow /\ \A s \in Stamps : known.received[s] = NoRow
            \/ /\ old.token # NoRow /\ old.token = known.received[old.stamp]
               /\ \A s \in Stamps : known.received[s] # NoRow => s <= old.stamp
         /\ \/ old.sender = NoRow /\ known.touched = {}
            \/ old.sender \in known.touched /\ \A s \in known.touched : s <= old.sender
<1>1. CASE row # NoRow
  BY <1>1, RowsAssumption DEF NewestIn
<1>2. CASE row = NoRow
  <2>1. known = Unheard /\ old = TokenRow(NoRow, stamp, NoRow)
    BY <1>2 DEF NewestIn
  <2>2. /\ \A s \in Stamps : known.received[s] = NoRow
        /\ known.touched = {}
    BY <2>1 DEF Unheard
  <2>3. old \in TokenRows /\ old.token = NoRow /\ old.sender = NoRow
    BY <2>1 DEF TokenRow, TokenRows
  <2> QED
    BY <2>2, <2>3, RowsAssumption
<1> QED
  BY <1>1, <1>2

LEMMA ReceiptKeepsNewest ==
  ASSUME NEW stamp \in Stamps, NEW token \in Tokens, NEW row, NEW known \in Heard, NewestIn(row, known),
         NEW old, old = IF row = NoRow THEN TokenRow(NoRow, stamp, NoRow) ELSE row,
         NEW new, new = IF old.token = NoRow \/ stamp >= old.stamp THEN TokenRow(token, stamp, old.sender) ELSE old
  PROVE  /\ new \in TokenRows /\ [known EXCEPT !.received[stamp] = token] \in Heard
         /\ NewestIn(new, [known EXCEPT !.received[stamp] = token])
<1>1. PICK next : next = [known EXCEPT !.received[stamp] = token]
  OBVIOUS
<1>2. /\ next \in Heard /\ next.touched = known.touched
      /\ next.received = [known.received EXCEPT ![stamp] = token]
      /\ known.received \in [Stamps -> Tokens \cup {NoRow}]
  BY <1>1 DEF Heard
<1>3. \A s \in Stamps : next.received[s] = IF s = stamp THEN token ELSE known.received[s]
  BY <1>2
<1>4. /\ old \in TokenRows /\ old # NoRow
      /\ \/ old.token = NoRow /\ \A s \in Stamps : known.received[s] = NoRow
         \/ /\ old.token # NoRow /\ old.token = known.received[old.stamp]
            /\ \A s \in Stamps : known.received[s] # NoRow => s <= old.stamp
      /\ \/ old.sender = NoRow /\ known.touched = {}
         \/ old.sender \in known.touched /\ \A s \in known.touched : s <= old.sender
  BY TokenOfNewRow
<1>5. old.stamp \in Stamps /\ old.stamp \in Int /\ stamp \in Int /\ \A s \in Stamps : s \in Int
  BY <1>4, RowsAssumption DEF TokenRows
<1>6. CASE old.token = NoRow \/ stamp >= old.stamp
  <2>1. new = TokenRow(token, stamp, old.sender)
    BY <1>6
  <2>2. new \in TokenRows /\ new.token = token /\ new.stamp = stamp /\ new.sender = old.sender
    BY <1>4, <2>1 DEF TokenRow, TokenRows
  <2>3. token # NoRow /\ new # NoRow
    BY <2>2, RowsAssumption
  <2>4. ASSUME NEW s \in Stamps, next.received[s] # NoRow PROVE s <= new.stamp
    BY <1>3, <1>4, <1>5, <1>6, <2>2, <2>4
  <2> QED
    BY <1>1, <1>2, <1>3, <1>4, <2>2, <2>3, <2>4 DEF NewestIn
<1>7. CASE ~(old.token = NoRow \/ stamp >= old.stamp)
  <2>1. new = old /\ old.stamp # stamp /\ stamp <= old.stamp
    BY <1>5, <1>7
  <2> QED
    BY <1>1, <1>2, <1>3, <1>4, <1>5, <1>7, <2>1 DEF NewestIn
<1> QED
  BY <1>6, <1>7

LEMMA TouchKeepsNewest ==
  ASSUME NEW stamp \in Stamps, NEW row, NEW known \in Heard, NewestIn(row, known),
         NEW old, old = IF row = NoRow THEN TokenRow(NoRow, stamp, NoRow) ELSE row,
         NEW new, new = IF old.sender = NoRow \/ stamp > old.sender THEN [old EXCEPT !.sender = stamp] ELSE old
  PROVE  /\ new \in TokenRows /\ [known EXCEPT !.touched = @ \cup {stamp}] \in Heard
         /\ NewestIn(new, [known EXCEPT !.touched = @ \cup {stamp}])
<1>1. PICK next : next = [known EXCEPT !.touched = @ \cup {stamp}]
  OBVIOUS
<1>2. /\ next \in Heard /\ next.received = known.received
      /\ next.touched = known.touched \cup {stamp} /\ known.touched \subseteq Stamps
  BY <1>1 DEF Heard
<1>3. /\ old \in TokenRows /\ old # NoRow
      /\ \/ old.token = NoRow /\ \A s \in Stamps : known.received[s] = NoRow
         \/ /\ old.token # NoRow /\ old.token = known.received[old.stamp]
            /\ \A s \in Stamps : known.received[s] # NoRow => s <= old.stamp
      /\ \/ old.sender = NoRow /\ known.touched = {}
         \/ old.sender \in known.touched /\ \A s \in known.touched : s <= old.sender
  BY TokenOfNewRow
<1>4. \A s \in Stamps : s \in Int /\ s # NoRow
  BY RowsAssumption
<1>5. CASE old.sender = NoRow \/ stamp > old.sender
  <2>1. /\ new \in TokenRows /\ new.token = old.token /\ new.stamp = old.stamp /\ new.sender = stamp
    BY <1>3, <1>5 DEF TokenRows
  <2>2. \A s \in next.touched : s <= stamp
    BY <1>2, <1>3, <1>4, <1>5
  <2> QED
    BY <1>1, <1>2, <1>3, <2>1, <2>2, RowsAssumption DEF NewestIn
<1>6. CASE ~(old.sender = NoRow \/ stamp > old.sender)
  <2>1. new = old /\ old.sender \in known.touched /\ stamp <= old.sender
    BY <1>2, <1>3, <1>4, <1>6
  <2> QED
    BY <1>1, <1>2, <1>3, <2>1 DEF NewestIn
<1> QED
  BY <1>5, <1>6

LEMMA RowsStep == RowsIInv /\ [RowsNext]_rowVars => RowsIInv'
<1> SUFFICES ASSUME RowsIInv, [RowsNext]_rowVars PROVE RowsIInv'
  OBVIOUS
<1>1. /\ rows \in [RowKeys -> RowValues] /\ heard \in [Jids -> Heard] /\ maintained \in BOOLEAN
      /\ rows[TokenIndex] \in {NoRow, Invalid} \cup SUBSET Jids
      /\ rows[MacIndex] \in {NoRow, Invalid} \cup SUBSET MacKeys
      /\ \A j \in Jids : /\ NewestIn(rows[<<"tc_token", j>>], heard[j])
                         /\ rows[<<"tc_token", j>>] # NoRow /\ rows[TokenIndex] # Invalid =>
                              j \in Index("tc_token_jids")
      /\ maintained /\ rows[MacIndex] # Invalid =>
           \A k \in MacKeys : k \in Index("mutation_mac_keys") <=> rows[<<"mutation_mac", k>>] # NoRow
  BY DEF RowsIInv
<1>2. CASE UNCHANGED rowVars
  BY <1>2 DEF rowVars, RowsIInv, Index
<1>3. ASSUME NEW j \in Jids, NEW row \in TokenRows, NEW next \in Heard, NewestIn(row, next),
             ChangesToken(j, row, next)
      PROVE  RowsIInv'
  <2>1. CASE Throws("tc_token_jids")
    BY <1>2, <1>3, <2>1 DEF ChangesToken
  <2>2. CASE ~Throws("tc_token_jids")
    <3>1. PICK listed \in SUBSET Jids : listed = Index("tc_token_jids")
      BY <1>1, <2>2 DEF Index, Throws, TokenIndex
    <3>2. /\ rows' = Written(Written(rows, {<<"tc_token", j>>}, row), {TokenIndex}, listed \cup {j})
          /\ heard' = [heard EXCEPT ![j] = next] /\ maintained' = maintained
      BY <1>3, <2>2, <3>1 DEF ChangesToken, TokenIndex
    <3>3. listed \cup {j} \in SUBSET Jids
      OBVIOUS
    <3>4. /\ rows' \in [RowKeys -> RowValues]
          /\ \A k \in RowKeys : rows'[k] = IF k = TokenIndex THEN listed \cup {j}
                                            ELSE IF k = <<"tc_token", j>> THEN row ELSE rows[k]
      BY <1>1, <3>2, <3>3 DEF Written, RowValues
    <3>5. rows'[TokenIndex] = listed \cup {j} /\ rows'[MacIndex] = rows[MacIndex]
      BY <3>4, KeysApart
    <3>6. /\ \A k \in MacKeys : rows'[<<"mutation_mac", k>>] = rows[<<"mutation_mac", k>>]
          /\ \A i \in Jids : rows'[<<"tc_token", i>>] = IF i = j THEN row ELSE rows[<<"tc_token", i>>]
      BY <3>4, KeysApart
    <3>7. listed \cup {j} \notin {NoRow, Invalid}
      BY <3>3, RowsAssumption
    <3>8. Index("tc_token_jids")' = listed \cup {j} /\ Index("mutation_mac_keys")' = Index("mutation_mac_keys")
      BY <3>5, <3>7 DEF Index, TokenIndex, MacIndex
    <3>9. ASSUME NEW i \in Jids
          PROVE  /\ NewestIn(rows[<<"tc_token", i>>], heard[i])'
                 /\ rows'[<<"tc_token", i>>] # NoRow /\ rows'[TokenIndex] # Invalid =>
                      i \in Index("tc_token_jids")'
      <4>1. PICK r, known : /\ r = rows'[<<"tc_token", i>>] /\ known = heard'[i]
        OBVIOUS
      <4>2. IF i = j THEN r = row /\ known = next
            ELSE r = rows[<<"tc_token", i>>] /\ known = heard[i]
        BY <1>1, <3>2, <3>6, <4>1
      <4>3. NewestIn(r, known)
        BY <1>1, <1>3, <4>2
      <4>4. NewestIn(rows[<<"tc_token", i>>], heard[i])'
        BY <4>1, <4>3 DEF NewestIn, Unheard
      <4>5. i # j /\ r # NoRow => i \in listed
        BY <1>1, <2>2, <3>1, <4>2 DEF Throws, TokenIndex
      <4> QED
        BY <3>8, <4>1, <4>4, <4>5
    <3>10. heard' \in [Jids -> Heard]
      BY <1>1, <3>2
    <3> QED
      BY <1>1, <3>2, <3>3, <3>4, <3>5, <3>6, <3>8, <3>9, <3>10 DEF RowsIInv
  <2> QED
    BY <2>1, <2>2
<1>4. \A j \in Jids : heard[j] \in Heard /\ NewestIn(Stored(j), heard[j])
  BY <1>1 DEF Stored
<1>5. ASSUME NEW j \in Jids, NEW stamp \in Stamps, NEW token \in Tokens, StoreReceivedTcToken(j, token, stamp)
      PROVE  RowsIInv'
  <2>1. PICK old : old = IF Stored(j) = NoRow THEN TokenRow(NoRow, stamp, NoRow) ELSE Stored(j)
    OBVIOUS
  <2>2. PICK new : new = IF old.token = NoRow \/ stamp >= old.stamp THEN TokenRow(token, stamp, old.sender) ELSE old
    OBVIOUS
  <2>3. PICK known \in Heard : known = heard[j]
    BY <1>4
  <2>4. PICK row : row = Stored(j) /\ NewestIn(row, known)
    BY <1>4, <2>3
  <2>5. PICK next : next = [known EXCEPT !.received[stamp] = token]
    OBVIOUS
  <2>6. new \in TokenRows /\ next \in Heard /\ NewestIn(new, next)
    BY <2>1, <2>2, <2>4, <2>5, ReceiptKeepsNewest
  <2>7. ChangesToken(j, new, next)
    BY <1>5, <2>1, <2>2, <2>3, <2>5 DEF StoreReceivedTcToken, Receives, TokenOrNew
  <2> QED
    BY <1>3, <2>6, <2>7
<1>6. ASSUME NEW j \in Jids, NEW stamp \in Stamps, TouchTcTokenSenderTimestamp(j, stamp)
      PROVE  RowsIInv'
  <2>1. PICK old : old = IF Stored(j) = NoRow THEN TokenRow(NoRow, stamp, NoRow) ELSE Stored(j)
    OBVIOUS
  <2>2. PICK new : new = IF old.sender = NoRow \/ stamp > old.sender THEN [old EXCEPT !.sender = stamp] ELSE old
    OBVIOUS
  <2>3. PICK known \in Heard : known = heard[j]
    BY <1>4
  <2>4. PICK row : row = Stored(j) /\ NewestIn(row, known)
    BY <1>4, <2>3
  <2>5. PICK next : next = [known EXCEPT !.touched = @ \cup {stamp}]
    OBVIOUS
  <2>6. new \in TokenRows /\ next \in Heard /\ NewestIn(new, next)
    BY <2>1, <2>2, <2>4, <2>5, TouchKeepsNewest
  <2>7. ChangesToken(j, new, next)
    BY <1>6, <2>1, <2>2, <2>3, <2>5 DEF TouchTcTokenSenderTimestamp, TokenOrNew
  <2> QED
    BY <1>3, <2>6, <2>7
<1>7. ASSUME rows' \in [RowKeys -> RowValues], maintained' \in BOOLEAN, heard' = heard,
             rows'[TokenIndex] = rows[TokenIndex],
             rows'[MacIndex] \in {NoRow, Invalid} \cup SUBSET MacKeys,
             \A j \in Jids : rows'[<<"tc_token", j>>] = rows[<<"tc_token", j>>],
             maintained' /\ rows'[MacIndex] # Invalid =>
               \A k \in MacKeys : k \in Index("mutation_mac_keys")' <=> rows'[<<"mutation_mac", k>>] # NoRow
      PROVE  RowsIInv'
  <2>1. Index("tc_token_jids")' = Index("tc_token_jids")
    BY <1>7 DEF Index, TokenIndex
  <2>2. \A j \in Jids : NewestIn(rows[<<"tc_token", j>>], heard[j])'
    BY <1>1, <1>7 DEF NewestIn, Unheard
  <2> QED
    BY <1>1, <1>7, <2>1, <2>2 DEF RowsIInv
<1>8. ASSUME NEW removed \in SUBSET MacKeys, NEW added \in SUBSET MacKeys, NEW maintainIndex \in BOOLEAN,
             CommitPatch(removed, added, maintainIndex)
      PROVE  RowsIInv'
  <2>1. CASE maintainIndex /\ Throws("mutation_mac_keys")
    BY <1>2, <1>8, <2>1 DEF CommitPatch
  <2>2. CASE ~(maintainIndex /\ Throws("mutation_mac_keys"))
    <3>1. PICK listed : /\ listed = (Index("mutation_mac_keys") \ removed) \cup added
                        /\ maintainIndex => listed \in SUBSET MacKeys
      BY <1>1, <2>2 DEF Index, Throws, MacIndex
    <3>2. PICK macs : macs = Written(Written(rows, {"mutation_mac"} \X removed, NoRow), {"mutation_mac"} \X added, "mac")
      OBVIOUS
    <3>3. /\ rows' = IF maintainIndex THEN Written(macs, {MacIndex}, listed) ELSE macs
          /\ maintained' = (maintained /\ maintainIndex) /\ heard' = heard
      BY <1>8, <2>2, <3>1, <3>2 DEF CommitPatch, MacIndex
    <3>4. /\ macs \in [RowKeys -> RowValues]
          /\ \A key \in RowKeys : macs[key] = IF key \in {"mutation_mac"} \X added THEN "mac"
                                               ELSE IF key \in {"mutation_mac"} \X removed THEN NoRow ELSE rows[key]
      BY <1>1, <3>2 DEF Written, RowValues
    <3>5. /\ macs[TokenIndex] = rows[TokenIndex] /\ macs[MacIndex] = rows[MacIndex]
          /\ \A j \in Jids : macs[<<"tc_token", j>>] = rows[<<"tc_token", j>>]
      BY <3>4, KeysApart DEF TokenIndex, MacIndex
    <3>6. \A k \in MacKeys : macs[<<"mutation_mac", k>>] = IF k \in added THEN "mac"
                              ELSE IF k \in removed THEN NoRow ELSE rows[<<"mutation_mac", k>>]
      BY <3>4, KeysApart
    <3>7. CASE ~maintainIndex
      BY <1>1, <1>7, <3>3, <3>4, <3>5, <3>7
    <3>8. CASE maintainIndex
      <4>1. listed \in SUBSET MacKeys /\ rows[MacIndex] # Invalid
        BY <2>2, <3>1, <3>8 DEF Throws, MacIndex
      <4>2. /\ rows' \in [RowKeys -> RowValues]
            /\ \A key \in RowKeys : rows'[key] = IF key = MacIndex THEN listed ELSE macs[key]
        <5>1. PICK row \in RowValues : row = listed
          BY <4>1, Zenon DEF RowValues
        <5>2. rows' = Written(macs, {MacIndex}, row)
          BY <3>3, <3>8, <5>1
        <5> QED
          BY <3>4, <5>1, <5>2 DEF Written
      <4>3. /\ rows'[MacIndex] = listed /\ rows'[TokenIndex] = rows[TokenIndex]
            /\ \A j \in Jids : rows'[<<"tc_token", j>>] = rows[<<"tc_token", j>>]
            /\ \A k \in MacKeys : rows'[<<"mutation_mac", k>>] = macs[<<"mutation_mac", k>>]
        BY <3>5, <4>2, KeysApart
      <4>4. listed \notin {NoRow, Invalid}
        <5>1. listed \in (SUBSET Jids) \cup (SUBSET MacKeys)
          BY <4>1
        <5> QED
          BY <5>1, RowsAssumption
      <4>5. Index("mutation_mac_keys")' = listed
        BY <4>3, <4>4 DEF Index, MacIndex
      <4>6. maintained' => \A k \in MacKeys : k \in listed <=> macs[<<"mutation_mac", k>>] # NoRow
        BY <1>1, <3>1, <3>3, <3>6, <4>1, RowsAssumption
      <4> QED
        BY <1>1, <1>7, <3>3, <4>1, <4>2, <4>3, <4>5, <4>6
    <3> QED
      BY <3>7, <3>8
  <2> QED
    BY <2>1, <2>2
<1>9. ASSUME NEW j \in Jids, DeleteToken(j) PROVE RowsIInv'
  <2>1. /\ rows' = [rows EXCEPT ![<<"tc_token", j>>] = NoRow]
        /\ heard' = [heard EXCEPT ![j] = Unheard] /\ maintained' = maintained
    BY <1>9 DEF DeleteToken
  <2>2. Unheard \in Heard
    BY DEF Unheard, Heard
  <2>3. rows' \in [RowKeys -> RowValues] /\ heard' \in [Jids -> Heard]
    BY <1>1, <2>1, <2>2 DEF RowValues
  <2>4. /\ rows'[TokenIndex] = rows[TokenIndex] /\ rows'[MacIndex] = rows[MacIndex]
        /\ \A k \in MacKeys : rows'[<<"mutation_mac", k>>] = rows[<<"mutation_mac", k>>]
        /\ \A i \in Jids : rows'[<<"tc_token", i>>] = IF i = j THEN NoRow ELSE rows[<<"tc_token", i>>]
    BY <1>1, <2>1, KeysApart
  <2>5. Index("tc_token_jids")' = Index("tc_token_jids") /\ Index("mutation_mac_keys")' = Index("mutation_mac_keys")
    BY <2>4 DEF Index, TokenIndex, MacIndex
  <2>6. ASSUME NEW i \in Jids PROVE NewestIn(rows[<<"tc_token", i>>], heard[i])'
    <3>1. CASE i = j
      BY <1>1, <2>1, <2>4, <3>1 DEF NewestIn, Unheard
    <3>2. CASE i # j
      <4>1. rows'[<<"tc_token", i>>] = rows[<<"tc_token", i>>] /\ heard'[i] = heard[i]
        BY <1>1, <2>1, <2>4, <3>2
      <4> QED
        BY <1>1, <4>1 DEF NewestIn, Unheard
    <3> QED
      BY <3>1, <3>2
  <2> QED
    BY <1>1, <2>1, <2>3, <2>4, <2>5, <2>6 DEF RowsIInv
<1>10. ASSUME NEW name \in {"tc_token_jids", "mutation_mac_keys"}, SpoilIndex(name) PROVE RowsIInv'
  <2>1. rows' = [rows EXCEPT ![<<"meta", name>>] = Invalid] /\ UNCHANGED <<maintained, heard>>
    BY <1>10 DEF SpoilIndex
  <2>2. rows' \in [RowKeys -> RowValues]
    BY <1>1, <2>1 DEF RowValues
  <2>3. /\ \A k \in MacKeys : rows'[<<"mutation_mac", k>>] = rows[<<"mutation_mac", k>>]
        /\ \A j \in Jids : rows'[<<"tc_token", j>>] = rows[<<"tc_token", j>>]
    BY <1>1, <2>1, KeysApart DEF TokenIndex, MacIndex
  <2>4. \A j \in Jids : NewestIn(rows[<<"tc_token", j>>], heard[j])'
    BY <1>1, <2>1, <2>3 DEF NewestIn, Unheard
  <2>5. CASE name = "tc_token_jids"
    <3>1. rows'[TokenIndex] = Invalid /\ rows'[MacIndex] = rows[MacIndex]
      BY <1>1, <2>1, <2>5, KeysApart DEF TokenIndex
    <3>2. Index("mutation_mac_keys")' = Index("mutation_mac_keys")
      BY <3>1 DEF Index, MacIndex
    <3> QED
      BY <1>1, <2>1, <2>2, <2>3, <2>4, <3>1, <3>2 DEF RowsIInv
  <2>6. CASE name = "mutation_mac_keys"
    <3>1. rows'[MacIndex] = Invalid /\ rows'[TokenIndex] = rows[TokenIndex]
      BY <1>1, <2>1, <2>6, KeysApart DEF MacIndex
    <3>2. Index("tc_token_jids")' = Index("tc_token_jids")
      BY <3>1 DEF Index, TokenIndex
    <3> QED
      BY <1>1, <2>1, <2>2, <2>3, <2>4, <3>1, <3>2 DEF RowsIInv
  <2> QED
    BY <2>5, <2>6
<1> QED
  BY <1>2, <1>5, <1>6, <1>8, <1>9, <1>10 DEF RowsNext

LEMMA RowsInitially == RowsInit => RowsIInv
<1> SUFFICES ASSUME RowsInit PROVE RowsIInv
  OBVIOUS
<1>1. rows = [k \in RowKeys |-> NoRow] /\ maintained = TRUE /\ heard = [j \in Jids |-> Unheard]
  BY DEF RowsInit
<1>2. Unheard \in Heard
  BY DEF Unheard, Heard
<1>3. /\ rows[TokenIndex] = NoRow /\ rows[MacIndex] = NoRow
      /\ \A j \in Jids : rows[<<"tc_token", j>>] = NoRow
      /\ \A k \in MacKeys : rows[<<"mutation_mac", k>>] = NoRow
  BY <1>1, KeysApart
<1>4. \A j \in Jids : NewestIn(rows[<<"tc_token", j>>], heard[j])
  BY <1>1, <1>3 DEF NewestIn
<1>5. Index("mutation_mac_keys") = {}
  BY <1>3 DEF Index, MacIndex
<1> QED
  BY <1>1, <1>2, <1>3, <1>4, <1>5 DEF RowsIInv, RowValues

LEMMA RowsAreNewest == RowsIInv => NewestTokenIndexed
<1> SUFFICES ASSUME RowsIInv PROVE NewestTokenIndexed
  OBVIOUS
<1>1. ASSUME NEW j \in Jids, Stored(j) # NoRow
      PROVE  LET stamps == {stamp \in Stamps : heard[j].received[stamp] # NoRow}
             IN /\ stamps # {} =>
                     Stored(j).stamp = Max(stamps) /\ Stored(j).token = heard[j].received[Max(stamps)]
                /\ heard[j].touched # {} => Stored(j).sender = Max(heard[j].touched)
                /\ ~Throws("tc_token_jids") => j \in Index("tc_token_jids")
  <2> DEFINE stamps == {stamp \in Stamps : heard[j].received[stamp] # NoRow}
  <2>1. PICK row, known : /\ row = Stored(j) /\ known = heard[j] /\ NewestIn(row, known) /\ row # NoRow
                          /\ known \in Heard
    BY <1>1 DEF RowsIInv, Stored
  <2>2. row \in TokenRows /\ row.stamp \in Stamps
    BY <2>1 DEF NewestIn, TokenRows
  <2>3. \A s \in Stamps : s \in Int
    BY RowsAssumption
  <2>4. ASSUME stamps # {} PROVE row.stamp = Max(stamps) /\ row.token = known.received[Max(stamps)]
    <3>1. /\ row.token # NoRow /\ row.token = known.received[row.stamp]
          /\ \A s \in Stamps : known.received[s] # NoRow => s <= row.stamp
      BY <2>1, <2>4 DEF NewestIn
    <3>2. row.stamp \in stamps /\ \A s \in stamps : row.stamp >= s
      BY <2>1, <2>2, <2>3, <3>1
    <3>3. row.stamp = Max(stamps)
      BY <2>3, <3>2 DEF Max
    <3> QED
      BY <3>1, <3>3
  <2>5. ASSUME known.touched # {} PROVE row.sender = Max(known.touched)
    <3>1. row.sender \in known.touched /\ \A s \in known.touched : s <= row.sender
      BY <2>1, <2>5 DEF NewestIn
    <3>2. \A s \in known.touched : s \in Int
      BY <2>1, <2>3 DEF Heard
    <3> QED
      BY <3>1, <3>2 DEF Max
  <2>6. ~Throws("tc_token_jids") => j \in Index("tc_token_jids")
    BY <1>1 DEF RowsIInv, Stored, Throws, TokenIndex
  <2> QED
    BY <2>1, <2>4, <2>5, <2>6
<1>2. ASSUME maintained, ~Throws("mutation_mac_keys")
      PROVE  Index("mutation_mac_keys") = {k \in MacKeys : rows[<<"mutation_mac", k>>] # NoRow}
  <2>1. Index("mutation_mac_keys") \subseteq MacKeys
    BY <1>2 DEF RowsIInv, Index, Throws, MacIndex
  <2> QED
    BY <1>2, <2>1 DEF RowsIInv, Throws, MacIndex
<1> QED
  BY <1>1, <1>2 DEF NewestTokenIndexed

(* A contact's row holds the newest token and sender stamp it was heard to *)
(* send, however they were ordered, and the indexes list the rows, however *)
(* many contacts, keys and stamps there are.                               *)
THEOREM NewestTokenKept == RowsSpec => []NewestTokenIndexed
BY RowsInitially, RowsAreNewest, RowsStep, PTL DEF RowsSpec

-----------------------------------------------------------------------------
(***************************************************************************)
(* A batch of messages of any size is handed out in order.  The invariant  *)
(* is that of a batch cut off after the last event handled: what it owes   *)
(* has been handed out or is collected, and nothing else has.              *)
(***************************************************************************)
Channels == {"push", "upsert", "side", "other"}
Emissions == [on : Channels, of : Seq(Nat)]

(* The events before the one to dispatch; all of them when the batch ends. *)
Handled == IF position = 0 THEN Len(batch) ELSE position - 1

OneType(ids) == \A i, j \in Range(ids) : batch[i].type = batch[j].type
UpsertsOneType(emissions) ==
  \A k \in DOMAIN emissions : emissions[k].on = "upsert" => OneType(emissions[k].of)

BatchTypes ==
  /\ batch \in Seq(CanonicalEvents) /\ position \in 0..(Len(batch) + 1) /\ threw \in BOOLEAN
  /\ pendingUpsert \in Seq(Nat) /\ sent \in Seq(Emissions)
  /\ \A i \in Range(pendingUpsert) : i \in 1..Handled /\ batch[i].kind = "plain"
  /\ batch = <<>> => position = 0 /\ pendingUpsert = <<>> /\ sent = <<>> /\ ~threw

(* Only handled events were handed out, on channels of theirs, and but for *)
(* push names before the messages collected.                               *)
OnlyDue(emissions, handled, collected) ==
  \A on \in Channels, i \in Nat : HandsOut(emissions, on, i) =>
    /\ i \in 1..handled /\ on \in Due(i)
    /\ on # "push" => \A j \in Range(collected) : i < j

(* A handled event was handed out, or is a message collected. *)
AllDue(emissions, handled, collected) ==
  \A i \in 1..handled : \A on \in Due(i) :
    HandsOut(emissions, on, i) \/ (on = "upsert" /\ i \in Range(collected))

Dispatched(emissions, handled, collected) ==
  /\ InOrder(emissions)
  /\ Increases(collected)
  /\ OnlyDue(emissions, handled, collected)
  /\ AllDue(emissions, handled, collected)

BatchIInv ==
  /\ BatchTypes
  /\ OneType(pendingUpsert) /\ UpsertsOneType(sent)
  /\ ~threw => /\ position = 0 => pendingUpsert = <<>>
               /\ Dispatched(sent, Handled, pendingUpsert)

-----------------------------------------------------------------------------
LEMMA RangeOfAppend ==
  ASSUME NEW s \in Seq(Nat), NEW x \in Nat
  PROVE  Range(Append(s, x)) = Range(s) \cup {x} /\ Range(s) \subseteq Nat
<1>1. Range(Append(s, x)) \subseteq Range(s) \cup {x}
  BY DEF Range
<1>2. Range(s) \subseteq Range(Append(s, x))
  <2> SUFFICES ASSUME NEW n \in DOMAIN s PROVE s[n] \in Range(Append(s, x))
    BY DEF Range
  <2>1. n \in DOMAIN Append(s, x) /\ Append(s, x)[n] = s[n]
    OBVIOUS
  <2> QED BY <2>1 DEF Range
<1>3. x \in Range(Append(s, x))
  <2>1. Len(s) + 1 \in DOMAIN Append(s, x) /\ Append(s, x)[Len(s) + 1] = x
    OBVIOUS
  <2> QED BY <2>1 DEF Range
<1> QED BY <1>1, <1>2, <1>3 DEF Range

LEMMA RangeOfOne == Range(<<>>) = {} /\ \A x : Range(<<x>>) = {x}
BY DEF Range

(* One more emission. *)
LEMMA HandsOutOneMore ==
  ASSUME NEW s \in Seq(Emissions), NEW e \in Emissions
  PROVE  /\ s \o <<e>> \in Seq(Emissions)
         /\ \A on, i : HandsOut(s \o <<e>>, on, i) <=>
              HandsOut(s, on, i) \/ (on = e.on /\ i \in Range(e.of))
         /\ UpsertsOneType(s) /\ (e.on = "upsert" => OneType(e.of)) => UpsertsOneType(s \o <<e>>)
<1> DEFINE t == s \o <<e>>
<1>1. /\ t \in Seq(Emissions) /\ DOMAIN t = DOMAIN s \cup {Len(s) + 1}
      /\ t[Len(s) + 1] = e /\ \A k \in DOMAIN s : t[k] = s[k]
  OBVIOUS
<1> HIDE DEF t
<1>2. \A on, i : HandsOut(t, on, i) <=> HandsOut(s, on, i) \/ (on = e.on /\ i \in Range(e.of))
  BY <1>1 DEF HandsOut
<1>3. UpsertsOneType(s) /\ (e.on = "upsert" => OneType(e.of)) => UpsertsOneType(t)
  BY <1>1 DEF UpsertsOneType
<1> QED BY <1>1, <1>2, <1>3 DEF t

LEMMA KeepsOrder ==
  ASSUME NEW s \in Seq(Emissions), NEW e \in Emissions, InOrder(s), Increases(e.of),
         \A on \in Channels, i \in Nat : HandsOut(s, on, i) /\ (on = "push" <=> e.on = "push") =>
           \A j \in Range(e.of) : Precedes(on, i, e.on, j)
  PROVE  InOrder(s \o <<e>>)
<1> DEFINE t == s \o <<e>>
<1>1. /\ t \in Seq(Emissions) /\ DOMAIN t = DOMAIN s \cup {Len(s) + 1} /\ DOMAIN s = 1..Len(s)
      /\ t[Len(s) + 1] = e /\ \A k \in DOMAIN s : t[k] = s[k]
  OBVIOUS
<1> HIDE DEF t
<1>2. \A k \in DOMAIN t : Increases(t[k].of)
  BY <1>1 DEF InOrder
<1>3. ASSUME NEW k \in DOMAIN t, NEW l \in DOMAIN t, k < l,
             t[k].on = "push" <=> t[l].on = "push",
             NEW i \in Range(t[k].of), NEW j \in Range(t[l].of)
      PROVE  Precedes(t[k].on, i, t[l].on, j)
  <2>1. k \in DOMAIN s /\ t[k] = s[k]
    BY <1>1, <1>3
  <2>2. CASE l \in DOMAIN s
    BY <1>1, <1>3, <2>1, <2>2 DEF InOrder
  <2>3. CASE l = Len(s) + 1
    <3>1. s[k] \in Emissions
      BY <2>1
    <3>2. s[k].on \in Channels /\ s[k].of \in Seq(Nat)
      BY <3>1 DEF Emissions
    <3>3. i \in Nat
      BY <1>3, <2>1, <3>2 DEF Range
    <3>4. HandsOut(s, s[k].on, i)
      BY <1>3, <2>1 DEF HandsOut
    <3> QED BY <1>1, <1>3, <2>1, <2>3, <3>2, <3>3, <3>4
  <2> QED BY <1>1, <1>3, <2>2, <2>3
<1> QED BY <1>1, <1>2, <1>3 DEF InOrder, t

-----------------------------------------------------------------------------
LEMMA Concatenated ==
  ASSUME NEW a, NEW b, NEW c
  PROVE  /\ <<>> \o <<b>> = <<b>>
         /\ <<a>> \o <<b>> = <<a, b>>
         /\ <<a, b>> \o <<c>> = <<a, b, c>>
<1> DEFINE S == {a, b, c}
<1>1. <<a>> \in Seq(S) /\ <<b>> \in Seq(S) /\ <<c>> \in Seq(S) /\ <<a, b>> \in Seq(S)
      /\ <<a, b, c>> \in Seq(S)
  OBVIOUS
<1> HIDE DEF S
<1>2. <<>> \o <<b>> = <<b>>
  BY <1>1
<1>3. <<a>> \o <<b>> = <<a, b>>
  <2> DEFINE t == <<a>> \o <<b>>
             u == <<a, b>>
  <2>1. t \in Seq(S) /\ Len(t) = 2 /\ u \in Seq(S) /\ Len(u) = 2
    BY <1>1
  <2>2. t[1] = u[1] /\ t[2] = u[2]
    BY <1>1
  <2> HIDE DEF t, u
  <2>3. t = u
    BY <2>1, <2>2, SeqEqual
  <2> QED BY <2>3 DEF t, u
<1>4. <<a, b>> \o <<c>> = <<a, b, c>>
  <2> DEFINE t == <<a, b>> \o <<c>>
             u == <<a, b, c>>
  <2>1. t \in Seq(S) /\ Len(t) = 3 /\ u \in Seq(S) /\ Len(u) = 3
    BY <1>1
  <2>2. t[1] = u[1] /\ t[2] = u[2] /\ t[3] = u[3]
    BY <1>1
  <2> HIDE DEF t, u
  <2>3. t = u
    BY <2>1, <2>2, SeqEqual
  <2> QED BY <2>3 DEF t, u
<1> QED BY <1>2, <1>3, <1>4

(* What an event emits by itself. *)
LEMMA SingleForm ==
  ASSUME BatchTypes, NEW i \in DOMAIN batch
  PROVE  /\ i \in Nat
         /\ batch[i] \in CanonicalEvents /\ batch[i].named \in BOOLEAN
         /\ batch[i].kind \in {"plain", "side", "ignored", "silent", "other"}
         /\ PushName(i) = IF batch[i].named THEN <<[on |-> "push", of |-> <<i>>]>> ELSE <<>>
         /\ batch[i].kind \in {"ignored", "silent"} => Single(i) = <<>>
         /\ batch[i].kind = "other" => Single(i) = <<[on |-> "other", of |-> <<i>>]>>
         /\ batch[i].kind = "plain" => Single(i) = PushName(i) \o <<[on |-> "upsert", of |-> <<i>>]>>
         /\ batch[i].kind = "side" =>
              Single(i) = (PushName(i) \o <<[on |-> "upsert", of |-> <<i>>]>>) \o <<[on |-> "side", of |-> <<i>>]>>
<1>1. i \in Nat /\ batch[i] \in CanonicalEvents
  BY DEF BatchTypes
<1>2. batch[i].named \in BOOLEAN /\ batch[i].kind \in {"plain", "side", "ignored", "silent", "other"}
  BY <1>1 DEF CanonicalEvents, Messages
<1>3. <<i>> # <<>>
  OBVIOUS
<1> QED BY <1>1, <1>2, <1>3 DEF Single, PushName, Upserts, Emission

LEMMA DueForm ==
  ASSUME BatchTypes, NEW i \in DOMAIN batch
  PROVE  /\ batch[i].kind \in {"ignored", "silent"} => Due(i) = {}
         /\ batch[i].kind = "other" => Due(i) = {"other"}
         /\ batch[i].kind = "plain" =>
              Due(i) = {"upsert"} \cup (IF batch[i].named THEN {"push"} ELSE {})
         /\ batch[i].kind = "side" =>
              /\ Due(i) = {"upsert", "side"} \cup (IF batch[i].named THEN {"push"} ELSE {})
              /\ Precedes("upsert", i, "side", i)
<1> DEFINE push == [on |-> "push", of |-> <<i>>]
           upsert == [on |-> "upsert", of |-> <<i>>]
           side == [on |-> "side", of |-> <<i>>]
           other == [on |-> "other", of |-> <<i>>]
<1>1. push.on = "push" /\ upsert.on = "upsert" /\ side.on = "side" /\ other.on = "other"
  OBVIOUS
<1>2. /\ PushName(i) = IF batch[i].named THEN <<push>> ELSE <<>>
      /\ batch[i].kind \in {"ignored", "silent"} => Single(i) = <<>>
      /\ batch[i].kind = "other" => Single(i) = <<other>>
      /\ batch[i].kind = "plain" => Single(i) = PushName(i) \o <<upsert>>
      /\ batch[i].kind = "side" => Single(i) = (PushName(i) \o <<upsert>>) \o <<side>>
      /\ batch[i].named \in BOOLEAN
  BY SingleForm
<1> HIDE DEF push, upsert, side, other
<1>3. CASE batch[i].kind \in {"ignored", "silent"}
  BY <1>2, <1>3 DEF Due
<1>4. CASE batch[i].kind = "other"
  BY <1>1, <1>2, <1>4 DEF Due
<1>5. CASE batch[i].kind = "plain"
  <2>1. CASE batch[i].named
    <3>1. Single(i) = <<push, upsert>>
      BY <1>2, <1>5, <2>1, Concatenated
    <3> QED BY <1>1, <1>5, <2>1, <3>1 DEF Due
  <2>2. CASE ~batch[i].named
    <3>1. Single(i) = <<upsert>>
      BY <1>2, <1>5, <2>2
    <3> QED BY <1>1, <1>5, <2>2, <3>1 DEF Due
  <2> QED BY <1>2, <2>1, <2>2
<1>6. CASE batch[i].kind = "side"
  <2>1. CASE batch[i].named
    <3>1. Single(i) = <<push, upsert, side>>
      <4>1. <<push>> \o <<upsert>> = <<push, upsert>> /\ <<push, upsert>> \o <<side>> = <<push, upsert, side>>
        BY Concatenated
      <4>2. Single(i) = (<<push>> \o <<upsert>>) \o <<side>>
        BY <1>2, <1>6, <2>1
      <4> QED BY <4>1, <4>2
    <3>2. Due(i) = {"push", "upsert", "side"}
      BY <1>1, <3>1 DEF Due
    <3>3. Precedes("upsert", i, "side", i)
      BY <1>1, <3>1 DEF Precedes
    <3> QED BY <1>6, <2>1, <3>2, <3>3
  <2>2. CASE ~batch[i].named
    <3>1. Single(i) = <<upsert, side>>
      BY <1>2, <1>6, <2>2, Concatenated
    <3>2. Due(i) = {"upsert", "side"}
      BY <1>1, <3>1 DEF Due
    <3>3. Precedes("upsert", i, "side", i)
      BY <1>1, <3>1 DEF Precedes
    <3> QED BY <1>6, <2>2, <3>2, <3>3
  <2> QED BY <1>2, <2>1, <2>2
<1> QED BY <1>3, <1>4, <1>5, <1>6, SingleForm

-----------------------------------------------------------------------------
(* The three things a dispatch is made of. *)
LEMMA ReleaseKeeps ==
  ASSUME NEW s \in Seq(Emissions), NEW p \in Seq(Nat), NEW h \in Nat, NEW top \in Nat,
         InOrder(s), Increases(p), OnlyDue(s, top, p), AllDue(s, h, p),
         \A i \in Range(p) : i \in 1..top /\ "upsert" \in Due(i)
  PROVE  /\ s \o Upserts(p) \in Seq(Emissions)
         /\ InOrder(s \o Upserts(p))
         /\ OnlyDue(s \o Upserts(p), top, <<>>) /\ AllDue(s \o Upserts(p), h, <<>>)
         /\ \A on, i : HandsOut(s \o Upserts(p), on, i) <=>
              HandsOut(s, on, i) \/ (on = "upsert" /\ i \in Range(p))
<1>1. Range(<<>>) = {} /\ Range(p) \subseteq Nat
  BY RangeOfOne DEF Range
<1>2. CASE p = <<>>
  <2>1. s \o Upserts(p) = s
    BY <1>2 DEF Upserts
  <2> QED BY <1>1, <1>2, <2>1 DEF OnlyDue, AllDue
<1>3. CASE p # <<>>
  <2> DEFINE e == [on |-> "upsert", of |-> p]
             t == s \o <<e>>
  <2>1. s \o Upserts(p) = t
    BY <1>3 DEF Upserts, Emission
  <2>2. e \in Emissions /\ e.on = "upsert" /\ e.of = p
    BY DEF Emissions, Channels
  <2> HIDE DEF e
  <2>3. t \in Seq(Emissions)
        /\ \A on, i : HandsOut(t, on, i) <=> HandsOut(s, on, i) \/ (on = "upsert" /\ i \in Range(p))
    BY <2>2, HandsOutOneMore
  <2>4. InOrder(t)
    <3>1. ASSUME NEW on \in Channels, NEW i \in Nat, HandsOut(s, on, i), on = "push" <=> e.on = "push",
                 NEW j \in Range(e.of)
          PROVE  Precedes(on, i, e.on, j)
      BY <2>2, <3>1 DEF OnlyDue, Precedes
    <3> QED BY <2>2, <3>1, KeepsOrder
  <2> HIDE DEF t
  <2>5. OnlyDue(t, top, <<>>) /\ AllDue(t, h, <<>>)
    BY <1>1, <2>3 DEF OnlyDue, AllDue
  <2> QED BY <2>1, <2>3, <2>4, <2>5
<1> QED BY <1>2, <1>3

LEMMA PushKeeps ==
  ASSUME BatchTypes, NEW i \in DOMAIN batch, NEW s \in Seq(Emissions), NEW p \in Seq(Nat),
         batch[i].kind \in {"plain", "side"},
         InOrder(s), OnlyDue(s, i - 1, p), AllDue(s, i - 1, p)
  PROVE  /\ s \o PushName(i) \in Seq(Emissions)
         /\ InOrder(s \o PushName(i))
         /\ OnlyDue(s \o PushName(i), i, p) /\ AllDue(s \o PushName(i), i - 1, p)
         /\ "push" \in Due(i) => HandsOut(s \o PushName(i), "push", i)
         /\ \A on, j : on # "push" => (HandsOut(s \o PushName(i), on, j) <=> HandsOut(s, on, j))
<1>1. i \in Nat \ {0} /\ i - 1 \in Nat
  BY DEF BatchTypes
<1>2. batch[i].named \in BOOLEAN
      /\ PushName(i) = IF batch[i].named THEN <<[on |-> "push", of |-> <<i>>]>> ELSE <<>>
  BY SingleForm
<1>3. Due(i) \subseteq {"push", "upsert", "side"} /\ ("push" \in Due(i) <=> batch[i].named)
  BY <1>2, DueForm
<1>4. CASE ~batch[i].named
  <2>1. s \o PushName(i) = s
    BY <1>2, <1>4
  <2> QED BY <1>1, <1>3, <1>4, <2>1 DEF OnlyDue, AllDue
<1>5. CASE batch[i].named
  <2> DEFINE e == [on |-> "push", of |-> <<i>>]
             t == s \o <<e>>
  <2>1. s \o PushName(i) = t
    BY <1>2, <1>5
  <2>2. e \in Emissions /\ e.on = "push" /\ e.of = <<i>> /\ Increases(e.of) /\ Range(e.of) = {i}
    BY <1>1, RangeOfOne DEF Emissions, Channels, Increases
  <2> HIDE DEF e
  <2>3. t \in Seq(Emissions)
        /\ \A on, j : HandsOut(t, on, j) <=> HandsOut(s, on, j) \/ (on = "push" /\ j = i)
    BY <2>2, HandsOutOneMore
  <2>4. InOrder(t)
    <3>1. ASSUME NEW on \in Channels, NEW j \in Nat, HandsOut(s, on, j), on = "push" <=> e.on = "push",
                 NEW k \in Range(e.of)
          PROVE  Precedes(on, j, e.on, k)
      BY <1>1, <2>2, <3>1 DEF OnlyDue, Precedes
    <3> QED BY <2>2, <3>1, KeepsOrder
  <2> HIDE DEF t
  <2>5. OnlyDue(t, i, p)
    BY <1>1, <1>3, <1>5, <2>3 DEF OnlyDue
  <2>6. AllDue(t, i - 1, p)
    BY <2>3 DEF AllDue
  <2> QED BY <2>1, <2>3, <2>4, <2>5, <2>6
<1> QED BY <1>2, <1>4, <1>5

(* An emission of the event at hand alone, after all before it. *)
LEMMA OwnKeeps ==
  ASSUME NEW s \in Seq(Emissions), NEW i \in Nat, NEW on \in Channels \ {"push"},
         InOrder(s),
         \A before \in Channels \ {"push"}, j \in Nat : HandsOut(s, before, j) => Precedes(before, j, on, i)
  PROVE  LET t == s \o <<[on |-> on, of |-> <<i>>]>>
         IN /\ t \in Seq(Emissions) /\ InOrder(t)
            /\ \A c, j : HandsOut(t, c, j) <=> HandsOut(s, c, j) \/ (c = on /\ j = i)
<1> DEFINE e == [on |-> on, of |-> <<i>>]
<1>1. e \in Emissions /\ e.on = on /\ e.of = <<i>> /\ Increases(e.of) /\ Range(e.of) = {i}
  BY RangeOfOne DEF Emissions, Channels, Increases
<1> HIDE DEF e
<1>2. s \o <<e>> \in Seq(Emissions)
      /\ \A c, j : HandsOut(s \o <<e>>, c, j) <=> HandsOut(s, c, j) \/ (c = on /\ j = i)
  BY <1>1, HandsOutOneMore
<1>3. InOrder(s \o <<e>>)
  BY <1>1, KeepsOrder
<1> QED BY <1>2, <1>3 DEF e

-----------------------------------------------------------------------------
(* What a step hands out is a sequence of emissions, each upsert of one    *)
(* type; what is put together from such is one too.                        *)
Sends(emissions) == emissions \in Seq(Emissions) /\ UpsertsOneType(emissions)

LEMMA SendsMore ==
  ASSUME NEW s, NEW t, Sends(s), Sends(t)
  PROVE  Sends(s \o t)
<1>1. s \in Seq(Emissions) /\ t \in Seq(Emissions) /\ s \o t \in Seq(Emissions)
  BY DEF Sends
<1>2. ASSUME NEW k \in DOMAIN (s \o t) PROVE (\E l \in DOMAIN s : (s \o t)[k] = s[l])
                                        \/ (\E l \in DOMAIN t : (s \o t)[k] = t[l])
  <2>1. k \in 1..Len(s) + Len(t)
    BY <1>1
  <2>2. CASE k <= Len(s)
    BY <1>1, <2>1, <2>2
  <2>3. CASE k > Len(s)
    <3>1. k - Len(s) \in DOMAIN t /\ (s \o t)[k] = t[k - Len(s)]
      BY <1>1, <2>1, <2>3
    <3> QED BY <3>1
  <2> QED BY <1>1, <2>1, <2>2, <2>3
<1> HIDE DEF Sends
<1> DEFINE u == s \o t
<1> HIDE DEF u
<1>3. \A k \in DOMAIN u : (\E l \in DOMAIN s : u[k] = s[l]) \/ (\E l \in DOMAIN t : u[k] = t[l])
  BY <1>2 DEF u
<1>4. UpsertsOneType(u)
  BY <1>3 DEF UpsertsOneType, Sends
<1> QED BY <1>1, <1>4 DEF Sends, u

LEMMA SendsPart ==
  ASSUME NEW s, Sends(s), NEW n \in 0..Len(s)
  PROVE  Sends(SubSeq(s, 1, n))
<1>1. s \in Seq(Emissions) /\ Len(s) \in Nat
  BY DEF Sends
<1>2. /\ SubSeq(s, 1, n) \in Seq(Emissions) /\ DOMAIN SubSeq(s, 1, n) \subseteq DOMAIN s
      /\ \A k \in DOMAIN SubSeq(s, 1, n) : SubSeq(s, 1, n)[k] = s[k]
  BY <1>1
<1> QED BY <1>2 DEF Sends, UpsertsOneType

LEMMA SendsOne ==
  ASSUME NEW on \in Channels, NEW p \in Seq(Nat), on = "upsert" => OneType(p)
  PROVE  Sends(<<[on |-> on, of |-> p]>>)
<1> DEFINE e == [on |-> on, of |-> p]
<1>1. e \in Emissions /\ e.on = on /\ e.of = p
  BY DEF Emissions
<1> HIDE DEF e
<1>2. <<e>> \in Seq(Emissions) /\ DOMAIN <<e>> = {1} /\ <<e>>[1] = e
  BY <1>1
<1> QED BY <1>1, <1>2 DEF Sends, UpsertsOneType, e

LEMMA UpsertsType ==
  ASSUME NEW p \in Seq(Nat)
  PROVE  Upserts(p) \in Seq(Emissions)
<1> DEFINE e == [on |-> "upsert", of |-> p]
<1>1. e \in Emissions
  BY DEF Emissions, Channels
<1> HIDE DEF e
<1>2. <<e>> \in Seq(Emissions)
  BY <1>1
<1> QED BY <1>2 DEF Upserts, Emission, e

LEMMA SendsEach ==
  ASSUME BatchTypes
  PROVE  /\ Sends(<<>>)
         /\ \A p \in Seq(Nat) : OneType(p) => Sends(Upserts(p))
         /\ \A i \in DOMAIN batch :
              /\ Sends(PushName(i)) /\ Sends(Single(i)) /\ OneType(<<i>>)
              /\ \A on \in Channels : Sends(<<[on |-> on, of |-> <<i>>]>>)
         /\ OneType(<<>>)
<1>1. Sends(<<>>) /\ OneType(<<>>)
  <2>1. <<>> \in Seq(Emissions) /\ DOMAIN <<>> = {}
    OBVIOUS
  <2> QED BY <2>1, RangeOfOne DEF Sends, UpsertsOneType, OneType
<1>2. ASSUME NEW p \in Seq(Nat), OneType(p) PROVE Sends(Upserts(p))
  <2>1. CASE p = <<>>
    BY <1>1, <2>1 DEF Upserts
  <2>2. CASE p # <<>>
    BY <1>2, <2>2, SendsOne DEF Upserts, Emission, Channels
  <2> QED BY <2>1, <2>2
<1>3. ASSUME NEW i \in DOMAIN batch PROVE /\ Sends(PushName(i)) /\ Sends(Single(i)) /\ OneType(<<i>>)
                                        /\ \A on \in Channels : Sends(<<[on |-> on, of |-> <<i>>]>>)
  <2>1. i \in Nat /\ Range(<<i>>) = {i}
    BY SingleForm, RangeOfOne
  <2> <<i>> \in Seq(Nat)
    BY <2>1
  <2>2. OneType(<<i>>)
    BY <2>1 DEF OneType
  <2>3. \A on \in Channels : Sends(<<[on |-> on, of |-> <<i>>]>>)
    <3> SUFFICES ASSUME NEW on \in Channels PROVE Sends(<<[on |-> on, of |-> <<i>>]>>)
      OBVIOUS
    <3> QED BY <2>1, <2>2, SendsOne
  <2>4. Sends(PushName(i))
    BY <1>1, <2>3, SingleForm DEF Channels
  <2>5. Sends(PushName(i) \o <<[on |-> "upsert", of |-> <<i>>]>>)
    BY <2>3, <2>4, SendsMore DEF Channels
  <2>6. Sends((PushName(i) \o <<[on |-> "upsert", of |-> <<i>>]>>) \o <<[on |-> "side", of |-> <<i>>]>>)
    BY <2>3, <2>5, SendsMore DEF Channels
  <2>7. Sends(<<[on |-> "other", of |-> <<i>>]>>)
    BY <2>3 DEF Channels
  <2>8. Sends(Single(i))
    BY <1>1, <2>5, <2>6, <2>7, SingleForm
  <2> QED BY <2>2, <2>3, <2>4, <2>8
<1> QED BY <1>1, <1>2, <1>3

-----------------------------------------------------------------------------
(* Where the event at hand leaves what was dispatched before it. *)
Collectable(p, h) == p \in Seq(Nat) /\ \A i \in Range(p) : i \in 1..h /\ batch[i].kind = "plain"

LEMMA CollectKeeps ==
  ASSUME BatchTypes, NEW i \in DOMAIN batch, batch[i].kind = "plain",
         NEW s \in Seq(Emissions), NEW p, Collectable(p, i - 1), Dispatched(s, i - 1, p)
  PROVE  /\ Dispatched(s \o PushName(i), i, Append(p, i))
         /\ Dispatched(s \o (PushName(i) \o Upserts(p)), i, <<i>>)
<1> DEFINE t == s \o PushName(i)
           u == t \o Upserts(p)
<1>1. i \in Nat \ {0} /\ i \in 1..Len(batch) /\ p \in Seq(Nat) /\ Range(p) \subseteq 1..(i - 1)
  BY DEF BatchTypes, Collectable
<1>2. "upsert" \in Due(i) /\ Due(i) \subseteq {"push", "upsert"}
  BY DueForm
<1>3. \A j \in Range(p) : j \in 1..(i - 1) /\ j \in 1..i /\ "upsert" \in Due(j)
  <2> SUFFICES ASSUME NEW j \in Range(p) PROVE j \in 1..(i - 1) /\ "upsert" \in Due(j)
    BY <1>1
  <2>1. j \in 1..(i - 1) /\ j \in DOMAIN batch /\ batch[j].kind = "plain"
    BY <1>1 DEF Collectable, BatchTypes
  <2> QED BY <2>1, DueForm
<1>4. /\ t \in Seq(Emissions) /\ InOrder(t) /\ OnlyDue(t, i, p) /\ AllDue(t, i - 1, p)
      /\ "push" \in Due(i) => HandsOut(t, "push", i)
      /\ \A on, j : on # "push" => (HandsOut(t, on, j) <=> HandsOut(s, on, j))
  BY <1>1, PushKeeps DEF Dispatched
<1>5. Range(Append(p, i)) = Range(p) \cup {i} /\ Range(<<i>>) = {i}
  BY <1>1, RangeOfAppend, RangeOfOne
<1> HIDE DEF t
<1>6. \A on \in Channels, j \in Nat : HandsOut(t, on, j) /\ on # "push" => j < i
  BY <1>1, <1>4 DEF OnlyDue, Dispatched
<1>7. Dispatched(t, i, Append(p, i))
  <2>1. Increases(Append(p, i))
    <3> SUFFICES ASSUME NEW m \in DOMAIN Append(p, i), NEW n \in DOMAIN Append(p, i), m < n
                 PROVE  Append(p, i)[m] < Append(p, i)[n]
      BY DEF Increases
    <3>1. m \in DOMAIN p /\ Append(p, i)[m] = p[m] /\ p[m] \in Range(p)
      BY <1>1 DEF Range
    <3>2. CASE n \in DOMAIN p
      BY <1>1, <3>1, <3>2 DEF Increases, Dispatched
    <3>3. CASE n = Len(p) + 1
      BY <1>1, <3>1, <3>3
    <3> QED BY <1>1, <3>2, <3>3
  <2>2. OnlyDue(t, i, Append(p, i))
    BY <1>4, <1>5, <1>6 DEF OnlyDue
  <2>3. AllDue(t, i, Append(p, i))
    <3> SUFFICES ASSUME NEW j \in 1..i, NEW on \in Due(j)
                 PROVE  HandsOut(t, on, j) \/ (on = "upsert" /\ j \in Range(Append(p, i)))
      BY DEF AllDue
    <3>1. CASE j = i
      BY <1>2, <1>4, <1>5, <3>1
    <3>2. CASE j \in 1..(i - 1)
      BY <1>4, <1>5, <3>2 DEF AllDue
    <3> QED BY <1>1, <3>1, <3>2
  <2> QED BY <1>4, <2>1, <2>2, <2>3 DEF Dispatched
<1>8. /\ u \in Seq(Emissions) /\ InOrder(u) /\ OnlyDue(u, i, <<>>) /\ AllDue(u, i - 1, <<>>)
      /\ \A on, j : HandsOut(u, on, j) <=> HandsOut(t, on, j) \/ (on = "upsert" /\ j \in Range(p))
  BY <1>1, <1>3, <1>4, ReleaseKeeps DEF Dispatched
<1> HIDE DEF u
<1>9. Dispatched(u, i, <<i>>)
  <2>1. Increases(<<i>>)
    BY DEF Increases
  <2>2. \A on \in Channels, j \in Nat : HandsOut(u, on, j) /\ on # "push" => j < i
    BY <1>3, <1>6, <1>8
  <2>3. OnlyDue(u, i, <<i>>)
    BY <1>5, <1>8, <2>2 DEF OnlyDue
  <2>4. AllDue(u, i, <<i>>)
    <3> SUFFICES ASSUME NEW j \in 1..i, NEW on \in Due(j)
                 PROVE  HandsOut(u, on, j) \/ (on = "upsert" /\ j \in Range(<<i>>))
      BY DEF AllDue
    <3>1. CASE j = i
      BY <1>2, <1>4, <1>5, <1>8, <3>1
    <3>2. CASE j \in 1..(i - 1)
      <4>1. HandsOut(u, on, j) \/ (on = "upsert" /\ j \in Range(<<>>))
        BY <1>8, <3>2 DEF AllDue
      <4> QED BY <4>1, RangeOfOne
    <3> QED BY <1>1, <3>1, <3>2
  <2> QED BY <1>8, <2>1, <2>3, <2>4 DEF Dispatched
<1>10. s \o (PushName(i) \o Upserts(p)) = (s \o PushName(i)) \o Upserts(p)
  <2>1. PushName(i) \in Seq(Emissions)
    BY SendsEach DEF Sends
  <2>2. Upserts(p) \in Seq(Emissions)
    BY <1>1, UpsertsType
  <2> QED BY <2>1, <2>2, ConcatAssociative
<1> QED BY <1>7, <1>9, <1>10 DEF t, u

LEMMA AloneKeeps ==
  ASSUME BatchTypes, NEW i \in DOMAIN batch, batch[i].kind \in {"side", "other"},
         NEW s \in Seq(Emissions), NEW p, Collectable(p, i - 1), Dispatched(s, i - 1, p)
  PROVE  Dispatched(s \o (Upserts(p) \o Single(i)), i, <<>>)
<1> DEFINE t == s \o Upserts(p)
<1>1. i \in Nat \ {0} /\ i \in 1..Len(batch) /\ p \in Seq(Nat) /\ i - 1 \in Nat /\ Range(<<>>) = {}
      /\ Increases(<<>>)
  <2>1. Range(<<>>) = {}
    BY RangeOfOne
  <2> QED BY <2>1 DEF BatchTypes, Collectable, Increases
<1>2. \A j \in Range(p) : j \in 1..(i - 1) /\ "upsert" \in Due(j)
  <2> SUFFICES ASSUME NEW j \in Range(p) PROVE j \in 1..(i - 1) /\ "upsert" \in Due(j)
    OBVIOUS
  <2>1. j \in 1..(i - 1) /\ j \in DOMAIN batch /\ batch[j].kind = "plain"
    BY <1>1 DEF Collectable, BatchTypes
  <2> QED BY <2>1, DueForm
<1>3. t \in Seq(Emissions) /\ InOrder(t) /\ OnlyDue(t, i - 1, <<>>) /\ AllDue(t, i - 1, <<>>)
  BY <1>1, <1>2, ReleaseKeeps DEF Dispatched
<1> HIDE DEF t
<1>4. Single(i) \in Seq(Emissions) /\ PushName(i) \in Seq(Emissions)
      /\ (\A c \in Channels : <<[on |-> c, of |-> <<i>>]>> \in Seq(Emissions))
  BY SendsEach DEF Sends
<1>5. s \o (Upserts(p) \o Single(i)) = t \o Single(i)
  <2>1. Upserts(p) \in Seq(Emissions)
    BY <1>1, UpsertsType
  <2> QED BY <1>4, <2>1, ConcatAssociative DEF t
<1>6. \A on \in Channels, j \in Nat : HandsOut(t, on, j) => j \in 1..(i - 1) /\ on \in Due(j)
  BY <1>3 DEF OnlyDue
<1>7. CASE batch[i].kind = "other"
  <2> DEFINE u == t \o <<[on |-> "other", of |-> <<i>>]>>
  <2>1. Single(i) = <<[on |-> "other", of |-> <<i>>]>> /\ Due(i) = {"other"}
    BY <1>7, SingleForm, DueForm
  <2>2. /\ u \in Seq(Emissions) /\ InOrder(u)
        /\ \A c, j : HandsOut(u, c, j) <=> HandsOut(t, c, j) \/ (c = "other" /\ j = i)
    <3>1. "other" \in Channels \ {"push"}
      BY DEF Channels
    <3>2. \A c \in Channels \ {"push"}, j \in Nat : HandsOut(t, c, j) => Precedes(c, j, "other", i)
      BY <1>1, <1>6 DEF Precedes
    <3> QED BY <1>1, <1>3, <3>1, <3>2, OwnKeeps
  <2> HIDE DEF u
  <2>3. OnlyDue(u, i, <<>>)
    BY <1>1, <1>6, <2>1, <2>2 DEF OnlyDue
  <2>4. AllDue(u, i, <<>>)
    <3> SUFFICES ASSUME NEW j \in 1..i, NEW on \in Due(j) PROVE HandsOut(u, on, j)
      BY DEF AllDue
    <3>1. CASE j = i
      BY <2>1, <2>2, <3>1
    <3>2. CASE j \in 1..(i - 1)
      BY <1>1, <1>3, <2>2, <3>2 DEF AllDue
    <3> QED BY <1>1, <3>1, <3>2
  <2> QED BY <1>1, <1>5, <2>1, <2>2, <2>3, <2>4 DEF u, Dispatched
<1>8. CASE batch[i].kind = "side"
  <2> DEFINE u == t \o PushName(i)
             v == u \o <<[on |-> "upsert", of |-> <<i>>]>>
             w == v \o <<[on |-> "side", of |-> <<i>>]>>
  <2>1. Single(i) = (PushName(i) \o <<[on |-> "upsert", of |-> <<i>>]>>) \o <<[on |-> "side", of |-> <<i>>]>>
    BY <1>8, SingleForm
  <2>2. Due(i) \subseteq {"push", "upsert", "side"} /\ {"upsert", "side"} \subseteq Due(i)
        /\ Precedes("upsert", i, "side", i)
    BY <1>8, DueForm
  <2>3. t \o Single(i) = w
    <3>1. PushName(i) \o <<[on |-> "upsert", of |-> <<i>>]>> \in Seq(Emissions)
      BY <1>4, ConcatProperties DEF Channels
    <3>2. t \o Single(i) = (t \o (PushName(i) \o <<[on |-> "upsert", of |-> <<i>>]>>))
                             \o <<[on |-> "side", of |-> <<i>>]>>
      BY <1>3, <1>4, <2>1, <3>1, ConcatAssociative DEF Channels
    <3>3. t \o (PushName(i) \o <<[on |-> "upsert", of |-> <<i>>]>>) = v
      BY <1>3, <1>4, ConcatAssociative DEF Channels
    <3> QED BY <3>2, <3>3
  <2>4. /\ u \in Seq(Emissions) /\ InOrder(u) /\ OnlyDue(u, i, <<>>) /\ AllDue(u, i - 1, <<>>)
        /\ "push" \in Due(i) => HandsOut(u, "push", i)
        /\ \A on, j : on # "push" => (HandsOut(u, on, j) <=> HandsOut(t, on, j))
    <3>1. <<>> \in Seq(Nat)
      OBVIOUS
    <3> QED BY <1>3, <1>8, <3>1, PushKeeps
  <2> HIDE DEF u
  <2>5. /\ v \in Seq(Emissions) /\ InOrder(v)
        /\ \A c, j : HandsOut(v, c, j) <=> HandsOut(u, c, j) \/ (c = "upsert" /\ j = i)
    <3>1. "upsert" \in Channels \ {"push"}
      BY DEF Channels
    <3>2. \A c \in Channels \ {"push"}, j \in Nat : HandsOut(u, c, j) => Precedes(c, j, "upsert", i)
      BY <1>1, <1>6, <2>4 DEF Precedes
    <3> QED BY <1>1, <2>4, <3>1, <3>2, OwnKeeps
  <2> HIDE DEF v
  <2>6. /\ w \in Seq(Emissions) /\ InOrder(w)
        /\ \A c, j : HandsOut(w, c, j) <=> HandsOut(v, c, j) \/ (c = "side" /\ j = i)
    <3>1. "side" \in Channels \ {"push"}
      BY DEF Channels
    <3>2. ASSUME NEW c \in Channels \ {"push"}, NEW j \in Nat, HandsOut(v, c, j)
          PROVE  Precedes(c, j, "side", i)
      <4>1. CASE HandsOut(t, c, j)
        BY <1>1, <1>6, <4>1 DEF Precedes
      <4>2. CASE c = "upsert" /\ j = i
        BY <2>2, <4>2
      <4> QED BY <2>4, <2>5, <3>2, <4>1, <4>2
    <3> QED BY <1>1, <2>5, <3>1, <3>2, OwnKeeps
  <2> HIDE DEF w
  <2>7. OnlyDue(w, i, <<>>)
    <3> SUFFICES ASSUME NEW on \in Channels, NEW j \in Nat, HandsOut(w, on, j)
                 PROVE  j \in 1..i /\ on \in Due(j)
      BY <1>1 DEF OnlyDue
    <3>1. CASE HandsOut(u, on, j)
      BY <2>4, <3>1 DEF OnlyDue
    <3>2. CASE on \in {"upsert", "side"} /\ j = i
      BY <1>1, <2>2, <3>2
    <3> QED BY <2>5, <2>6, <3>1, <3>2
  <2>8. AllDue(w, i, <<>>)
    <3> SUFFICES ASSUME NEW j \in 1..i, NEW on \in Due(j) PROVE HandsOut(w, on, j)
      BY DEF AllDue
    <3>1. CASE j = i
      BY <2>2, <2>4, <2>5, <2>6, <3>1
    <3>2. CASE j \in 1..(i - 1)
      BY <1>1, <2>4, <2>5, <2>6, <3>2 DEF AllDue
    <3> QED BY <1>1, <3>1, <3>2
  <2> QED BY <1>1, <1>5, <2>3, <2>6, <2>7, <2>8 DEF Dispatched
<1> QED BY <1>7, <1>8

-----------------------------------------------------------------------------
(* An event that emits nothing moves what was dispatched past it. *)
LEMMA NothingKeeps ==
  ASSUME BatchTypes, NEW i \in DOMAIN batch, Due(i) = {}, NEW s, NEW p, Dispatched(s, i - 1, p)
  PROVE  Dispatched(s, i, p)
<1>1. i \in Nat \ {0}
  BY DEF BatchTypes
<1>2. OnlyDue(s, i, p)
  BY <1>1 DEF OnlyDue, Dispatched
<1>3. AllDue(s, i, p)
  <2> SUFFICES ASSUME NEW j \in 1..i, NEW on \in Due(j)
               PROVE  HandsOut(s, on, j) \/ (on = "upsert" /\ j \in Range(p))
    BY DEF AllDue
  <2>1. j \in 1..(i - 1)
    BY <1>1
  <2> QED BY <2>1 DEF AllDue, Dispatched
<1> QED BY <1>2, <1>3 DEF Dispatched

LEMMA SilentKeeps ==
  ASSUME BatchTypes, NEW i \in DOMAIN batch, batch[i].kind = "silent",
         NEW s \in Seq(Emissions), NEW p, Collectable(p, i - 1), Dispatched(s, i - 1, p)
  PROVE  Dispatched(s \o Upserts(p), i, <<>>)
<1> DEFINE t == s \o Upserts(p)
<1>1. i \in Nat \ {0} /\ p \in Seq(Nat) /\ i - 1 \in Nat /\ Range(<<>>) = {} /\ Increases(<<>>)
  <2>1. Range(<<>>) = {}
    BY RangeOfOne
  <2> QED BY <2>1 DEF BatchTypes, Collectable, Increases
<1>2. \A j \in Range(p) : j \in 1..(i - 1) /\ "upsert" \in Due(j)
  <2> SUFFICES ASSUME NEW j \in Range(p) PROVE j \in 1..(i - 1) /\ "upsert" \in Due(j)
    OBVIOUS
  <2>1. j \in 1..(i - 1) /\ j \in DOMAIN batch /\ batch[j].kind = "plain"
    BY <1>1 DEF Collectable, BatchTypes
  <2> QED BY <2>1, DueForm
<1>3. t \in Seq(Emissions) /\ InOrder(t) /\ OnlyDue(t, i - 1, <<>>) /\ AllDue(t, i - 1, <<>>)
  BY <1>1, <1>2, ReleaseKeeps DEF Dispatched
<1> HIDE DEF t
<1>4. Dispatched(t, i - 1, <<>>)
  BY <1>1, <1>3 DEF Dispatched
<1>5. Due(i) = {}
  BY DueForm
<1>6. Dispatched(t, i, <<>>)
  BY <1>4, <1>5, NothingKeeps
<1> QED BY <1>6 DEF t

LEMMA SameEvents ==
  ASSUME batch' = batch
  PROVE  /\ \A i : Due(i)' = Due(i)
         /\ \A on, i, then, j : Precedes(on, i, then, j)' <=> Precedes(on, i, then, j)
<1>1. \A i : Single(i)' = Single(i)
  BY DEF Single, PushName, Upserts, Emission
<1> QED BY <1>1 DEF Due, Precedes

LEMMA MovesTo ==
  ASSUME BatchIInv, batch # <<>>, NEW to \in 0..(Len(batch) + 1), NEW handled,
         handled = IF to = 0 THEN Len(batch) ELSE to - 1,
         batch' = batch, position' = to, threw' \in BOOLEAN,
         Sends(sent'), OneType(pendingUpsert'), Collectable(pendingUpsert', handled),
         ~threw' => (to = 0 => pendingUpsert' = <<>>) /\ Dispatched(sent', handled, pendingUpsert')
  PROVE  BatchIInv'
<1>1. Handled' = handled
  BY DEF Handled
<1>2. BatchTypes'
  BY <1>1 DEF BatchIInv, BatchTypes, Sends, Collectable
<1>3. OneType(pendingUpsert)' /\ UpsertsOneType(sent)'
  BY DEF OneType, UpsertsOneType, Sends
<1>4. ASSUME ~threw' PROVE Dispatched(sent, Handled, pendingUpsert)'
  <2>1. Dispatched(sent', handled, pendingUpsert')
    BY <1>4
  <2>2. InOrder(sent)' /\ Increases(pendingUpsert)'
    BY <2>1, SameEvents DEF Dispatched, InOrder, Increases
  <2>3. OnlyDue(sent, Handled, pendingUpsert)' /\ AllDue(sent, Handled, pendingUpsert)'
    BY <1>1, <2>1, SameEvents DEF Dispatched, OnlyDue, AllDue, HandsOut
  <2> QED BY <2>2, <2>3 DEF Dispatched
<1> QED BY <1>2, <1>3, <1>4 DEF BatchIInv

(* The event at hand, and what was handled before it. *)
LEMMA AtEvent ==
  ASSUME BatchIInv, position \in DOMAIN batch
  PROVE  /\ batch # <<>> /\ position \in Nat \ {0} /\ position \in 1..Len(batch) /\ Handled = position - 1
         /\ position + 1 \in 0..(Len(batch) + 1) /\ position + 1 # 0 /\ (position + 1) - 1 = position
         /\ Sends(sent) /\ sent \in Seq(Emissions) /\ OneType(pendingUpsert)
         /\ Collectable(pendingUpsert, position - 1) /\ Collectable(pendingUpsert, position)
         /\ ~threw => Dispatched(sent, position - 1, pendingUpsert)
<1>1. /\ batch # <<>> /\ position \in Nat \ {0} /\ position \in 1..Len(batch) /\ Len(batch) \in Nat
  BY DEF BatchIInv, BatchTypes
<1>2. Handled = position - 1
  BY <1>1 DEF Handled
<1>3. Collectable(pendingUpsert, position - 1)
  BY <1>2 DEF BatchIInv, BatchTypes, Collectable
<1>4. Collectable(pendingUpsert, position)
  BY <1>1, <1>3 DEF Collectable
<1>5. Sends(sent) /\ sent \in Seq(Emissions) /\ OneType(pendingUpsert)
  BY DEF BatchIInv, BatchTypes, Sends
<1>6. ~threw => Dispatched(sent, position - 1, pendingUpsert)
  BY <1>2 DEF BatchIInv
<1> QED BY <1>1, <1>2, <1>3, <1>4, <1>5, <1>6

LEMMA IgnoreStep == BatchIInv /\ IgnoreEvent => BatchIInv'
<1> SUFFICES ASSUME BatchIInv, IgnoreEvent PROVE BatchIInv'
  OBVIOUS
<1>1. position \in DOMAIN batch /\ batch[position].kind = "ignored" /\ BatchTypes
  BY DEF IgnoreEvent, At, BatchIInv
<1>2. /\ batch' = batch /\ position' = position + 1 /\ threw' = threw /\ threw \in BOOLEAN
      /\ sent' = sent /\ pendingUpsert' = pendingUpsert
  BY <1>1, AtEvent DEF IgnoreEvent, BatchGoes, BatchTypes
<1>3. ASSUME ~threw PROVE Dispatched(sent, position, pendingUpsert)
  <2>1. Due(position) = {} /\ Dispatched(sent, position - 1, pendingUpsert)
    BY <1>1, <1>3, AtEvent, DueForm
  <2> QED BY <1>1, <2>1, NothingKeeps
<1>4. position + 1 \in 0..(Len(batch) + 1) /\ position = IF position + 1 = 0 THEN Len(batch) ELSE (position + 1) - 1
  BY <1>1, AtEvent
<1> HIDE DEF Handled
<1> QED BY <1>1, <1>2, <1>3, <1>4, AtEvent, MovesTo

LEMMA SilentStep == BatchIInv /\ DispatchSilent => BatchIInv'
<1> SUFFICES ASSUME BatchIInv, DispatchSilent PROVE BatchIInv'
  OBVIOUS
<1> DEFINE p == pendingUpsert
<1>1. position \in DOMAIN batch /\ batch[position].kind = "silent" /\ BatchTypes /\ threw \in BOOLEAN
  BY DEF DispatchSilent, At, BatchIInv, BatchTypes
<1>2. /\ batch' = batch /\ position' = position + 1 /\ threw' = threw
      /\ sent' = sent \o Upserts(p) /\ pendingUpsert' = <<>>
  BY <1>1 DEF DispatchSilent, Before, BatchGoes
<1>3. Sends(sent')
  <2>1. Sends(sent) /\ OneType(p) /\ p \in Seq(Nat)
    BY <1>1, AtEvent DEF Collectable
  <2> QED BY <1>1, <1>2, <2>1, SendsEach, SendsMore
<1>4. OneType(<<>>) /\ Collectable(<<>>, position)
  BY <1>1, SendsEach, RangeOfOne DEF Collectable
<1>5. ASSUME ~threw PROVE Dispatched(sent \o Upserts(p), position, <<>>)
  BY <1>1, <1>5, AtEvent, SilentKeeps
<1>6. /\ batch # <<>> /\ position + 1 \in 0..(Len(batch) + 1)
      /\ position = IF position + 1 = 0 THEN Len(batch) ELSE (position + 1) - 1
      /\ position + 1 # 0
  BY <1>1, AtEvent
<1> QED BY <1>1, <1>2, <1>3, <1>4, <1>5, <1>6, MovesTo

LEMMA CollectStep == BatchIInv /\ CollectMessage => BatchIInv'
<1> SUFFICES ASSUME BatchIInv, CollectMessage PROVE BatchIInv'
  OBVIOUS
<1> DEFINE i == position
<1>1. i \in DOMAIN batch /\ batch[i].kind = "plain" /\ BatchTypes /\ threw \in BOOLEAN
  BY DEF CollectMessage, At, BatchIInv, BatchTypes
<1>2. /\ i \in Nat \ {0} /\ pendingUpsert \in Seq(Nat) /\ Range(pendingUpsert) \subseteq 1..(i - 1)
      /\ i + 1 \in 0..(Len(batch) + 1) /\ i = IF i + 1 = 0 THEN Len(batch) ELSE (i + 1) - 1
      /\ batch # <<>> /\ OneType(pendingUpsert)
  BY <1>1, AtEvent DEF Collectable
<1>3. batch' = batch /\ position' = i + 1 /\ threw' = threw
  BY <1>1 DEF CollectMessage, BatchGoes
<1>4. CASE MetadataDiffers
  <2>1. sent' = sent \o (PushName(i) \o Upserts(pendingUpsert)) /\ pendingUpsert' = <<i>>
    BY <1>4 DEF CollectMessage, BatchGoes
  <2>2. Sends(sent')
    BY <1>1, <1>2, <2>1, AtEvent, SendsEach, SendsMore
  <2>3. Range(<<i>>) = {i} /\ <<i>> \in Seq(Nat)
    BY <1>2, RangeOfOne
  <2>4. OneType(<<i>>) /\ Collectable(<<i>>, i)
    BY <1>1, <1>2, <2>3 DEF OneType, Collectable
  <2>5. ~threw => Dispatched(sent', i, pendingUpsert')
    BY <1>1, <2>1, AtEvent, CollectKeeps
  <2>6. OneType(pendingUpsert') /\ Collectable(pendingUpsert', i)
    BY <2>1, <2>4
  <2> QED BY <1>1, <1>2, <1>3, <2>2, <2>5, <2>6, MovesTo
<1>5. CASE ~MetadataDiffers
  <2>1. sent' = sent \o PushName(i) /\ pendingUpsert' = Append(pendingUpsert, i)
    BY <1>5 DEF CollectMessage, BatchGoes
  <2>2. Sends(sent')
    BY <1>1, <2>1, AtEvent, SendsEach, SendsMore
  <2>3. Range(pendingUpsert') = Range(pendingUpsert) \cup {i} /\ pendingUpsert' \in Seq(Nat)
    <3>1. i \in Nat /\ pendingUpsert \in Seq(Nat)
      BY <1>2
    <3>2. Range(Append(pendingUpsert, i)) = Range(pendingUpsert) \cup {i}
      BY <3>1, RangeOfAppend
    <3> QED BY <2>1, <3>1, <3>2
  <2>4. Collectable(pendingUpsert', i)
    BY <1>1, <1>2, <2>3, AtEvent DEF Collectable
  <2>5. OneType(pendingUpsert')
    <3>1. CASE pendingUpsert = <<>>
      BY <2>3, <3>1, RangeOfOne DEF OneType
    <3>2. CASE pendingUpsert # <<>>
      <4>1. pendingUpsert[1] \in Range(pendingUpsert) /\ batch[pendingUpsert[1]].type = batch[i].type
        BY <1>2, <1>5, <3>2 DEF Range, MetadataDiffers
      <4>2. \A j \in Range(pendingUpsert) : batch[j].type = batch[i].type
        BY <1>2, <4>1 DEF OneType
      <4> QED BY <2>3, <4>2 DEF OneType
    <3> QED BY <3>1, <3>2
  <2>6. ~threw => Dispatched(sent', i, pendingUpsert')
    BY <1>1, <2>1, AtEvent, CollectKeeps
  <2> QED BY <1>1, <1>2, <1>3, <2>2, <2>4, <2>5, <2>6, MovesTo
<1> QED BY <1>4, <1>5

LEMMA ThrowStep == BatchIInv /\ (PushNameThrows \/ ReleaseThrows \/ FlushThrows) => BatchIInv'
<1> SUFFICES ASSUME BatchIInv, PushNameThrows \/ ReleaseThrows \/ FlushThrows PROVE BatchIInv'
  OBVIOUS
<1> DEFINE p == pendingUpsert
<1>1. BatchTypes /\ Sends(sent) /\ OneType(p) /\ p \in Seq(Nat) /\ Len(batch) \in Nat
  BY DEF BatchIInv, BatchTypes, Sends
<1>2. batch' = batch /\ threw' = TRUE /\ pendingUpsert' = p
  BY <1>1 DEF PushNameThrows, ReleaseThrows, FlushThrows, BatchGoes, BatchTypes
<1>3. Sends(Upserts(p))
  BY <1>1, SendsEach
<1>4. CASE PushNameThrows \/ ReleaseThrows
  <2>1. position \in DOMAIN batch /\ position' = position + 1
    BY <1>4 DEF PushNameThrows, ReleaseThrows, At, BatchGoes
  <2>2. sent' = sent \o PushName(position) \/ sent' = sent \o (PushName(position) \o Upserts(p))
    BY <1>4 DEF PushNameThrows, ReleaseThrows, BatchGoes
  <2>3. Sends(sent')
    BY <1>1, <1>3, <2>1, <2>2, SendsEach, SendsMore
  <2>4. /\ batch # <<>> /\ position + 1 \in 0..(Len(batch) + 1) /\ Collectable(p, position)
        /\ position = IF position + 1 = 0 THEN Len(batch) ELSE (position + 1) - 1
    BY <2>1, AtEvent
  <2> QED BY <1>1, <1>2, <2>1, <2>3, <2>4, MovesTo
<1>5. CASE FlushThrows
  <2>1. position' = 0 /\ position # 0 /\ sent' = sent \o Upserts(p)
    BY <1>5 DEF FlushThrows, BatchGoes
  <2>2. batch # <<>> /\ Collectable(p, Len(batch))
    BY <1>1, <2>1 DEF BatchTypes, Collectable, Handled
  <2>3. Sends(sent')
    BY <1>1, <1>3, <2>1, SendsMore
  <2>4. 0 \in 0..(Len(batch) + 1) /\ Len(batch) = IF 0 = 0 THEN Len(batch) ELSE 0 - 1
    BY <1>1
  <2> QED BY <1>1, <1>2, <2>1, <2>2, <2>3, <2>4, MovesTo
<1> QED BY <1>4, <1>5

LEMMA AloneStep ==
  ASSUME BatchIInv, NEW count \in 1..3, DispatchAlone(count)
  PROVE  BatchIInv'
<1> DEFINE i == position
           p == pendingUpsert
<1>1. /\ i \in DOMAIN batch /\ batch[i].kind \in {"side", "other"} /\ BatchTypes /\ threw \in BOOLEAN
      /\ count \in 1..Len(Single(i)) /\ count \in Nat
  BY DEF DispatchAlone, At, BatchIInv, BatchTypes
<1>2. PICK thrown \in {count < Len(Single(i)), TRUE} :
        BatchGoes(i + 1, Upserts(p) \o SubSeq(Single(i), 1, count), thrown)
  BY DEF DispatchAlone, Before
<1>3. /\ batch' = batch /\ position' = i + 1 /\ threw' = (threw \/ thrown) /\ thrown \in BOOLEAN
      /\ sent' = sent \o (Upserts(p) \o SubSeq(Single(i), 1, count)) /\ pendingUpsert' = <<>>
  <2>1. thrown \in BOOLEAN
    <3>1. (count < Len(Single(i))) \in BOOLEAN
      OBVIOUS
    <3> QED BY <1>2, <3>1
  <2>2. pendingUpsert' = <<>>
    BY DEF DispatchAlone, Before
  <2> QED BY <1>2, <2>1, <2>2 DEF BatchGoes
<1>4. /\ i \in Nat \ {0} /\ i + 1 \in 0..(Len(batch) + 1) /\ i = IF i + 1 = 0 THEN Len(batch) ELSE (i + 1) - 1
      /\ batch # <<>> /\ Sends(sent) /\ OneType(p) /\ p \in Seq(Nat)
  BY <1>1, AtEvent DEF Collectable
<1>5. Sends(Single(i)) /\ Single(i) \in Seq(Emissions) /\ Len(Single(i)) \in Nat
  <2>1. Sends(Single(i))
    BY <1>1, SendsEach
  <2>2. Single(i) \in Seq(Emissions)
    BY <2>1 DEF Sends
  <2> QED BY <2>1, <2>2
<1>6. Sends(sent')
  <2>1. Sends(SubSeq(Single(i), 1, count))
    BY <1>1, <1>5, SendsPart
  <2>2. Sends(Upserts(p))
    BY <1>1, <1>4, SendsEach
  <2> QED BY <1>3, <1>4, <2>1, <2>2, SendsMore
<1>7. OneType(<<>>) /\ Collectable(<<>>, i)
  BY <1>1, SendsEach, RangeOfOne DEF Collectable
<1>8. ASSUME ~threw' PROVE Dispatched(sent', i, <<>>)
  <2>1. ~threw /\ ~thrown
    BY <1>1, <1>3, <1>8
  <2>2. count = Len(Single(i))
    <3>1. ~(count < Len(Single(i)))
      BY <1>2, <2>1
    <3> QED BY <1>1, <1>5, <3>1
  <2>3. SubSeq(Single(i), 1, count) = Single(i)
    BY <1>5, <2>2, SubSeqFull
  <2>4. Dispatched(sent, i - 1, p) /\ Collectable(p, i - 1) /\ sent \in Seq(Emissions)
    BY <1>1, <2>1, AtEvent
  <2> QED BY <1>1, <1>3, <2>3, <2>4, AloneKeeps
<1>9. threw' \in BOOLEAN
  BY <1>1, <1>3
<1> QED BY <1>3, <1>4, <1>6, <1>7, <1>8, <1>9, MovesTo

LEMMA EndStep == BatchIInv /\ EndOfBatch => BatchIInv'
<1> SUFFICES ASSUME BatchIInv, EndOfBatch PROVE BatchIInv'
  OBVIOUS
<1> DEFINE p == pendingUpsert
           h == Len(batch)
<1>1. /\ BatchTypes /\ batch # <<>> /\ position = h + 1 /\ h \in Nat /\ threw \in BOOLEAN
      /\ sent \in Seq(Emissions) /\ Sends(sent) /\ OneType(p) /\ p \in Seq(Nat)
  BY DEF EndOfBatch, BatchIInv, BatchTypes, Sends
<1>2. batch' = batch /\ position' = 0 /\ threw' = threw /\ sent' = sent \o Upserts(p) /\ pendingUpsert' = <<>>
  BY <1>1 DEF EndOfBatch, BatchGoes
<1>3. Sends(sent')
  BY <1>1, <1>2, SendsEach, SendsMore
<1>4. OneType(<<>>) /\ Collectable(<<>>, h) /\ Increases(<<>>)
  BY <1>1, SendsEach, RangeOfOne DEF Collectable, Increases
<1>5. Handled = h
  BY <1>1 DEF Handled
<1>6. ASSUME ~threw PROVE Dispatched(sent', h, <<>>)
  <2>1. Dispatched(sent, h, p)
    BY <1>5, <1>6 DEF BatchIInv
  <2>2. ASSUME NEW j \in Range(p) PROVE j \in 1..h /\ "upsert" \in Due(j)
    <3>1. j \in 1..h /\ j \in DOMAIN batch /\ batch[j].kind = "plain"
      BY <1>1, <1>5 DEF BatchTypes
    <3> QED BY <1>1, <3>1, DueForm
  <2> QED BY <1>1, <1>2, <1>4, <2>1, <2>2, ReleaseKeeps DEF Dispatched
<1> QED BY <1>1, <1>2, <1>3, <1>4, <1>6, MovesTo

LEMMA ArrivesStep ==
  ASSUME BatchIInv, NEW n \in 1..MaxBatch, NEW events \in [1..n -> CanonicalEvents], BatchArrives(events)
  PROVE  BatchIInv'
<1>1. /\ n \in Nat \ {0} /\ events \in Seq(CanonicalEvents) /\ Len(events) = n
      /\ batch' = events /\ position' = 1 /\ pendingUpsert' = <<>> /\ sent' = <<>> /\ threw' = FALSE
  BY BatchAssumption DEF BatchArrives, BatchIInv, BatchTypes
<1>2. events # <<>> /\ Handled' = 0
  BY <1>1 DEF Handled
<1>3. Range(<<>>) = {} /\ DOMAIN <<>> = {} /\ <<>> \in Seq(Nat) /\ <<>> \in Seq(Emissions)
  BY RangeOfOne
<1>4. BatchTypes'
  <2>1. batch' \in Seq(CanonicalEvents) /\ position' \in 0..(Len(batch') + 1) /\ threw' \in BOOLEAN
    <3>1. Len(batch') = n /\ 1 \in 0..(n + 1)
      BY <1>1
    <3> QED BY <1>1, <3>1
  <2>2. pendingUpsert' \in Seq(Nat) /\ sent' \in Seq(Emissions) /\ Range(pendingUpsert') = {}
    BY <1>1, <1>3
  <2>3. batch' # <<>>
    BY <1>1, <1>2
  <2> QED BY <2>1, <2>2, <2>3 DEF BatchTypes
<1>5. OneType(pendingUpsert)' /\ UpsertsOneType(sent)'
  BY <1>1, <1>3 DEF OneType, UpsertsOneType
<1>6. Dispatched(sent, Handled, pendingUpsert)'
  BY <1>1, <1>2, <1>3 DEF Dispatched, InOrder, Increases, OnlyDue, AllDue, HandsOut
<1> QED BY <1>1, <1>4, <1>5, <1>6 DEF BatchIInv

LEMMA BatchInitially == BatchInit => BatchIInv
<1> SUFFICES ASSUME BatchInit PROVE BatchIInv
  OBVIOUS
<1>1. Range(<<>>) = {} /\ DOMAIN <<>> = {} /\ <<>> \in Seq(Nat) /\ <<>> \in Seq(Emissions) /\ Len(<<>>) = 0
      /\ <<>> \in Seq(CanonicalEvents)
  BY RangeOfOne
<1>2. Handled = 0
  BY <1>1 DEF BatchInit, Handled
<1>3. BatchTypes
  <2>1. batch = <<>> /\ position = 0 /\ pendingUpsert = <<>> /\ sent = <<>> /\ threw = FALSE
    BY DEF BatchInit
  <2>2. position \in 0..(Len(batch) + 1)
    BY <2>1, <1>1
  <2>3. Range(pendingUpsert) = {}
    BY <2>1, <1>1
  <2> QED BY <1>1, <2>1, <2>2, <2>3 DEF BatchTypes
<1> QED BY <1>1, <1>2, <1>3 DEF BatchInit, BatchIInv, OneType, UpsertsOneType, Dispatched, InOrder, Increases,
          OnlyDue, AllDue, HandsOut

LEMMA BatchStep == BatchIInv /\ [BatchNext]_batchVars => BatchIInv'
<1> SUFFICES ASSUME BatchIInv, [BatchNext]_batchVars PROVE BatchIInv'
  OBVIOUS
<1>1. ASSUME NEW n \in 1..MaxBatch, NEW events \in [1..n -> CanonicalEvents], BatchArrives(events)
      PROVE  BatchIInv'
  BY <1>1, ArrivesStep
<1>2. CASE IgnoreEvent
  BY <1>2, IgnoreStep
<1>3. CASE CollectMessage
  BY <1>3, CollectStep
<1>4. CASE PushNameThrows \/ ReleaseThrows \/ FlushThrows
  BY <1>4, ThrowStep
<1>5. ASSUME NEW count \in 1..3, DispatchAlone(count) PROVE BatchIInv'
  BY <1>5, AloneStep
<1>6. CASE EndOfBatch
  BY <1>6, EndStep
<1>7. CASE DispatchSilent
  BY <1>7, SilentStep
<1>8. CASE UNCHANGED batchVars
  <2>1. UNCHANGED <<batch, position, pendingUpsert, sent, threw>>
    BY <1>8 DEF batchVars
  <2>2. BatchTypes' /\ OneType(pendingUpsert)' /\ UpsertsOneType(sent)' /\ Handled' = Handled
    BY <2>1 DEF BatchIInv, BatchTypes, OneType, UpsertsOneType, Handled
  <2>3. ASSUME ~threw PROVE Dispatched(sent, Handled, pendingUpsert)'
    <3>1. Dispatched(sent, Handled, pendingUpsert)
      BY <2>3 DEF BatchIInv
    <3>2. InOrder(sent)' /\ Increases(pendingUpsert)'
      BY <2>1, <3>1, SameEvents DEF Dispatched, InOrder, Increases
    <3>3. OnlyDue(sent, Handled, pendingUpsert)' /\ AllDue(sent, Handled, pendingUpsert)'
      BY <2>1, <2>2, <3>1, SameEvents DEF Dispatched, OnlyDue, AllDue, HandsOut
    <3> QED BY <3>2, <3>3 DEF Dispatched
  <2> QED BY <2>1, <2>2, <2>3 DEF BatchIInv
<1> QED BY <1>1, <1>2, <1>3, <1>4, <1>5, <1>6, <1>7, <1>8 DEF BatchNext

LEMMA BatchInvariant == BatchSpec => []BatchIInv
BY BatchInitially, BatchStep, PTL DEF BatchSpec

LEMMA BatchIsDispatched == BatchIInv => DispatchedInOrder
<1> SUFFICES ASSUME BatchIInv PROVE DispatchedInOrder
  OBVIOUS
<1>1. \A k \in DOMAIN sent : sent[k].on = "upsert" =>
        \A i, j \in Range(sent[k].of) : batch[i].type = batch[j].type
  BY DEF BatchIInv, UpsertsOneType, OneType
<1>2. ASSUME BatchOver, ~threw
      PROVE  /\ InOrder(sent)
             /\ \A k \in DOMAIN sent : \A i \in Range(sent[k].of) :
                  i \in DOMAIN batch /\ sent[k].on \in Due(i)
             /\ \A i \in DOMAIN batch : \A on \in Due(i) : HandsOut(sent, on, i)
  <2>1. Handled = Len(batch) /\ pendingUpsert = <<>> /\ DOMAIN batch = 1..Len(batch) /\ sent \in Seq(Emissions)
    BY <1>2 DEF BatchOver, Handled, BatchIInv, BatchTypes
  <2>2. Dispatched(sent, Len(batch), <<>>)
    BY <1>2, <2>1 DEF BatchIInv
  <2>3. ASSUME NEW k \in DOMAIN sent, NEW i \in Range(sent[k].of)
        PROVE  i \in DOMAIN batch /\ sent[k].on \in Due(i)
    <3>1. sent[k] \in Emissions
      BY <2>1
    <3>2. sent[k].on \in Channels /\ i \in Nat
      BY <2>3, <3>1 DEF Emissions, Range
    <3>3. HandsOut(sent, sent[k].on, i)
      BY <2>3 DEF HandsOut
    <3> QED BY <2>1, <2>2, <3>2, <3>3 DEF Dispatched, OnlyDue
  <2>4. \A i \in DOMAIN batch : \A on \in Due(i) : HandsOut(sent, on, i)
    BY <2>1, <2>2, RangeOfOne DEF Dispatched, AllDue
  <2> QED BY <2>2, <2>3, <2>4 DEF Dispatched
<1> QED BY <1>1, <1>2 DEF DispatchedInOrder

(* A batch of any size hands out what its events would one by one, each    *)
(* once and in their order, and no upsert mixes two types, whichever       *)
(* listeners throw (events-core.ts, dispatchCanonicalBatch).               *)
THEOREM BatchesKeepOrder == BatchSpec => []DispatchedInOrder
BY BatchIsDispatched, BatchInvariant, PTL
-----------------------------------------------------------------------------
(***************************************************************************)
(* The types of the parts whose invariants above do not bound every        *)
(* variable.                                                               *)
(***************************************************************************)

LEMMA RawTyped == RawTypeOK /\ [RawNext]_rawVars => RawTypeOK'
<1> SUFFICES ASSUME RawTypeOK, [RawNext]_rawVars PROVE RawTypeOK'
  OBVIOUS
<1> USE DEF RawTypeOK
<1>1. ASSUME NEW after \in SUBSET (Waiters \cup Users), Mutates(after), UNCHANGED client,
             waiter' \in [Waiters -> {"idle", "timed", "untimed", "settled"}]
      PROVE  RawTypeOK'
  <2>1. CASE client \in {"adopted", "running"} /\ (after = {}) # (listeners = {})
    BY <1>1, <2>1 DEF Mutates
  <2>2. CASE ~(client \in {"adopted", "running"} /\ (after = {}) # (listeners = {}))
    BY <1>1, <2>2 DEF Mutates
  <2> QED
    BY <2>1, <2>2
<1>2. \A ws : Settled(ws) \in [Waiters -> {"idle", "timed", "untimed", "settled"}]
  BY DEF Settled
<1>3. CASE UserMutates
  BY <1>1, <1>3 DEF UserMutates
<1>4. CASE EmitCallback
  <2>1. PICK users \in SUBSET Users, calling \in SUBSET Waiters, kept \in SUBSET Waiters :
               /\ Mutates(kept \cup users \cup calling)
               /\ waiter' = [w \in Waiters |-> IF w \in calling THEN "timed" ELSE waiter[w]]
    BY <1>4 DEF EmitCallback, EmissionEnds
  <2> QED
    BY <1>1, <1>4, <2>1 DEF EmitCallback
<1>5. ASSUME NEW w \in Waiters, EmitTag(w) PROVE RawTypeOK'
  BY <1>1, <1>2, <1>5 DEF EmitTag, EmissionEnds
<1>6. ASSUME NEW w \in Waiters, NEW kind \in {"timed", "untimed"}, CallWaiter(w, kind) PROVE RawTypeOK'
  BY <1>1, <1>6 DEF CallWaiter
<1>7. ASSUME NEW w \in Waiters, WaiterEnds(w) PROVE RawTypeOK'
  BY <1>1, <1>7 DEF WaiterEnds
<1>8. ASSUME NEW w \in Waiters, TimesOut(w) PROVE RawTypeOK'
  BY <1>2, <1>8 DEF TimesOut
<1>9. CASE ConnectFails
  BY <1>2, <1>9 DEF ConnectFails
<1>10. CASE ReplaysForwarding
  <2>1. forwarding' \in BOOLEAN
    BY <1>10, Zenon DEF ReplaysForwarding
  <2> QED
    BY <1>10, <2>1 DEF ReplaysForwarding
<1>11. CASE Adopts \/ ClientReleased \/ UNCHANGED rawVars
  BY <1>11 DEF Adopts, ClientReleased, rawVars
<1> QED
  BY <1>3, <1>4, <1>5, <1>6, <1>7, <1>8, <1>9, <1>10, <1>11 DEF RawNext

LEMMA RawTypedInitially == RawInit => RawTypeOK
BY DEF RawInit, RawTypeOK

-----------------------------------------------------------------------------
(* Merged rows hold the numbers of events that were emitted. *)
MergeTypes == MergeTypeOK /\ emitted \in 0..MaxEmitted

LEMMA AssignTyped ==
  /\ \A left, right \in Contents \cup {Absent} : Assign(left, right) \in Contents \cup {Absent}
  /\ \A left \in Contents, right \in Contents \cup {Absent} : Assign(left, right) \in Contents
<1>1. Absent \notin Contents
  BY MergeAssumption DEF Contents
<1>2. \A left, right \in Contents : [f \in Fields |-> IF right[f] # 0 THEN right[f] ELSE left[f]] \in Contents
  BY DEF Contents
<1> QED
  BY <1>1, <1>2 DEF Assign

LEMMA MergeTyped == MergeTypes /\ [MergeNext]_mergeVars => MergeTypes'
<1> SUFFICES ASSUME MergeTypes, [MergeNext]_mergeVars PROVE MergeTypes'
  OBVIOUS
<1> DEFINE HeldRows == Contents \cup {Absent}
<1>1. /\ histRow \in HeldRows /\ upsertRow \in HeldRows /\ updateRow \in HeldRows /\ consumer \in HeldRows
      /\ newest \in Contents /\ newestUpdate \in Contents
      /\ emitted \in 0..MaxEmitted /\ MaxEmitted \in Nat
  BY MergeAssumption DEF MergeTypes, MergeTypeOK
<1>2. deletion \in BOOLEAN /\ inHistory \in BOOLEAN /\ gone \in BOOLEAN /\ lateHistory \in BOOLEAN
  BY DEF MergeTypes, MergeTypeOK
<1>3. Nothing \in Contents
  BY <1>1 DEF Nothing, Contents
<1>4. \A row \in Payload(emitted + 1) : emitted < MaxEmitted => row \in Contents
  BY <1>1 DEF Payload, Contents
<1>5. Contents' = Contents
  BY DEF Contents
<1>6. ASSUME histRow' \in HeldRows, upsertRow' \in HeldRows, updateRow' \in HeldRows, consumer' \in HeldRows,
             newest' \in Contents, newestUpdate' \in Contents, emitted' \in 0..MaxEmitted,
             deletion' \in BOOLEAN, inHistory' \in BOOLEAN, gone' \in BOOLEAN, lateHistory' \in BOOLEAN
      PROVE  MergeTypes'
  BY <1>5, <1>6 DEF MergeTypes, MergeTypeOK
<1>7. ASSUME NEW live \in HeldRows, NEW update \in HeldRows, Emits(live, update)
      PROVE  /\ emitted' \in 0..MaxEmitted /\ newest' \in Contents /\ newestUpdate' \in Contents
             /\ consumer' \in HeldRows /\ gone' \in BOOLEAN /\ emitted < MaxEmitted
  <2>1. /\ newest' \in Contents /\ newestUpdate' \in Contents
        /\ consumer' = consumer /\ gone' = FALSE /\ emitted < MaxEmitted /\ emitted' = emitted + 1
    BY <1>1, <1>7, AssignTyped DEF Emits
  <2>2. emitted' \in 0..MaxEmitted
    BY <1>1, <2>1
  <2> QED
    BY <1>1, <2>1, <2>2
<1>8. ASSUME NEW row \in Payload(emitted + 1), HistorySet(row) PROVE MergeTypes'
  <2>1. /\ emitted' \in 0..MaxEmitted /\ newest' \in Contents /\ newestUpdate' \in Contents
        /\ consumer' \in HeldRows /\ gone' \in BOOLEAN /\ row \in Contents
    BY <1>4, <1>7, <1>8, Absent \in HeldRows DEF HistorySet
  <2>2. /\ histRow' \in {Assign(updateRow, row), row, Assign(histRow, row), histRow}
        /\ updateRow' \in {Absent, updateRow} /\ upsertRow' = upsertRow /\ deletion' = deletion
    BY <1>8 DEF HistorySet
  <2>3. histRow' \in HeldRows /\ updateRow' \in HeldRows
    BY <1>1, <2>1, <2>2, AssignTyped
  <2>4. inHistory' \in BOOLEAN /\ lateHistory' \in BOOLEAN
    BY <1>8, Zenon DEF HistorySet
  <2> QED
    BY <1>1, <1>2, <1>6, <2>1, <2>2, <2>3, <2>4
<1>9. ASSUME NEW row \in Payload(emitted + 1), UpsertChatOrContact(row) PROVE MergeTypes'
  <2>1. /\ emitted' \in 0..MaxEmitted /\ newest' \in Contents /\ newestUpdate' \in Contents
        /\ consumer' \in HeldRows /\ gone' \in BOOLEAN /\ row \in Contents
    BY <1>4, <1>7, <1>9, Absent \in HeldRows DEF UpsertChatOrContact, Emits
  <2>2. UpsertRow(row) \in HeldRows
    BY <1>1, <2>1, AssignTyped DEF UpsertRow
  <2>3. histRow' \in {histRow, Assign(histRow, UpsertRow(row))} /\ upsertRow' \in {upsertRow, Assign(upsertRow, UpsertRow(row))}
    BY <1>9 DEF UpsertChatOrContact, JoinsUpsert
  <2>4. histRow' \in HeldRows /\ upsertRow' \in HeldRows
    BY <1>1, <2>2, <2>3, AssignTyped
  <2> QED
    BY <1>2, <1>6, <1>9, <2>1, <2>4 DEF UpsertChatOrContact
<1>10. ASSUME NEW row \in Payload(emitted + 1), UpsertMessage(row) PROVE MergeTypes'
  <2>1. /\ emitted' \in 0..MaxEmitted /\ newest' \in Contents /\ newestUpdate' \in Contents
        /\ consumer' \in HeldRows /\ gone' \in BOOLEAN /\ row \in Contents
    BY <1>4, <1>7, <1>10, Absent \in HeldRows DEF UpsertMessage, Emits
  <2>2. histRow' \in {histRow, Assign(row, updateRow)} /\ upsertRow' \in {upsertRow, Assign(row, updateRow)}
    BY <1>10 DEF UpsertMessage
  <2>3. histRow' \in HeldRows /\ upsertRow' \in HeldRows
    BY <1>1, <2>1, <2>2, AssignTyped
  <2> QED
    BY <1>2, <1>6, <1>10, <2>1, <2>3 DEF UpsertMessage
<1>11. ASSUME NEW row \in Payload(emitted + 1), Update(row) PROVE MergeTypes'
  <2>1. /\ emitted' \in 0..MaxEmitted /\ newest' \in Contents /\ newestUpdate' \in Contents
        /\ consumer' \in HeldRows /\ gone' \in BOOLEAN /\ row \in Contents
    BY <1>4, <1>7, <1>11 DEF Update, Emits
  <2>2. /\ histRow' \in {Absent, Assign(histRow, row)} /\ upsertRow' \in {upsertRow, Assign(upsertRow, row)}
        /\ updateRow' \in {updateRow, Assign(updateRow, row)}
    BY <1>11 DEF Update
  <2>3. histRow' \in HeldRows /\ upsertRow' \in HeldRows /\ updateRow' \in HeldRows
    BY <1>1, <2>1, <2>2, AssignTyped
  <2>4. deletion' \in BOOLEAN
    BY <1>11, Zenon DEF Update
  <2> QED
    BY <1>2, <1>6, <1>11, <2>1, <2>3, <2>4 DEF Update
<1>12. CASE Delete
  <2>1. histRow' \in {Absent, histRow} /\ emitted' \in 0..MaxEmitted
    BY <1>1, <1>12 DEF Delete
  <2> QED
    BY <1>1, <1>2, <1>3, <1>6, <1>12, <2>1 DEF Delete
<1>13. CASE ClearChat
  BY <1>1, <1>2, <1>6, <1>13 DEF ClearChat, heldVars
<1>14. CASE ReleaseHeld
  <2>1. Consolidated \in HeldRows
    BY <1>1, AssignTyped DEF Consolidated
  <2> QED
    BY <1>1, <1>2, <1>6, <1>14, <2>1 DEF ReleaseHeld
<1>15. CASE UNCHANGED mergeVars
  BY <1>1, <1>2, <1>6, <1>15 DEF mergeVars
<1> QED
  BY <1>8, <1>9, <1>10, <1>11, <1>12, <1>13, <1>14, <1>15 DEF MergeNext

LEMMA MergeTypedInitially == MergeInit => MergeTypes
<1>1. MaxEmitted \in Nat /\ Nothing \in Contents
  BY MergeAssumption DEF Nothing, Contents
<1> SUFFICES ASSUME MergeInit PROVE MergeTypes
  OBVIOUS
<1>2. emitted \in 0..MaxEmitted
  BY <1>1 DEF MergeInit
<1>3. newest \in Contents /\ newestUpdate \in Contents
  BY <1>1 DEF MergeInit
<1>4. {deletion, inHistory, gone, lateHistory} \subseteq BOOLEAN
  BY Zenon DEF MergeInit
<1> QED
  BY <1>2, <1>3, <1>4 DEF MergeInit, MergeTypes, MergeTypeOK

-----------------------------------------------------------------------------
(* The recent messages never outgrow their map, nor the counters a bound   *)
(* on their calls.                                                         *)
RetryBounds == Len(recent) <= MaxRecent /\ counters \in [Ids -> 0..MaxCounted]

LEMMA RetryBounded == RetryIInv /\ RetryBounds /\ [RetryNext]_retryVars => RetryBounds'
<1> SUFFICES ASSUME RetryIInv, RetryBounds, [RetryNext]_retryVars PROVE RetryBounds'
  OBVIOUS
<1>1. /\ recent \in Seq(RecentKeys) /\ Distinct(recent) /\ Len(recent) <= MaxRecent
      /\ counters \in [Ids -> 0..MaxCounted] /\ MaxRecent \in Nat \ {0} /\ MaxCounted \in Nat
      /\ Len(recent) \in Nat
  BY RetryAssumption DEF RetryIInv, RetryBounds
<1>2. \A m : /\ Without(m) \in Seq(RecentKeys)
             /\ Len(Without(m)) = IF m \in ToSet(recent) THEN Len(recent) - 1 ELSE Len(recent)
  BY <1>1, RemovedOnce DEF Without
<1>3. \A m : Len(Without(m)) <= MaxRecent
  BY <1>1, <1>2
<1>4. ASSUME NEW m \in RecentKeys, AddRecentMessage(m) PROVE RetryBounds'
  <2>1. PICK rest \in Seq(RecentKeys) : rest = Without(m)
    BY <1>2
  <2>2. PICK all : all = Append(rest, m)
    OBVIOUS
  <2>3. all \in Seq(RecentKeys) /\ Len(all) = Len(rest) + 1
    BY <2>1, <2>2
  <2>4. recent' = IF Len(all) > MaxRecent THEN Tail(all) ELSE all
    BY <1>4, <2>1, <2>2 DEF AddRecentMessage, Put
  <2>5. Len(all) \in Nat /\ Len(all) <= MaxRecent + 1 /\ (all # <<>> => Len(Tail(all)) = Len(all) - 1)
    BY <1>1, <1>3, <2>1, <2>3
  <2>6. Len(recent') <= MaxRecent
    BY <1>1, <2>3, <2>4, <2>5
  <2> QED
    BY <1>1, <1>4, <2>6 DEF AddRecentMessage, RetryBounds
<1>5. ASSUME NEW m \in RecentKeys, GetRecentMessage(m) PROVE RetryBounds'
  <2>1. Len(Append(Without(m), m)) = Len(Without(m)) + 1
    BY <1>2
  <2>2. Len(recent') <= MaxRecent
    BY <1>1, <1>2, <1>5, <2>1 DEF GetRecentMessage
  <2> QED
    BY <1>1, <1>5, <2>2 DEF GetRecentMessage, RetryBounds
<1>6. ASSUME NEW m \in RecentKeys, MessageExpires(m) PROVE RetryBounds'
  BY <1>1, <1>3, <1>6 DEF MessageExpires, RetryBounds
<1>7. ASSUME NEW i \in Ids, IncrementRetryCount(i) \/ CounterExpires(i) PROVE RetryBounds'
  <2>1. counters' \in [Ids -> 0..MaxCounted]
    BY <1>1, <1>7 DEF IncrementRetryCount, CounterExpires
  <2> QED
    BY <1>1, <1>7, <2>1 DEF IncrementRetryCount, CounterExpires, RetryBounds
<1>8. ASSUME NEW i \in Ids, SchedulePhoneRequest(i) \/ CancelPendingPhoneRequest(i) \/ RequestFires(i)
      PROVE  RetryBounds'
  BY <1>1, <1>8 DEF SchedulePhoneRequest, CancelPendingPhoneRequest, RequestFires, RetryBounds
<1>9. ASSUME NEW i \in Ids, MarkRetryDone(i) PROVE RetryBounds'
  <2>1. recent' = recent \/ \E m : recent' = Without(m)
    BY <1>9 DEF MarkRetryDone
  <2>2. counters' \in [Ids -> 0..MaxCounted]
    BY <1>1, <1>9 DEF MarkRetryDone
  <2> QED
    BY <1>1, <1>3, <2>1, <2>2 DEF RetryBounds
<1>10. CASE Clear
  <2>1. recent' = <<>> /\ counters' = [i \in Ids |-> 0]
    BY <1>10 DEF Clear
  <2> QED
    BY <1>1, <2>1 DEF RetryBounds
<1>11. CASE UNCHANGED retryVars
  BY <1>1, <1>11 DEF retryVars, RetryBounds
<1> QED
  BY <1>4, <1>5, <1>6, <1>7, <1>8, <1>9, <1>10, <1>11 DEF RetryNext

LEMMA RetryBoundedInitially == RetryInit => RetryBounds
BY RetryAssumption DEF RetryInit, RetryBounds

LEMMA RetryTyped ==
  ASSUME RetryIInv, RetryBounds
  PROVE  RetryTypeOK
<1>1. recent \in Seq(RecentKeys) /\ Len(recent) \in 0..MaxRecent
  BY RetryAssumption DEF RetryIInv, RetryBounds
<1>2. recent \in [1..Len(recent) -> RecentKeys]
  BY <1>1
<1>3. recent \in BoundedSeq(RecentKeys, MaxRecent)
  BY <1>1, <1>2 DEF BoundedSeq, SeqOf
<1> QED
  BY <1>3 DEF RetryIInv, RetryBounds, Indexes, RetryTypeOK

-----------------------------------------------------------------------------
(* Only messages of the batch are skipped. *)
SkippedInBatch == skipped \subseteq DOMAIN batch

LEMMA SkippedStep == SkippedInBatch /\ [BatchNext]_batchVars => SkippedInBatch'
<1> SUFFICES ASSUME SkippedInBatch, [BatchNext]_batchVars PROVE SkippedInBatch'
  OBVIOUS
<1>1. CASE \E n \in 1..MaxBatch : \E events \in [1..n -> CanonicalEvents] : BatchArrives(events)
  BY <1>1 DEF BatchArrives, SkippedInBatch
<1>2. ASSUME position \in DOMAIN batch, skipped' \subseteq skipped \cup {position}, UNCHANGED batch
      PROVE  SkippedInBatch'
  BY <1>2 DEF SkippedInBatch
<1>3. CASE PushNameThrows \/ \E count \in 1..3 : DispatchAlone(count)
  <2>1. position \in DOMAIN batch /\ UNCHANGED batch
    BY <1>3 DEF PushNameThrows, DispatchAlone, At, BatchGoes
  <2>2. skipped' \subseteq skipped \cup {position}
    BY <1>3 DEF PushNameThrows, DispatchAlone
  <2> QED
    BY <1>2, <2>1, <2>2
<1>4. CASE IgnoreEvent \/ DispatchSilent \/ CollectMessage \/ ReleaseThrows \/ FlushThrows \/ EndOfBatch
  <2>1. UNCHANGED <<skipped, batch>>
    BY <1>4 DEF IgnoreEvent, DispatchSilent, CollectMessage, ReleaseThrows, FlushThrows, EndOfBatch, BatchGoes
  <2> QED
    BY <2>1 DEF SkippedInBatch
<1>5. CASE UNCHANGED batchVars
  BY <1>5 DEF batchVars, SkippedInBatch
<1> QED
  BY <1>1, <1>3, <1>4, <1>5 DEF BatchNext

LEMMA BatchTyped ==
  ASSUME BatchIInv, SkippedInBatch
  PROVE  BatchTypeOK
<1>1. \A i \in DOMAIN pendingUpsert : pendingUpsert[i] \in Range(pendingUpsert)
  BY DEF Range
<1>2. /\ \A i \in DOMAIN batch : batch[i] \in CanonicalEvents
      /\ \A i \in DOMAIN pendingUpsert : batch[pendingUpsert[i]].kind = "plain"
  BY <1>1 DEF BatchIInv, BatchTypes
<1> QED
  BY <1>2 DEF BatchIInv, BatchTypes, SkippedInBatch, BatchTypeOK

LEMMA RowsTyped ==
  ASSUME RowsIInv
  PROVE  RowsTypeOK
<1>1. ASSUME NEW row, NEW known, NewestIn(row, known)
      PROVE  row = NoRow \/ (row.stamp \in Stamps /\ row.sender \in Stamps \cup {NoRow})
  BY <1>1 DEF NewestIn, TokenRows
<1>2. \A j \in Jids : NewestIn(rows[<<"tc_token", j>>], heard[j])
  BY DEF RowsIInv
<1> QED
  BY <1>1, <1>2 DEF RowsIInv, RowsTypeOK

-----------------------------------------------------------------------------
(***************************************************************************)
(* The parts side by side.  A step of the composition is a step of one     *)
(* part and stutters for the others, so that the invariants of the parts   *)
(* together are inductive; the fairness of Parts is that of a part while   *)
(* it runs, and none of what follows needs it.                             *)
(***************************************************************************)

PartsIInv ==
  /\ OwnerIInv /\ KeysIInv /\ PlacesIInv /\ FlushIInv
  /\ MergeIInv /\ MergeTypes /\ BatchIInv /\ SkippedInBatch
  /\ StatusIInv /\ MirrorIInv /\ RowsIInv
  /\ RetryIInv /\ RetryBounds /\ IdentityIInv /\ RawIInv /\ RawTypeOK

LEMMA PartsInitially == PartsInit => PartsIInv
<1> SUFFICES ASSUME PartsInit PROVE PartsIInv
  OBVIOUS
<1>1. /\ Init /\ KeysInit /\ CombinedInit /\ MergeInit /\ BatchInit /\ EventsInit /\ MirrorInit /\ RowsInit
      /\ RetryInit /\ IdentityInit /\ RawInit
  BY DEF PartsInit
<1>2. SkippedInBatch
  BY <1>1 DEF BatchInit, SkippedInBatch
<1> QED
  BY <1>1, <1>2, InitOwnerIInv, InitKeysIInv, PlacesInitially, InitFlushIInv, MergeInitially,
     MergeTypedInitially, BatchInitially, StatusInitially, MirrorInitially, RowsInitially,
     RetryInitially, RetryBoundedInitially, IdentityInitially, RawInitially, RawTypedInitially
  DEF PartsIInv

(* What a step of the composition is to each part. *)
LEMMA StepsOfParts ==
  ASSUME [PartsNext]_partsVars
  PROVE  /\ [Next]_vars /\ [KeysNext]_keyVars /\ [CombinedNext]_flushVars /\ [MergeNext]_mergeVars
         /\ [BatchNext]_batchVars /\ [EventsNext]_eventVars /\ [MirrorNext]_mirrorVars
         /\ [RowsNext]_rowVars /\ [RetryNext]_retryVars /\ [IdentityNext]_identityVars /\ [RawNext]_rawVars
<1>1. CASE OwnerMoves
  BY <1>1 DEF OwnerMoves
<1>2. CASE KeysMove
  BY <1>2 DEF KeysMove
<1>3. CASE FlushMoves
  BY <1>3 DEF FlushMoves
<1>4. CASE MergeMoves
  BY <1>4 DEF MergeMoves
<1>5. CASE BatchMoves
  BY <1>5 DEF BatchMoves
<1>6. CASE EventsMove
  BY <1>6 DEF EventsMove
<1>7. CASE MirrorMoves
  BY <1>7 DEF MirrorMoves
<1>8. CASE RowsMove
  BY <1>8 DEF RowsMove
<1>9. CASE RetriesMove
  BY <1>9 DEF RetriesMove
<1>10. CASE IdentityMoves
  BY <1>10 DEF IdentityMoves
<1>11. CASE RawMoves
  BY <1>11 DEF RawMoves
<1>12. CASE UNCHANGED partsVars
  BY <1>12 DEF partsVars
<1> QED
  BY <1>1, <1>2, <1>3, <1>4, <1>5, <1>6, <1>7, <1>8, <1>9, <1>10, <1>11, <1>12 DEF PartsNext

LEMMA PartsStep == PartsIInv /\ [PartsNext]_partsVars => PartsIInv'
<1> SUFFICES ASSUME PartsIInv, [PartsNext]_partsVars PROVE PartsIInv'
  OBVIOUS
<1>1. /\ [Next]_vars /\ [KeysNext]_keyVars /\ [CombinedNext]_flushVars /\ [MergeNext]_mergeVars
      /\ [BatchNext]_batchVars /\ [EventsNext]_eventVars /\ [MirrorNext]_mirrorVars
      /\ [RowsNext]_rowVars /\ [RetryNext]_retryVars /\ [IdentityNext]_identityVars /\ [RawNext]_rawVars
  BY StepsOfParts
<1>2. OwnerIInv' /\ FlushIInv'
  BY <1>1, NextOwnerIInv, NextFlushIInv DEF PartsIInv
<1>3. KeysIInv' /\ PlacesIInv'
  BY <1>1, NextKeysIInv, StutterKeysIInv, PlacesStep DEF PartsIInv
<1>4. MergeIInv' /\ MergeTypes' /\ BatchIInv' /\ SkippedInBatch'
  BY <1>1, MergeStep, MergeTyped, BatchStep, SkippedStep DEF PartsIInv
<1>5. StatusIInv' /\ MirrorIInv' /\ RowsIInv'
  BY <1>1, StatusStep, MirrorStep, RowsStep DEF PartsIInv
<1>6. RetryIInv' /\ RetryBounds' /\ IdentityIInv' /\ RawIInv' /\ RawTypeOK'
  BY <1>1, RetryStep, RetryBounded, IdentityStep, RawStep, RawTyped DEF PartsIInv
<1> QED
  BY <1>2, <1>3, <1>4, <1>5, <1>6 DEF PartsIInv

(* The invariants of the parts hold of the parts side by side. *)
THEOREM PartsInvariance == PartsSpec => []PartsIInv
BY PartsInitially, PartsStep, PTL DEF PartsSpec

(* Every variable of every part keeps its type: no counter leaves its      *)
(* range, no list outgrows its bound, and no record has a state that the   *)
(* code does not give it.                                                  *)
THEOREM PartsTypeCorrect == PartsSpec => []PartsTypeOK
<1>1. PartsIInv => PartsTypeOK
  <2> SUFFICES ASSUME PartsIInv PROVE PartsTypeOK
    OBVIOUS
  <2>1. TypeOK /\ CombinedTypeOK /\ MergeTypeOK /\ EventsTypeOK /\ MirrorTypeOK /\ IdentityTypeOK /\ RawTypeOK
    BY FlushTyped DEF PartsIInv, OwnerIInv, MergeTypes, StatusIInv, MirrorIInv, IdentityIInv
  <2>2. KeysTypeOK /\ BatchTypeOK /\ RowsTypeOK /\ RetryTypeOK
    BY KeysTyped, BatchTyped, RowsTyped, RetryTyped DEF PartsIInv
  <2> QED
    BY <2>1, <2>2 DEF PartsTypeOK
<1> QED
  BY <1>1, PartsInvariance, PTL

(* What each part promises by itself it keeps in the composition that is   *)
(* model-checked, without any fairness.                                    *)
THEOREM PartsAreSafe ==
  PartsSpec => [](/\ ReleasedExactlyOnce /\ SettledMeansReleased /\ CacheAgrees /\ NoFailureSwallowed
                  /\ ReleasedIsNewest /\ DispatchedInOrder /\ StatusSound /\ NewestTokenIndexed
                  /\ RetriesAreForgotten /\ OneRefreshPerMark /\ ForwardingFollowsListeners)
<1>1. PartsIInv => /\ ReleasedExactlyOnce /\ SettledMeansReleased /\ CacheAgrees /\ NoFailureSwallowed
                   /\ ReleasedIsNewest /\ DispatchedInOrder /\ StatusSound /\ NewestTokenIndexed
                   /\ RetriesAreForgotten /\ OneRefreshPerMark /\ ForwardingFollowsListeners
  BY OwnerReleases, OwnerSettles, CacheMatchesStore, MergedIsReleased, BatchIsDispatched, RowsAreNewest, RetriesIndexed
  DEF PartsIInv, FlushIInv, StatusIInv, IdentityIInv, RawIInv
<1> QED
  BY <1>1, PartsInvariance, PTL

(* The same of what their steps promise: the register of the key           *)
(* utilities, the barrier of a flush and the exact reads of the mirror.    *)
THEOREM PartsRefine == PartsSpec => ImplementsRegister /\ FlushedMeansQuiet /\ MirrorReadsExact
<1>1. PartsInit => Register!RegisterInit
  BY RegisterInitially DEF PartsInit
<1>2. PartsIInv /\ [PartsNext]_partsVars => [Register!RegisterNext]_latest
  BY StepsOfParts, RegisterSteps DEF PartsIInv
<1>3. PartsIInv /\ [PartsNext]_partsVars => [ResolvesQuiet]_flushVars
  BY StepsOfParts, FlushesResolveQuiet DEF PartsIInv
<1>4. PartsIInv /\ [PartsNext]_partsVars =>
        [answer' \in Payloads /\ operation.kind = "get" => answer' \in acceptable]_mirrorVars
  BY StepsOfParts, MirrorAnswers DEF PartsIInv
<1> QED
  BY <1>1, <1>2, <1>3, <1>4, PartsInvariance, PTL
  DEF PartsSpec, ImplementsRegister, Register!RegisterSpec, FlushedMeansQuiet, ResolvesQuiet, MirrorReadsExact
=============================================================================
