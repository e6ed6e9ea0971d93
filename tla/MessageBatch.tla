---------------------------- MODULE MessageBatch ------------------------------
(***************************************************************************)
(* Dispatch of a batch of messages by the event dispatcher                 *)
(* (src/src/Socket/events-core.ts, dispatchCanonicalBatch): adjacent       *)
(* ordinary messages share one messages.upsert, everything else is         *)
(* dispatched by itself.  What is emitted, and in which order, must not    *)
(* depend on how the engine grouped the messages.                          *)
(*                                                                         *)
(* An emission stops at the first listener that throws; every emission may *)
(* be such a one.  Payloads, receipts and acks are left out.               *)
(***************************************************************************)
EXTENDS Naturals, SequencesExt

CONSTANT MaxBatch   \* bound: events in a batch

ASSUME BatchAssumption == MaxBatch \in Nat \ {0}

VARIABLES
  batch,         \* the canonical events
  position,      \* the one to dispatch, 0 before and after the batch
  pendingUpsert, \* pending: the messages collected
  sent,          \* history: the emissions, each with its channel and messages
  threw,         \* history: a listener has thrown
  skipped        \* history: messages whose own dispatch threw before their upsert

batchVars == <<batch, position, pendingUpsert, sent, threw, skipped>>

Messages(kind, types) == [kind : {kind}, type : types, named : BOOLEAN]

(* A plain message, one with a reaction or protocol message, a plain one   *)
(* of an ignored chat, and an event that is no message; `named` messages   *)
(* carry a push name to be announced.  "silent" is an event dispatched by  *)
(* itself that emits nothing, such as a reaction in an ignored chat.       *)
CanonicalEvents ==
  Messages("plain", {"notify", "append"}) \cup Messages("side", {"notify"})
    \cup [kind : {"ignored", "silent", "other"}, type : {"notify"}, named : {FALSE}]

BatchInit ==
  /\ batch = <<>> /\ position = 0 /\ pendingUpsert = <<>>
  /\ sent = <<>> /\ threw = FALSE /\ skipped = {}

Emission(on, of) == <<[on |-> on, of |-> of]>>
PushName(i) == IF batch[i].named THEN Emission("push", <<i>>) ELSE <<>>
Upserts(ids) == IF ids = <<>> THEN <<>> ELSE Emission("upsert", ids)

(* What dispatchCanonicalEvent() emits for an event. *)
Single(i) ==
  CASE batch[i].kind \in {"ignored", "silent"} -> <<>>
    [] batch[i].kind = "other" -> Emission("other", <<i>>)
    [] batch[i].kind = "plain" -> PushName(i) \o Upserts(<<i>>)
    [] batch[i].kind = "side" -> PushName(i) \o Upserts(<<i>>) \o Emission("side", <<i>>)

BatchTypeOK ==
  /\ position \in 0..(Len(batch) + 1)
  /\ \A i \in DOMAIN batch : batch[i] \in CanonicalEvents
  /\ \A i \in DOMAIN pendingUpsert : batch[pendingUpsert[i]].kind = "plain"
  /\ threw \in BOOLEAN /\ skipped \subseteq DOMAIN batch

-----------------------------------------------------------------------------
BatchArrives(events) ==
  /\ batch = <<>>
  /\ batch' = events
  /\ position' = 1
  /\ UNCHANGED <<pendingUpsert, sent, threw, skipped>>

At(kinds) == position \in DOMAIN batch /\ batch[position].kind \in kinds

BatchGoes(to, emissions, thrown) ==
  /\ position' = to
  /\ sent' = sent \o emissions
  /\ threw' = (threw \/ thrown)
  /\ UNCHANGED batch

IgnoreEvent ==
  /\ At({"ignored"})
  /\ BatchGoes(position + 1, <<>>, FALSE)
  /\ UNCHANGED <<pendingUpsert, skipped>>

(* A message of other metadata releases the messages collected. *)
MetadataDiffers == pendingUpsert # <<>> /\ batch[pendingUpsert[1]].type # batch[position].type

CollectMessage ==
  LET i == position
  IN /\ At({"plain"})
     /\ IF MetadataDiffers
        THEN BatchGoes(i + 1, PushName(i) \o Upserts(pendingUpsert), FALSE) /\ pendingUpsert' = <<i>>
        ELSE BatchGoes(i + 1, PushName(i), FALSE) /\ pendingUpsert' = Append(pendingUpsert, i)
     /\ UNCHANGED skipped

(* A listener of its push name throws: the message is skipped. *)
PushNameThrows ==
  LET i == position
  IN /\ At({"plain"}) /\ batch[i].named
     /\ BatchGoes(i + 1, PushName(i), TRUE)
     /\ skipped' = skipped \cup {i}
     /\ UNCHANGED pendingUpsert

(* A listener of the messages released throws: this one is dropped, and    *)
(* those released are still the pending ones.                              *)
ReleaseThrows ==
  LET i == position
  IN /\ At({"plain"}) /\ MetadataDiffers
     /\ BatchGoes(i + 1, PushName(i) \o Upserts(pendingUpsert), TRUE)
     /\ UNCHANGED <<pendingUpsert, skipped>>

(* Mutant: what was collected stays behind an event dispatched by itself. *)
BugBefore == <<>>

(* What is released before an event that is dispatched by itself. *)
Before == pendingUpsert

(* dispatchCanonicalEvent() contains a throw: the rest of what the event   *)
(* would emit is left out.                                                 *)
DispatchAlone(count) ==
  LET i == position
  IN /\ At({"side", "other"})
     /\ count \in 1..Len(Single(i))
     /\ \E thrown \in {count < Len(Single(i)), TRUE} :
          BatchGoes(i + 1, Upserts(Before) \o SubSeq(Single(i), 1, count), thrown)
     /\ pendingUpsert' = IF Before = <<>> THEN pendingUpsert ELSE <<>>
     /\ skipped' = IF batch[i].named /\ count = 1 THEN skipped \cup {i} ELSE skipped

DispatchSilent ==
  /\ At({"silent"})
  /\ BatchGoes(position + 1, Upserts(Before), FALSE)
  /\ pendingUpsert' = IF Before = <<>> THEN pendingUpsert ELSE <<>>
  /\ UNCHANGED skipped

(* Outside any `try`, a throw ends the batch. *)
FlushThrows ==
  /\ At({"side", "silent", "other"}) \/ position = Len(batch) + 1
  /\ pendingUpsert # <<>> /\ position # 0
  /\ BatchGoes(0, Upserts(pendingUpsert), TRUE)
  /\ UNCHANGED <<pendingUpsert, skipped>>

EndOfBatch ==
  /\ batch # <<>> /\ position = Len(batch) + 1
  /\ BatchGoes(0, Upserts(pendingUpsert), FALSE)
  /\ pendingUpsert' = <<>>
  /\ UNCHANGED skipped

BatchNext ==
  \/ \E n \in 1..MaxBatch : \E events \in [1..n -> CanonicalEvents] : BatchArrives(events)
  \/ IgnoreEvent
  \/ CollectMessage
  \/ PushNameThrows
  \/ ReleaseThrows
  \/ \E count \in 1..3 : DispatchAlone(count)
  \/ DispatchSilent
  \/ FlushThrows
  \/ EndOfBatch

BatchSpec == BatchInit /\ [][BatchNext]_batchVars

-----------------------------------------------------------------------------
BatchOver == batch # <<>> /\ position = 0

HandsOut(emissions, on, i) ==
  \E k \in DOMAIN emissions : emissions[k].on = on /\ i \in Range(emissions[k].of)

Increases(ids) == \A m, n \in DOMAIN ids : m < n => ids[m] < ids[n]

(* One by one, event i would emit on channel `on` before event j on        *)
(* channel `then`.                                                         *)
Precedes(on, i, then, j) ==
  i < j \/ (i = j /\ \E m, n \in DOMAIN Single(i) :
                       m < n /\ Single(i)[m].on = on /\ Single(i)[n].on = then)

(* In that order, but for the push names: those have an order of their own. *)
InOrder(emissions) ==
  /\ \A k \in DOMAIN emissions : Increases(emissions[k].of)
  /\ \A k, l \in DOMAIN emissions :
       k < l /\ (emissions[k].on = "push" <=> emissions[l].on = "push") =>
         \A i \in Range(emissions[k].of), j \in Range(emissions[l].of) :
           Precedes(emissions[k].on, i, emissions[l].on, j)

Due(i) == {Single(i)[n].on : n \in DOMAIN Single(i)}

(* The batch emits what its events emit when they are dispatched one by    *)
(* one, in the same order, except that a push name may overtake the        *)
(* messages before it; and an upsert has messages of one type only         *)
(* (events-core.ts, dispatchCanonicalBatch).                               *)
DispatchedInOrder ==
  /\ BatchOver /\ ~threw =>
       /\ InOrder(sent)
       /\ \A k \in DOMAIN sent : \A i \in Range(sent[k].of) :
            i \in DOMAIN batch /\ sent[k].on \in Due(i)
       /\ \A i \in DOMAIN batch : \A on \in Due(i) : HandsOut(sent, on, i)
  /\ \A k \in DOMAIN sent : sent[k].on = "upsert" =>
       \A i, j \in Range(sent[k].of) : batch[i].type = batch[j].type

(* "a throwing consumer listener skips this message only" (events-core.ts, *)
(* dispatchCanonicalBatch): every other message is handed out once.        *)
ThrowSkipsThatMessageOnly ==
  BatchOver => \A i \in DOMAIN batch \ skipped :
    batch[i].kind \in {"plain", "side"} =>
      Cardinality({k \in DOMAIN sent : sent[k].on = "upsert" /\ i \in Range(sent[k].of)}) = 1
=============================================================================
