----------------------------- MODULE EventBuffer -----------------------------
(***************************************************************************)
(* The event buffer of the socket (src/src/Utils/event-buffer.ts): while   *)
(* it is buffering, bufferable events are consolidated and released        *)
(* together, by flush(), by a timer, or - messages.upsert only - because   *)
(* an upsert of another type arrives; every other event is delivered at    *)
(* once.                                                                   *)
(*                                                                         *)
(* Delivery is synchronous: listeners run inside emit() and flush(), may   *)
(* call the buffer again before those return, and may throw, which ends    *)
(* the call they were run by where it stands.  `frames` is that call       *)
(* stack.  An event counts as delivered once its delivery begins, also     *)
(* when a listener throws before the others have been called.              *)
(*                                                                         *)
(* Payloads are left out: an event is its number and its kind.  One chat   *)
(* is followed, and any number of messages.                                *)
(***************************************************************************)
EXTENDS Naturals, Sequences, FiniteSets

CONSTANTS
  Types,         \* types of messages.upsert
  NoType,        \* no messages.upsert has been buffered yet
  Works,         \* buffered functions in flight
  ListenerCalls, \* what a listener may call: "emit", "upsert", "buffer", "flush"
  MaxEvents,     \* bound: events emitted
  MaxCalls,      \* bound: calls of buffer(), manual flush() and buffered functions
  MaxDepth       \* bound: nested deliveries

(* The events of the chat: "chatRow" for chats.upsert, and for a new row   *)
(* of it in messaging-history.set; "chatUpdate" for a chats.update without *)
(* a condition or whose condition is met, "conditional" for one whose      *)
(* condition is undecided or fails; "chatDelete" for chats.delete.         *)
ChatKinds == {"chatRow", "chatUpdate", "conditional", "chatDelete"}

(* "update" stands for every bufferable kind that is only merged, "delete" *)
(* for messages.delete with keys, "status" for a kind never buffered.      *)
OtherKinds == ChatKinds \cup {"update", "delete", "status"}
Kinds == Types \cup OtherKinds

ASSUME BufferAssumption ==
  /\ Types \cap OtherKinds = {}
  /\ NoType \notin Kinds
  /\ ListenerCalls \subseteq {"emit", "upsert", "buffer", "flush"}
  /\ MaxEvents \in Nat
  /\ MaxCalls \in Nat
  /\ MaxDepth \in Nat \ {0}

VARIABLES
  kinds,          \* history: the kinds of the events emitted so far
  upserts,        \* data.messageUpserts
  others,         \* the rest of `data`, but for
  conditionals,   \* the events of data.chatUpdates[id], while it is undecided
  buffering,
  bufferCount,
  bufferTimer,    \* bufferTimeout (30 s): "none" or "armed"
  flushTimer,     \* flushPendingTimeout (100 ms): "none", "armed", or "spent",
                  \* fired while the variable still holds it
  hasPending,     \* hasPendingUpserts
  pendingType,    \* pendingUpsertType
  work,           \* per buffered function: "idle", "running", "done"
  frames,         \* the calls that are delivering, the innermost last
  log,            \* history: the batches delivered, as sets of events
  withdrawn,      \* history: events a later event took back, or of a condition
                  \* that failed
  swallowed,      \* history: events a conditional update took with it
  abandoned,      \* history: events lost to a listener that threw
  repeatable,     \* history: delivered events such a listener left in `data`
  calls           \* calls so far

data == <<upserts, others, conditionals>>
timers == <<bufferTimer, flushTimer>>
pendingVars == <<hasPending, pendingType>>
bufferVars == <<buffering, bufferCount, timers>>
fates == <<withdrawn, swallowed>>
throwVars == <<abandoned, repeatable>>
vars == <<kinds, data, bufferVars, pendingVars, work, frames, log, fates, throwVars, calls>>

Events == 1..Len(kinds)

Frames == [call : {"direct", "release", "flush"}, event : Nat, next : SUBSET (1..MaxEvents)]

TypeOK ==
  /\ kinds \in Seq(Kinds)
  /\ upserts \subseteq Events
  /\ others \subseteq Events
  /\ conditionals \subseteq Events
  /\ buffering \in BOOLEAN
  /\ bufferCount \in Nat
  /\ bufferTimer \in {"none", "armed"}
  /\ flushTimer \in {"none", "armed", "spent"}
  /\ hasPending \in BOOLEAN
  /\ pendingType \in Types \cup {NoType}
  /\ work \in [Works -> {"idle", "running", "done"}]
  /\ frames \in Seq(Frames)
  /\ log \in Seq(SUBSET Events)
  /\ withdrawn \subseteq Events
  /\ swallowed \subseteq Events
  /\ abandoned \subseteq Events
  /\ repeatable \subseteq Events
  /\ calls \in Nat

Init ==
  /\ kinds = <<>>
  /\ upserts = {} /\ others = {} /\ conditionals = {}
  /\ buffering = FALSE
  /\ bufferCount = 0
  /\ bufferTimer = "none"
  /\ flushTimer = "none"
  /\ hasPending = FALSE
  /\ pendingType = NoType
  /\ work = [w \in Works |-> "idle"]
  /\ frames = <<>>
  /\ log = <<>>
  /\ withdrawn = {} /\ swallowed = {}
  /\ abandoned = {} /\ repeatable = {}
  /\ calls = 0

Idle == frames = <<>>

Delivered == UNION {log[i] : i \in DOMAIN log}

(* Who may make this call now: anyone between deliveries, a listener       *)
(* during one.                                                             *)
Callable(call) == Idle \/ (call \in ListenerCalls /\ Len(frames) < MaxDepth)

Frame(call, event, next) == [call |-> call, event |-> event, next |-> next]

(* Listeners are about to run for the batch, on top of the frames `under`. *)
Deliver(batch, frame, under) ==
  /\ log' = Append(log, batch)
  /\ frames' = Append(under, frame)

-----------------------------------------------------------------------------
(* emit() *)

(* append(): what the event does to the buffered data, whose upserts are   *)
(* `batch`.  `others` and `conditionals` become the given sets; of the     *)
(* events that leave them, those `taken` are no longer due, and the        *)
(* `dropped` ones are.                                                     *)
Keeps(held, rest, taken, dropped) ==
  /\ conditionals' = held
  /\ others' = rest
  /\ withdrawn' = withdrawn \cup (taken \ Delivered)
  /\ swallowed' = swallowed \cup (dropped \ Delivered)

(* A messages.delete takes buffered upserts and updates back. *)
BufferDelete(e, batch) ==
  \E gone \in SUBSET (batch \cup {o \in others : kinds[o] = "update"}) :
    /\ upserts' = batch \ gone
    /\ Keeps(conditionals, (others \ gone) \cup {e}, gone, {})

ChatData == {o \in others : kinds[o] \in {"chatRow", "chatUpdate", "conditional"}}
ChatDeletes == {o \in others : kinds[o] = "chatDelete"}
HasRow == \E o \in others : kinds[o] = "chatRow"

(* What data.chatUpdates[id] stands for: updates are folded into the row,  *)
(* if there is one.                                                        *)
ChatEntry == conditionals \cup (IF HasRow THEN {} ELSE ChatData)

(* absorbChatUpdate(): the new row may decide the condition.  If it fails, *)
(* the entry is dropped with the updates folded into it.                   *)
BufferRow(e, revoked) ==
  LET rest == (others \ revoked) \cup {e}
      conditional == {c \in conditionals : kinds[c] = "conditional"}
  IN \/ Keeps(conditionals, rest, revoked, {})
     \/ Keeps({}, rest \cup conditionals, revoked, {})
     \/ Keeps({}, rest, revoked \cup conditional, conditionals \ conditional)

(* An update is folded into the row or into the entry, and waits for the   *)
(* entry's condition if that is undecided.                                 *)
BufferChatUpdate(e) ==
  IF HasRow \/ conditionals = {}
  THEN Keeps(conditionals, (others \ ChatDeletes) \cup {e}, ChatDeletes, {})
  ELSE Keeps(conditionals \cup {e}, others \ ChatDeletes, ChatDeletes, {})

(* An undecided update replaces the entry; one whose condition fails is    *)
(* ignored.                                                                *)
BufferConditional(e) ==
  \/ Keeps({e}, others \ (ChatDeletes \cup ChatEntry), ChatDeletes, ChatEntry)
  \/ Keeps(conditionals, others \ ChatDeletes, ChatDeletes \cup {e}, {})

BufferEvent(e, kind, batch) ==
  IF kind = "delete" THEN BufferDelete(e, batch)
  ELSE /\ upserts' = IF kind \in Types THEN batch \cup {e} ELSE batch
       /\ \/ kind \in Types /\ Keeps(conditionals, others, {}, {})
          \/ kind = "update" /\ Keeps(conditionals, others \cup {e}, {}, {})
          \/ kind = "chatRow" /\ \E revoked \in {{}, ChatDeletes} : BufferRow(e, revoked)
          \/ kind = "chatUpdate" /\ BufferChatUpdate(e)
          \/ kind = "conditional" /\ BufferConditional(e)
          \/ kind = "chatDelete" /\ Keeps({}, (others \ ChatData) \cup {e},
                                         ChatData \cup conditionals, {})

(* The second half of emit(): the event is buffered, or delivered at once. *)
(* `batch` and `pending` are the upserts and hasPendingUpserts by then.    *)
AppendOrDeliver(e, kind, under, batch, pending) ==
  IF buffering /\ kind # "status"
  THEN /\ BufferEvent(e, kind, batch)
       /\ hasPending' = (pending \/ kind \in Types)
       /\ pendingType' = IF kind \in Types THEN kind ELSE pendingType
       /\ frames' = under
       /\ UNCHANGED log
  ELSE /\ Deliver({e}, Frame("direct", e, {}), under)
       /\ upserts' = batch
       /\ hasPending' = pending
       /\ UNCHANGED <<others, conditionals, pendingType, fates>>

(* Mutant: an upsert joins the pending ones whatever its type. *)
BugTypeChanges(kind) == FALSE

TypeChanges(kind) == kind \in Types /\ hasPending /\ pendingType # kind

(* An upsert of another type finds pending ones to release, unless they    *)
(* have been deleted.                                                      *)
Releases(kind) == TypeChanges(kind) /\ upserts # {}

Emitted(kind) ==
  /\ Len(kinds) < MaxEvents
  /\ Callable(IF kind \in Types THEN "upsert" ELSE "emit")
  /\ kinds' = Append(kinds, kind)
  /\ UNCHANGED <<bufferVars, throwVars, work, calls>>

Emit(kind) ==
  /\ ~Releases(kind)
  /\ Emitted(kind)
  /\ AppendOrDeliver(Len(kinds) + 1, kind, frames, upserts, hasPending /\ ~TypeChanges(kind))

EmitReleasing(kind) ==
  /\ Releases(kind)
  /\ Emitted(kind)
  /\ Deliver(upserts, Frame("release", Len(kinds) + 1, {}), frames)
  /\ UNCHANGED <<data, pendingVars, fates>>

-----------------------------------------------------------------------------
(* flush() *)

StopBuffering ==
  /\ buffering' = FALSE
  /\ bufferCount' = 0
  /\ bufferTimer' = "none"
  /\ flushTimer' = "none"

(* consolidateEvents() of data that holds no undecided update. *)
Consolidated == upserts \cup others

(* Mutant: undecided conditional updates are not carried over. *)
BugRelease ==
  /\ StopBuffering
  /\ conditionals' = {}
  /\ IF Consolidated # {}
     THEN /\ Deliver(Consolidated, Frame("flush", 0, {}), frames)
          /\ UNCHANGED <<upserts, others, hasPending>>
     ELSE hasPending' = FALSE /\ UNCHANGED <<upserts, others, log, frames>>
  /\ UNCHANGED <<kinds, pendingType, fates, throwVars, work>>

(* Undecided conditional updates are carried over into the next data; the  *)
(* rest is delivered, and only when that returns is `data` replaced.       *)
Release ==
  /\ StopBuffering
  /\ IF Consolidated # {}
     THEN /\ Deliver(Consolidated, Frame("flush", 0, conditionals), frames)
          /\ conditionals' = {}
          /\ UNCHANGED <<upserts, others, hasPending>>
     ELSE hasPending' = FALSE /\ UNCHANGED <<data, log, frames>>
  /\ UNCHANGED <<kinds, pendingType, fates, throwVars, work>>

Flush ==
  /\ Callable("flush")
  /\ calls < MaxCalls
  /\ calls' = calls + 1
  /\ buffering
  /\ Release

-----------------------------------------------------------------------------
(* A delivery returns to the call that made it, or a listener throws.      *)

Top == frames[Len(frames)]
Below == SubSeq(frames, 1, Len(frames) - 1)

(* An exception leaves emit() as its return does. *)
DirectReturns ==
  /\ ~Idle
  /\ Top.call = "direct"
  /\ frames' = Below
  /\ UNCHANGED <<kinds, data, bufferVars, pendingVars, work, log, fates, throwVars, calls>>

(* emit() clears the upserts it released and goes on with its own event.   *)
ReleaseReturns ==
  /\ ~Idle
  /\ Top.call = "release"
  /\ AppendOrDeliver(Top.event, kinds[Top.event], Below, {}, FALSE)
  /\ UNCHANGED <<kinds, bufferVars, throwVars, work, calls>>

(* A listener of the released upserts throws: they stay in `data`, and the *)
(* event being emitted is never buffered.                                  *)
ReleaseThrows ==
  /\ ~Idle
  /\ Top.call = "release"
  /\ frames' = Below
  /\ abandoned' = abandoned \cup {Top.event}
  /\ repeatable' = repeatable \cup (upserts \cap Delivered)
  /\ UNCHANGED <<kinds, data, bufferVars, pendingVars, work, log, fates, calls>>

(* Mutant: the upserts are left in `data`. *)
BugFlushReturns ==
  /\ ~Idle
  /\ Top.call = "flush"
  /\ others' = {} /\ conditionals' = Top.next
  /\ hasPending' = FALSE
  /\ frames' = Below
  /\ UNCHANGED <<kinds, upserts, bufferVars, pendingType, work, log, fates, throwVars, calls>>

(* flush() replaces `data`, whatever it holds by now. *)
FlushReturns ==
  /\ ~Idle
  /\ Top.call = "flush"
  /\ upserts' = {} /\ others' = {} /\ conditionals' = Top.next
  /\ hasPending' = FALSE
  /\ frames' = Below
  /\ UNCHANGED <<kinds, bufferVars, pendingType, work, log, fates, throwVars, calls>>

(* A listener of the release throws: `data` is not replaced, and what was  *)
(* carried over goes with the object that was to replace it.               *)
FlushThrows ==
  /\ ~Idle
  /\ Top.call = "flush"
  /\ frames' = Below
  /\ abandoned' = abandoned \cup Top.next
  /\ repeatable' = repeatable \cup ((upserts \cup others) \cap Delivered)
  /\ UNCHANGED <<kinds, data, bufferVars, pendingVars, work, log, fates, calls>>

-----------------------------------------------------------------------------
(* buffer(), the buffered functions and the timers *)

(* Mutant: buffer() sets no deadline. *)
BugStartBuffering ==
  /\ buffering' = TRUE
  /\ bufferCount' = bufferCount + 1
  /\ UNCHANGED timers

(* The first buffer() sets the deadline; bufferCount is 0 until then.      *)
StartBuffering ==
  /\ buffering' = TRUE
  /\ bufferTimer' = "armed"
  /\ bufferCount' = (IF buffering THEN bufferCount ELSE 0) + 1
  /\ UNCHANGED flushTimer

Buffer ==
  /\ Callable("buffer")
  /\ calls < MaxCalls
  /\ calls' = calls + 1
  /\ StartBuffering
  /\ UNCHANGED <<kinds, data, pendingVars, work, frames, log, fates, throwVars>>

(* A function wrapped by createBufferedFunction() is called ... *)
WorkStarts(w) ==
  /\ Callable("buffer")
  /\ work[w] = "idle"
  /\ work' = [work EXCEPT ![w] = "running"]
  /\ StartBuffering
  /\ UNCHANGED <<kinds, data, pendingVars, frames, log, fates, throwVars, calls>>

(* Mutant: the count goes below zero after a flush in between. *)
BugWorkSettles(w) ==
  /\ Idle
  /\ work[w] = "running"
  /\ work' = [work EXCEPT ![w] = "done"]
  /\ bufferCount' = bufferCount - 1
  /\ flushTimer' = IF bufferCount' = 0 /\ flushTimer = "none" THEN "armed" ELSE flushTimer
  /\ UNCHANGED <<kinds, data, buffering, bufferTimer, pendingVars, frames, log,
                 fates, throwVars, calls>>

(* ... and settles: the last one schedules a flush, unless one is held.    *)
WorkSettles(w) ==
  /\ Idle
  /\ work[w] = "running"
  /\ work' = [work EXCEPT ![w] = "done"]
  /\ bufferCount' = IF bufferCount > 0 THEN bufferCount - 1 ELSE 0
  /\ flushTimer' = IF bufferCount' = 0 /\ flushTimer = "none" THEN "armed" ELSE flushTimer
  /\ UNCHANGED <<kinds, data, buffering, bufferTimer, pendingVars, frames, log,
                 fates, throwVars, calls>>

BufferTimeout ==
  /\ Idle
  /\ bufferTimer = "armed"
  /\ buffering
  /\ Release
  /\ UNCHANGED calls

(* The scheduled flush() of a buffer that was already released does        *)
(* nothing, not even forget its timer.                                     *)
FlushTimeout ==
  /\ Idle
  /\ flushTimer = "armed"
  /\ IF buffering
     THEN Release
     ELSE /\ flushTimer' = "spent"
          /\ UNCHANGED <<kinds, data, buffering, bufferCount, bufferTimer, pendingVars,
                         work, frames, log, fates, throwVars>>
  /\ UNCHANGED calls

Return ==
  \/ DirectReturns
  \/ ReleaseReturns \/ ReleaseThrows
  \/ FlushReturns \/ FlushThrows

Next ==
  \/ \E kind \in Kinds : Emit(kind) \/ EmitReleasing(kind)
  \/ Flush
  \/ Buffer
  \/ \E w \in Works : WorkStarts(w) \/ WorkSettles(w)
  \/ BufferTimeout
  \/ FlushTimeout
  \/ Return

(* Calls return or throw and timers fire; a buffered function need not settle. *)
Fairness == WF_vars(Return) /\ WF_vars(BufferTimeout) /\ WF_vars(FlushTimeout)

Spec == Init /\ [][Next]_vars

FairSpec == Spec /\ Fairness

-----------------------------------------------------------------------------
(* Events that a call on the stack still has to deal with. *)
InHand == {frames[i].event : i \in DOMAIN frames} \cup UNION {frames[i].next : i \in DOMAIN frames}

Lost == swallowed \cup abandoned

(* An event is delivered, buffered or about to be, or was taken back by a  *)
(* later one - or it is lost, which only happens so: an upsert, when a     *)
(* listener of the upserts it releases throws; an event of another kind,   *)
(* when it is a chats.update and a conditional one was emitted, which      *)
(* replaces it, or holds it until its own condition fails or a listener    *)
(* of a flush throws.                                                      *)
NoEventLost ==
  /\ Events \subseteq Delivered \cup upserts \cup others \cup conditionals \cup InHand
                    \cup withdrawn \cup Lost
  /\ \A e \in Lost :
       IF kinds[e] \in Types THEN e \in abandoned
       ELSE /\ kinds[e] \in {"chatUpdate", "conditional"}
            /\ \E c \in Events : kinds[c] = "conditional"

UpsertsOf(batch) == {e \in batch : kinds[e] \in Types}

(* No event is delivered after it was taken back or lost, nor twice,      *)
(* unless a listener threw and left it in `data`; a batch carries one type *)
(* for all its upserts (the type of the first is announced), and upserts   *)
(* are delivered in the order they were emitted, but for such repeats.     *)
DeliveredOnceInOrder ==
  /\ Delivered \cap (withdrawn \cup Lost) = {}
  /\ \A i, j \in DOMAIN log :
       /\ i # j => log[i] \cap log[j] \subseteq repeatable
       /\ \A d \in UpsertsOf(log[i]), e \in UpsertsOf(log[j]) :
            /\ i = j => kinds[d] = kinds[e]
            /\ i < j => d < e \/ e \in repeatable

(* A buffer is released, also when a buffered function never settles. *)
BufferEnds == buffering ~> ~buffering
=============================================================================
