-------------------------- MODULE EventBufferProofs --------------------------
(***************************************************************************)
(* Safety of the event buffer, for any number of events, calls, buffered   *)
(* functions and nested deliveries, when listeners do nothing but emit     *)
(* events that are no messages.upsert, and throw.  Listeners that flush,   *)
(* emit upserts or start buffering break it: EventBufferReentrant.cfg      *)
(* shows one way.                                                          *)
(***************************************************************************)
EXTENDS EventBuffer, TLAPS

ListenersOnlyEmit == ListenerCalls \subseteq {"emit"}

IsUpsert(e) == kinds[e] \in Types

(* Only the outermost call can be a flush or a release. *)
InFlush == frames # <<>> /\ frames[1].call = "flush"
InRelease == frames # <<>> /\ frames[1].call = "release"

(* Events that are no longer due. *)
Gone == withdrawn \cup Lost

Updates == {"chatUpdate", "conditional"}

AnyConditional == \E c \in Events : kinds[c] = "conditional"

(* The updates a flush will put back into `data`. *)
CarriedOver == IF InFlush THEN frames[1].next ELSE {}

StackMatches ==
  /\ \A i \in DOMAIN frames :
       /\ frames[i].call # "direct" => i = 1
       /\ frames[i].call = "direct" => frames[i].event \in Delivered
       /\ IF frames[i].call = "flush" THEN frames[i].event = 0 ELSE frames[i].next = {}
  /\ InFlush => /\ ~buffering /\ conditionals = {}
                /\ upserts \subseteq Delivered /\ others \subseteq Delivered
  /\ InRelease => /\ upserts \subseteq Delivered
                  /\ frames[1].event \in Events /\ IsUpsert(frames[1].event)
                  /\ frames[1].event \notin Delivered \cup Gone
                  /\ \A d \in Delivered : IsUpsert(d) => d < frames[1].event

(* What is buffered is neither delivered, except while the call that       *)
(* delivers it has not returned and after it has thrown, nor taken back or *)
(* lost.                                                                   *)
BufferedOnce ==
  /\ ~InFlush /\ ~InRelease =>
       /\ upserts \cap Delivered \subseteq repeatable
       /\ \A d \in Delivered, e \in upserts : IsUpsert(d) => d < e \/ e \in repeatable
  /\ ~InFlush => others \cap Delivered \subseteq repeatable
  /\ (upserts \cup others) \cap Gone = {}
  /\ (conditionals \cup CarriedOver) \cap (Delivered \cup Gone \cup others) = {}
  /\ ~InFlush /\ ~buffering => upserts \cup others \subseteq repeatable
  /\ repeatable \subseteq Delivered

(* The pending upserts are of the type that is remembered, and what waits  *)
(* for a condition are updates of the chat, one of them conditional once.  *)
KindsMatch ==
  /\ Len(kinds) <= MaxEvents
  /\ \A e \in upserts : hasPending /\ kinds[e] = pendingType /\ IsUpsert(e)
  /\ \A e \in others \cup conditionals \cup CarriedOver : e \in Events /\ ~IsUpsert(e)
  /\ \A e \in conditionals \cup CarriedOver : kinds[e] \in Updates
  /\ conditionals \cup CarriedOver # {} => AnyConditional

IInv ==
  /\ TypeOK
  /\ StackMatches
  /\ BufferedOnce
  /\ KindsMatch
  /\ NoEventLost
  /\ DeliveredOnceInOrder

-----------------------------------------------------------------------------
(* The call stack and the log *)

LEMMA FrameType ==
  ASSUME NEW call \in {"direct", "release", "flush"}, NEW event \in Nat, NEW next \in SUBSET (1..MaxEvents)
  PROVE  /\ Frame(call, event, next) \in Frames
         /\ Frame(call, event, next).call = call
         /\ Frame(call, event, next).event = event
         /\ Frame(call, event, next).next = next
BY DEF Frame, Frames

(* Delivering a batch adds its events to those delivered. *)
LEMMA DeliverAdds ==
  ASSUME NEW S, log \in Seq(S), NEW batch, log' = Append(log, batch)
  PROVE  /\ Delivered' = Delivered \cup batch
         /\ Len(log') = Len(log) + 1
         /\ \A i \in DOMAIN log : i \in DOMAIN log' /\ log'[i] = log[i]
         /\ log'[Len(log) + 1] = batch
         /\ \A i \in DOMAIN log' : i \in DOMAIN log \/ i = Len(log) + 1
<1>1. /\ Len(log') = Len(log) + 1 /\ Len(log) \in Nat
      /\ DOMAIN log = 1..Len(log) /\ DOMAIN log' = 1..(Len(log) + 1)
      /\ \A i \in 1..Len(log) : log'[i] = log[i]
      /\ log'[Len(log) + 1] = batch
  OBVIOUS
<1>2. Delivered' = Delivered \cup batch
  BY <1>1 DEF Delivered
<1>. QED BY <1>1, <1>2

(* A call is pushed on the stack: the others keep their places. *)
LEMMA Pushed ==
  ASSUME frames \in Seq(Frames), NEW f \in Frames, frames' = Append(frames, f)
  PROVE  /\ frames' \in Seq(Frames) /\ frames' # <<>>
         /\ \A i \in DOMAIN frames : i \in DOMAIN frames' /\ frames'[i] = frames[i]
         /\ frames'[Len(frames) + 1] = f
         /\ \A i \in DOMAIN frames' : i \in DOMAIN frames \/ i = Len(frames) + 1
         /\ frames # <<>> => frames'[1] = frames[1]
         /\ frames = <<>> => frames'[1] = f /\ DOMAIN frames' = {1}
         /\ 1 \in DOMAIN frames'
OBVIOUS

(* It returns. *)
LEMMA Popped ==
  ASSUME frames \in Seq(Frames), ~Idle, frames' = Below
  PROVE  /\ frames' \in Seq(Frames)
         /\ \A i \in DOMAIN frames' : i \in DOMAIN frames /\ frames'[i] = frames[i]
         /\ Len(frames) \in DOMAIN frames /\ Top \in Frames
         /\ \A i \in DOMAIN frames : i \in DOMAIN frames' \/ i = Len(frames)
         /\ frames' # <<>> => frames'[1] = frames[1] /\ 1 \in DOMAIN frames' /\ Len(frames) # 1
         /\ frames' = <<>> => Len(frames) = 1
<1>. DEFINE n == Len(frames)
<1>1. n \in Nat \ {0} /\ DOMAIN frames = 1..n
  BY DEF Idle
<1>2. Below = [i \in 1..(n - 1) |-> frames[i]]
  BY <1>1 DEF Below
<1>3. Below \in Seq(Frames) /\ Len(Below) = n - 1 /\ DOMAIN Below = 1..(n - 1)
  BY <1>1, <1>2
<1>4. \A i \in 1..(n - 1) : Below[i] = frames[i]
  BY <1>2
<1>5. Top = frames[n] /\ frames[n] \in Frames
  BY <1>1 DEF Top
<1>6. Below = <<>> <=> n = 1
  <2>1. Below \in Seq(Frames) /\ Len(Below) = n - 1
    BY <1>3
  <2>2. (Below = <<>>) <=> (Len(Below) = 0)
    BY <2>1
  <2>. QED BY <1>1, <2>1, <2>2
<1>. HIDE DEF n
<1>. QED BY <1>1, <1>3, <1>4, <1>5, <1>6 DEF n

LEMMA EmittedFacts ==
  ASSUME TypeOK, BufferAssumption, NEW kind \in Kinds, Emitted(kind)
  PROVE  /\ kinds' \in Seq(Kinds) /\ Len(kinds') = Len(kinds) + 1 /\ Len(kinds') <= MaxEvents
         /\ kinds'[Len(kinds) + 1] = kind
         /\ \A d \in Events : kinds'[d] = kinds[d] /\ d < Len(kinds) + 1
         /\ Events' = Events \cup {Len(kinds) + 1}
         /\ Events' \subseteq 1..MaxEvents /\ Len(kinds) + 1 \in Nat
         /\ ListenersOnlyEmit /\ kind \in Types => Idle
BY DEF TypeOK, Emitted, Events, BufferAssumption, Callable, ListenersOnlyEmit

LEMMA InitIInv == Init => IInv
<1>. SUFFICES ASSUME Init PROVE IInv
  OBVIOUS
<1>1. Events = {} /\ Delivered = {} /\ ~InFlush /\ ~InRelease /\ CarriedOver = {}
  BY DEF Init, Events, Delivered, InFlush, InRelease, CarriedOver
<1>2. TypeOK
  <2>1. work \in [Works -> {"idle", "running", "done"}]
    BY DEF Init
  <2>2. kinds \in Seq(Kinds) /\ frames \in Seq(Frames) /\ log \in Seq(SUBSET Events)
    BY DEF Init
  <2>. QED BY <1>1, <2>1, <2>2 DEF Init, TypeOK
<1>3. StackMatches /\ BufferedOnce
  BY <1>1 DEF Init, StackMatches, BufferedOnce, Gone, Lost
<1>4. KindsMatch
  BY <1>1, BufferAssumption DEF Init, KindsMatch
<1>5. NoEventLost /\ DeliveredOnceInOrder
  BY <1>1 DEF Init, NoEventLost, DeliveredOnceInOrder, Lost
<1>. QED BY <1>2, <1>3, <1>4, <1>5 DEF IInv

-----------------------------------------------------------------------------
(* What holds of the data between two calls *)

(* Nothing is delivering: whatever is buffered is new, or a listener threw *)
(* and left it there.                                                      *)
LEMMA IdleFacts ==
  ASSUME IInv, Idle
  PROVE  /\ ~InFlush /\ ~InRelease /\ CarriedOver = {} /\ InHand = {}
         /\ upserts \cap Delivered \subseteq repeatable
         /\ others \cap Delivered \subseteq repeatable
         /\ (upserts \cup others \cup conditionals) \cap Gone = {}
         /\ \A d \in Delivered, e \in upserts : IsUpsert(d) => d < e \/ e \in repeatable
         /\ ~buffering => upserts \cup others \subseteq repeatable
         /\ repeatable \subseteq Delivered
<1>1. ~InFlush /\ ~InRelease /\ CarriedOver = {}
  BY DEF Idle, InFlush, InRelease, CarriedOver
<1>2. InHand = {}
  BY DEF Idle, InHand
<1>. QED BY <1>1, <1>2 DEF IInv, BufferedOnce

(* Outside Release the steps that neither emit nor return do not touch the *)
(* data, and buffering never stops.                                        *)
LEMMA QuietStep ==
  ASSUME IInv, TypeOK', UNCHANGED <<kinds, data, pendingVars, frames, log, fates, throwVars>>,
         buffering' = buffering \/ (Idle /\ buffering')
  PROVE  IInv'
<1>1. /\ UNCHANGED <<Delivered, Events, InHand, InFlush, InRelease, CarriedOver, Gone, Lost, AnyConditional>>
      /\ UNCHANGED <<kinds, upserts, others, conditionals, hasPending, pendingType, frames, log>>
      /\ UNCHANGED <<withdrawn, swallowed, abandoned, repeatable>>
  BY DEF Delivered, Events, InHand, InFlush, InRelease, CarriedOver, Gone, Lost, AnyConditional,
         data, pendingVars, fates, throwVars
<1>2. StackMatches'
  <2>1. Idle => ~InFlush
    BY DEF Idle, InFlush
  <2>. QED BY <1>1, <2>1 DEF IInv, StackMatches, IsUpsert
<1>3. BufferedOnce'
  BY <1>1 DEF IInv, BufferedOnce, IsUpsert
<1>4. KindsMatch'
  BY <1>1 DEF IInv, KindsMatch, IsUpsert
<1>5. NoEventLost'
  BY <1>1 DEF IInv, NoEventLost
<1>6. DeliveredOnceInOrder'
  BY <1>1 DEF IInv, DeliveredOnceInOrder, UpsertsOf
<1>. QED BY <1>2, <1>3, <1>4, <1>5, <1>6 DEF IInv

(* A batch of upserts of one type, all events of which are new and later  *)
(* than the delivered upserts, or repeatable, keeps the log as it should be. *)
LEMMA DeliveredStays ==
  ASSUME IInv, \A d \in Events : kinds'[d] = kinds[d],
         NEW batch, log' = Append(log, batch), UNCHANGED <<fates, throwVars>>,
         batch \cap Gone = {}, batch \cap Delivered \subseteq repeatable,
         \A d, e \in batch : kinds'[d] \in Types /\ kinds'[e] \in Types => kinds'[d] = kinds'[e],
         \A d \in Delivered, e \in batch :
           IsUpsert(d) /\ kinds'[e] \in Types => d < e \/ e \in repeatable
  PROVE  DeliveredOnceInOrder'
<1>. DEFINE n == Len(log) + 1
<1>1. log \in Seq(SUBSET Events)
  BY DEF IInv, TypeOK
<1>2. /\ Delivered' = Delivered \cup batch
      /\ \A i \in DOMAIN log : i \in DOMAIN log' /\ log'[i] = log[i] /\ i # n /\ i < n
      /\ log'[n] = batch
      /\ \A i \in DOMAIN log' : i \in DOMAIN log \/ i = n
  BY <1>1, DeliverAdds
<1>3. \A i \in DOMAIN log : log[i] \subseteq Delivered /\ log[i] \subseteq Events /\ i \in Nat
  BY <1>1 DEF Delivered
<1>4. Gone' = Gone /\ repeatable' = repeatable /\ (withdrawn \cup Lost)' = Gone'
  BY DEF Gone, Lost, fates, throwVars
<1>5. (Delivered' \cap Gone') = {}
  BY <1>2, <1>4 DEF IInv, DeliveredOnceInOrder, Gone
<1>6. ASSUME NEW i \in DOMAIN log', NEW j \in DOMAIN log'
      PROVE  /\ i # j => log'[i] \cap log'[j] \subseteq repeatable
             /\ \A d \in log'[i], e \in log'[j] : kinds'[d] \in Types /\ kinds'[e] \in Types =>
                  /\ i = j => kinds'[d] = kinds'[e]
                  /\ i < j => d < e \/ e \in repeatable
  <2>. HIDE DEF n
  <2>1. CASE i \in DOMAIN log /\ j \in DOMAIN log
    BY <1>2, <1>3, <2>1 DEF IInv, DeliveredOnceInOrder, UpsertsOf
  <2>2. CASE i \in DOMAIN log /\ j = n
    BY <1>2, <1>3, <2>2 DEF IsUpsert
  <2>3. CASE i = n /\ j \in DOMAIN log
    <3>1. n \in Nat
      BY <1>1 DEF n
    <3>. QED BY <1>2, <1>3, <2>3, <3>1
  <2>4. CASE i = n /\ j = n
    <3>1. n \in Nat
      BY <1>1 DEF n
    <3>. QED BY <1>2, <2>4, <3>1
  <2>. QED BY <1>2, <2>1, <2>2, <2>3, <2>4
<1>. QED BY <1>4, <1>5, <1>6 DEF DeliveredOnceInOrder, UpsertsOf, Gone

(* The delivered events are events, and the next event is new. *)
LEMMA NextEventIsNew ==
  ASSUME IInv
  PROVE  /\ Delivered \subseteq Events /\ Delivered \cap Gone = {} /\ Gone \subseteq Events
         /\ Len(kinds) + 1 \notin Events
         /\ \A d \in Events : d < Len(kinds) + 1
         /\ Len(kinds) \in Nat
<1>1. kinds \in Seq(Kinds) /\ log \in Seq(SUBSET Events)
  BY DEF IInv, TypeOK
<1>2. Delivered \subseteq Events
  BY <1>1 DEF Delivered
<1>3. Gone \subseteq Events
  BY DEF IInv, TypeOK, Gone, Lost
<1>. QED BY <1>1, <1>2, <1>3 DEF IInv, DeliveredOnceInOrder, Events, Gone

(* An event is added, and what was lost stays so. *)
LEMMA LostStays ==
  ASSUME IInv, \A d \in Events : kinds'[d] = kinds[d], Events \subseteq Events',
         Lost' = Lost, abandoned' = abandoned,
         Events' \subseteq Delivered' \cup upserts' \cup others' \cup conditionals' \cup InHand'
                         \cup Gone'
  PROVE  NoEventLost'
<1>1. Lost \subseteq Events
  BY DEF IInv, TypeOK, Lost
<1>. QED BY <1>1 DEF IInv, NoEventLost, Gone

-----------------------------------------------------------------------------
(* emit() *)

(* What append() does with a new event, all kinds taken together: nothing  *)
(* goes without being `taken` or `dropped`, and only updates are dropped,  *)
(* to a conditional one.                                                   *)
Moves(e, kind, batch, held, rest, taken, dropped) ==
  /\ held \subseteq conditionals \cup {e}
  /\ rest \subseteq others \cup conditionals \cup {e}
  /\ held \cap rest = {}
  /\ taken \cup dropped \subseteq batch \cup others \cup conditionals \cup {e}
  /\ (taken \cup dropped) \cap (upserts' \cup held \cup rest) = {}
  /\ batch \cup others \cup conditionals \cup {e}
       \subseteq upserts' \cup held \cup rest \cup taken \cup dropped
  /\ IF kind \in Types
     THEN upserts' = batch \cup {e} /\ held \cup rest \subseteq conditionals \cup others
     ELSE upserts' \subseteq batch
  /\ e \in held => kind \in Updates
  /\ \A d \in dropped : d \in others \cup conditionals /\ kinds[d] \in Updates
  /\ held \cup dropped # {} => conditionals # {} \/ kind = "conditional"

LEMMA BufferEventMoves ==
  ASSUME IInv, NEW e, e \notin Events, NEW kind \in Kinds, kind # "status",
         NEW batch \in SUBSET upserts, BufferEvent(e, kind, batch)
  PROVE  \E held, rest, taken, dropped :
           Keeps(held, rest, taken, dropped) /\ Moves(e, kind, batch, held, rest, taken, dropped)
<1>1. /\ upserts \subseteq Events /\ others \subseteq Events /\ conditionals \subseteq Events
      /\ conditionals \cap others = {}
      /\ \A u \in upserts : kinds[u] \in Types
      /\ \A o \in others \cup conditionals : kinds[o] \notin Types
      /\ \A c \in conditionals : kinds[c] \in Updates
  BY DEF IInv, TypeOK, BufferedOnce, KindsMatch, IsUpsert
<1>2. batch \cap (others \cup conditionals) = {}
      /\ e \notin batch \cup others \cup conditionals
  BY <1>1
<1>3. CASE kind = "delete"
  <2>1. PICK gone \in SUBSET (batch \cup {o \in others : kinds[o] = "update"}) :
          /\ upserts' = batch \ gone
          /\ Keeps(conditionals, (others \ gone) \cup {e}, gone, {})
    BY <1>3 DEF BufferEvent, BufferDelete
  <2>2. Moves(e, kind, batch, conditionals, (others \ gone) \cup {e}, gone, {})
    BY <1>1, <1>2, <1>3, <2>1, BufferAssumption DEF Moves, BufferAssumption, OtherKinds
  <2>. QED BY <2>1, <2>2
<1>4. kind # "delete" => upserts' = IF kind \in Types THEN batch \cup {e} ELSE batch
  BY DEF BufferEvent
<1>5. CASE kind \in Types
  <2>1. kind \notin OtherKinds
    BY <1>5, BufferAssumption DEF BufferAssumption
  <2>2. Keeps(conditionals, others, {}, {})
    BY <1>5, <2>1 DEF BufferEvent, OtherKinds, ChatKinds
  <2>3. Moves(e, kind, batch, conditionals, others, {}, {})
    BY <1>1, <1>2, <1>4, <1>5, <2>1 DEF Moves, OtherKinds
  <2>. QED BY <2>2, <2>3
<1>6. CASE kind \notin Types /\ kind # "delete"
  <2>1. upserts' = batch /\ kind \in OtherKinds
    BY <1>4, <1>6 DEF Kinds
  <2>2. CASE kind = "update"
    <3>1. Keeps(conditionals, others \cup {e}, {}, {})
      BY <1>6, <2>2 DEF BufferEvent
    <3>2. Moves(e, kind, batch, conditionals, others \cup {e}, {}, {})
      BY <1>1, <1>2, <1>6, <2>1 DEF Moves
    <3>. QED BY <3>1, <3>2
  <2>3. CASE kind = "chatRow"
    <3>. DEFINE undecided == {c \in conditionals : kinds[c] = "conditional"}
    <3>1. PICK revoked \in {{}, ChatDeletes} : BufferRow(e, revoked)
      BY <1>6, <2>3 DEF BufferEvent
    <3>2. revoked \subseteq others
      BY DEF ChatDeletes
    <3>3. CASE Keeps(conditionals, (others \ revoked) \cup {e}, revoked, {})
      <4>1. Moves(e, kind, batch, conditionals, (others \ revoked) \cup {e}, revoked, {})
        BY <1>1, <1>2, <1>6, <2>1, <3>2 DEF Moves
      <4>. QED BY <3>3, <4>1
    <3>4. CASE Keeps({}, ((others \ revoked) \cup {e}) \cup conditionals, revoked, {})
      <4>1. Moves(e, kind, batch, {}, ((others \ revoked) \cup {e}) \cup conditionals, revoked, {})
        BY <1>1, <1>2, <1>6, <2>1, <3>2 DEF Moves
      <4>. QED BY <3>4, <4>1
    <3>5. CASE Keeps({}, (others \ revoked) \cup {e}, revoked \cup undecided, conditionals \ undecided)
      <4>1. undecided \subseteq conditionals
        OBVIOUS
      <4>. HIDE DEF undecided
      <4>2. Moves(e, kind, batch, {}, (others \ revoked) \cup {e}, revoked \cup undecided,
                  conditionals \ undecided)
        BY <1>1, <1>2, <1>6, <2>1, <3>2, <4>1 DEF Moves
      <4>. QED BY <3>5, <4>2
    <3>. QED BY <3>1, <3>3, <3>4, <3>5 DEF BufferRow
  <2>4. CASE kind = "chatUpdate"
    <3>1. BufferChatUpdate(e)
      BY <1>6, <2>4 DEF BufferEvent
    <3>2. CASE HasRow \/ conditionals = {}
      <4>1. Keeps(conditionals, (others \ ChatDeletes) \cup {e}, ChatDeletes, {})
        BY <3>1, <3>2 DEF BufferChatUpdate
      <4>2. Moves(e, kind, batch, conditionals, (others \ ChatDeletes) \cup {e}, ChatDeletes, {})
        BY <1>1, <1>2, <1>6, <2>1 DEF Moves, ChatDeletes
      <4>. QED BY <4>1, <4>2
    <3>3. CASE ~(HasRow \/ conditionals = {})
      <4>1. Keeps(conditionals \cup {e}, others \ ChatDeletes, ChatDeletes, {})
        BY <3>1, <3>3 DEF BufferChatUpdate
      <4>2. Moves(e, kind, batch, conditionals \cup {e}, others \ ChatDeletes, ChatDeletes, {})
        BY <1>1, <1>2, <1>6, <2>1, <2>4, <3>3 DEF Moves, ChatDeletes, Updates
      <4>. QED BY <4>1, <4>2
    <3>. QED BY <3>2, <3>3
  <2>5. CASE kind = "conditional"
    <3>1. BufferConditional(e)
      BY <1>6, <2>5 DEF BufferEvent
    <3>2. CASE Keeps({e}, others \ (ChatDeletes \cup ChatEntry), ChatDeletes, ChatEntry)
      <4>1. /\ ChatDeletes \subseteq others
            /\ conditionals \subseteq ChatEntry /\ ChatEntry \subseteq conditionals \cup others
        BY DEF ChatEntry, ChatDeletes, ChatData
      <4>2. ChatDeletes \cap ChatEntry = {}
        BY <1>1 DEF ChatEntry, ChatDeletes, ChatData
      <4>3. \A d \in ChatEntry : kinds[d] \in Updates
        BY <1>1 DEF ChatEntry, ChatData, HasRow, Updates
      <4>4. Moves(e, kind, batch, {e}, others \ (ChatDeletes \cup ChatEntry), ChatDeletes, ChatEntry)
        BY <1>1, <1>2, <1>6, <2>1, <2>5, <4>1, <4>2, <4>3 DEF Moves, Updates
      <4>. QED BY <3>2, <4>4
    <3>3. CASE Keeps(conditionals, others \ ChatDeletes, ChatDeletes \cup {e}, {})
      <4>1. Moves(e, kind, batch, conditionals, others \ ChatDeletes, ChatDeletes \cup {e}, {})
        BY <1>1, <1>2, <1>6, <2>1, <2>5 DEF Moves, ChatDeletes
      <4>. QED BY <3>3, <4>1
    <3>. QED BY <3>1, <3>2, <3>3 DEF BufferConditional
  <2>6. CASE kind = "chatDelete"
    <3>1. Keeps({}, (others \ ChatData) \cup {e}, ChatData \cup conditionals, {})
      BY <1>6, <2>6 DEF BufferEvent
    <3>2. Moves(e, kind, batch, {}, (others \ ChatData) \cup {e}, ChatData \cup conditionals, {})
      BY <1>1, <1>2, <1>6, <2>1 DEF Moves, ChatData
    <3>. QED BY <3>1, <3>2
  <2>. QED BY <1>6, <2>1, <2>2, <2>3, <2>4, <2>5, <2>6 DEF OtherKinds, ChatKinds
<1>. QED BY <1>3, <1>5, <1>6

(* The event is buffered. *)
LEMMA EmitBuffered ==
  ASSUME IInv, ListenersOnlyEmit, NEW kind \in Kinds, Emit(kind), buffering, kind # "status"
  PROVE  IInv'
<1>. DEFINE n == Len(kinds) + 1
<1>1. /\ BufferEvent(n, kind, upserts)
      /\ hasPending' = ((hasPending /\ ~TypeChanges(kind)) \/ kind \in Types)
      /\ pendingType' = IF kind \in Types THEN kind ELSE pendingType
      /\ frames' = frames /\ log' = log /\ ~Releases(kind) /\ Emitted(kind)
      /\ UNCHANGED <<buffering, bufferCount, bufferTimer, flushTimer, work, calls, abandoned, repeatable>>
  BY DEF Emit, AppendOrDeliver, Emitted, bufferVars, timers, throwVars
<1>2. TypeOK /\ BufferAssumption
  BY BufferAssumption DEF IInv
<1>3. /\ kinds' \in Seq(Kinds) /\ Len(kinds') <= MaxEvents /\ kinds'[n] = kind
      /\ \A d \in Events : kinds'[d] = kinds[d]
      /\ Events' = Events \cup {n}
      /\ kind \in Types => Idle
  BY <1>1, <1>2, EmittedFacts
<1>4. /\ Delivered \subseteq Events /\ n \notin Events /\ \A d \in Events : d < n
      /\ Delivered \cap Gone = {} /\ Gone \subseteq Events
  BY NextEventIsNew
<1>5. PICK held, rest, taken, dropped :
        /\ Keeps(held, rest, taken, dropped)
        /\ Moves(n, kind, upserts, held, rest, taken, dropped)
  BY <1>1, <1>4, BufferEventMoves
<1>. HIDE DEF n
<1>6. /\ conditionals' = held /\ others' = rest
      /\ withdrawn' = withdrawn \cup (taken \ Delivered)
      /\ swallowed' = swallowed \cup (dropped \ Delivered)
  BY <1>5 DEF Keeps
<1>7. /\ Delivered' = Delivered /\ InHand' = InHand
      /\ InFlush' = InFlush /\ InRelease' = InRelease /\ CarriedOver' = CarriedOver
  BY <1>1 DEF Delivered, InHand, InFlush, InRelease, CarriedOver
<1>8. /\ upserts \subseteq Events /\ others \subseteq Events /\ conditionals \subseteq Events
      /\ withdrawn \subseteq Events /\ swallowed \subseteq Events /\ abandoned \subseteq Events
      /\ repeatable \subseteq Events
  BY <1>2 DEF TypeOK
<1>9. ~InFlush /\ CarriedOver = {}
  BY <1>1 DEF IInv, StackMatches, CarriedOver
<1>10. kind \in Types => ~InRelease
  BY <1>3 DEF Idle, InRelease
<1>11. /\ \A e \in conditionals \cup others : ~IsUpsert(e)
       /\ \A e \in upserts : IsUpsert(e) /\ hasPending /\ kinds[e] = pendingType
       /\ \A e \in conditionals : kinds[e] \in Updates
       /\ conditionals # {} => AnyConditional
  BY DEF IInv, KindsMatch
<1>12. kind \in Types => \A e \in upserts : kinds[e] = kind
  BY <1>1, <1>11 DEF Releases, TypeChanges
<1>13. kind \notin Types => ~TypeChanges(kind)
  BY DEF TypeChanges
<1>14. Gone' = Gone \cup ((taken \cup dropped) \ Delivered)
  BY <1>1, <1>6 DEF Gone, Lost
<1>15. /\ (taken \cup dropped) \cap (upserts' \cup held \cup rest) = {}
       /\ taken \cup dropped \subseteq upserts \cup others \cup conditionals \cup {n}
       /\ held \subseteq conditionals \cup {n} /\ rest \subseteq others \cup conditionals \cup {n}
       /\ held \cap rest = {} /\ upserts' \subseteq upserts \cup {n}
       /\ kind \notin Types => upserts' \subseteq upserts
       /\ kind \in Types => held \cup rest \subseteq conditionals \cup others
  BY <1>5 DEF Moves
<1>16. /\ upserts \cap Gone = {} /\ others \cap Gone = {} /\ conditionals \cap Gone = {}
       /\ conditionals \cap Delivered = {} /\ others \cap Delivered \subseteq repeatable
       /\ repeatable \subseteq Delivered
       /\ ~InRelease => upserts \cap Delivered \subseteq repeatable
       /\ ~InRelease => \A d \in Delivered, e \in upserts : IsUpsert(d) => d < e \/ e \in repeatable
  BY <1>9 DEF IInv, BufferedOnce
<1>17. (\E c \in Events : kinds[c] = "conditional") \/ kind = "conditional" => AnyConditional'
  BY <1>3 DEF AnyConditional
<1>18. TypeOK'
  <2>1. log' \in Seq(SUBSET Events')
    <3>1. log \in Seq(SUBSET Events)
      BY <1>2 DEF TypeOK
    <3>2. SUBSET Events \subseteq SUBSET (Events')
      BY <1>3
    <3>. QED BY <1>1, <3>1, <3>2
  <2>2. /\ upserts' \subseteq Events' /\ others' \subseteq Events' /\ conditionals' \subseteq Events'
        /\ withdrawn' \subseteq Events' /\ swallowed' \subseteq Events'
        /\ abandoned' \subseteq Events' /\ repeatable' \subseteq Events'
    BY <1>1, <1>3, <1>6, <1>8, <1>15
  <2>3. hasPending' \in BOOLEAN /\ pendingType' \in Types \cup {NoType}
    BY <1>1, <1>2 DEF TypeOK
  <2>. QED BY <1>1, <1>2, <1>3, <2>1, <2>2, <2>3 DEF TypeOK
<1>19. StackMatches'
  <2>1. ASSUME InRelease
        PROVE  /\ upserts' \subseteq Delivered
               /\ frames[1].event \in Events' /\ kinds'[frames[1].event] \in Types
               /\ frames[1].event \notin Delivered \cup Gone'
               /\ \A d \in Delivered : kinds'[d] \in Types => d < frames[1].event
    <3>1. /\ upserts \subseteq Delivered /\ frames[1].event \in Events /\ IsUpsert(frames[1].event)
          /\ frames[1].event \notin Delivered \cup Gone
          /\ \A d \in Delivered : IsUpsert(d) => d < frames[1].event
      BY <2>1 DEF IInv, StackMatches
    <3>2. frames[1].event \notin taken \cup dropped
      BY <1>4, <1>11, <1>15, <3>1
    <3>. QED BY <1>3, <1>4, <1>10, <1>14, <1>15, <2>1, <3>1, <3>2 DEF IsUpsert
  <2>. QED BY <1>1, <1>7, <1>9, <2>1 DEF IInv, StackMatches, IsUpsert
<1>20. BufferedOnce'
  <2>1. ~InRelease => upserts' \cap Delivered \subseteq repeatable
    BY <1>4, <1>15, <1>16
  <2>2. ~InRelease => \A d \in Delivered, e \in upserts' :
                        kinds'[d] \in Types => d < e \/ e \in repeatable
    BY <1>3, <1>4, <1>15, <1>16 DEF IsUpsert
  <2>3. others' \cap Delivered \subseteq repeatable
    BY <1>4, <1>6, <1>15, <1>16
  <2>4. (upserts' \cup others' \cup conditionals') \cap Gone' = {}
    BY <1>4, <1>6, <1>14, <1>15, <1>16
  <2>5. conditionals' \cap (Delivered \cup others') = {}
    BY <1>4, <1>6, <1>15, <1>16
  <2>. QED BY <1>1, <1>7, <1>9, <1>16, <2>1, <2>2, <2>3, <2>4, <2>5 DEF BufferedOnce, IsUpsert
<1>21. KindsMatch'
  <2>1. \A e \in upserts' : hasPending' /\ kinds'[e] = pendingType' /\ kinds'[e] \in Types
    <3>1. CASE kind \in Types
      BY <1>1, <1>3, <1>8, <1>11, <1>12, <1>15, <3>1
    <3>2. CASE kind \notin Types
      BY <1>1, <1>3, <1>8, <1>11, <1>13, <1>15, <3>2 DEF IsUpsert
    <3>. QED BY <3>1, <3>2
  <2>2. \A e \in others' \cup conditionals' : e \in Events' /\ kinds'[e] \notin Types
    BY <1>3, <1>4, <1>6, <1>8, <1>11, <1>15 DEF IsUpsert
  <2>3. \A e \in conditionals' : kinds'[e] \in Updates
    BY <1>3, <1>5, <1>6, <1>8, <1>11, <1>15 DEF Moves
  <2>4. conditionals' # {} => AnyConditional'
    BY <1>5, <1>6, <1>11, <1>17 DEF Moves, AnyConditional
  <2>. QED BY <1>3, <1>7, <1>9, <2>1, <2>2, <2>3, <2>4 DEF KindsMatch, IsUpsert
<1>22. NoEventLost'
  <2>1. Events' \subseteq Delivered' \cup upserts' \cup others' \cup conditionals' \cup InHand'
                         \cup Gone'
    <3>1. Events \subseteq Delivered \cup upserts \cup others \cup conditionals \cup InHand \cup Gone
      BY DEF IInv, NoEventLost, Gone
    <3>2. upserts \cup others \cup conditionals \cup {n}
            \subseteq upserts' \cup held \cup rest \cup taken \cup dropped
      BY <1>5 DEF Moves
    <3>. QED BY <1>3, <1>6, <1>7, <1>14, <3>1, <3>2
  <2>2. ASSUME NEW e \in Lost'
        PROVE  IF kinds'[e] \in Types THEN e \in abandoned'
               ELSE kinds'[e] \in Updates /\ AnyConditional'
    <3>1. CASE e \in Lost
      <4>1. e \in Events
        BY <1>8, <3>1 DEF Lost
      <4>. QED BY <1>1, <1>3, <1>17, <3>1, <4>1 DEF IInv, NoEventLost, Updates
    <3>2. CASE e \in dropped
      <4>1. /\ e \in others \cup conditionals /\ kinds[e] \in Updates
            /\ conditionals # {} \/ kind = "conditional"
        BY <1>5, <3>2 DEF Moves
      <4>2. AnyConditional'
        BY <1>11, <1>17, <4>1 DEF AnyConditional
      <4>. QED BY <1>3, <1>8, <1>11, <4>1, <4>2 DEF IsUpsert
    <3>. QED BY <1>1, <1>6, <2>2, <3>1, <3>2 DEF Lost
  <2>. QED BY <2>1, <2>2 DEF NoEventLost, Gone, Updates, AnyConditional
<1>23. DeliveredOnceInOrder'
  <2>1. Delivered' \cap Gone' = {}
    BY <1>4, <1>7, <1>14
  <2>2. \A i \in DOMAIN log : log[i] \subseteq Events
    BY <1>2 DEF TypeOK
  <2>. QED BY <1>1, <1>3, <2>1, <2>2 DEF IInv, DeliveredOnceInOrder, UpsertsOf, Gone
<1>. QED BY <1>18, <1>19, <1>20, <1>21, <1>22, <1>23 DEF IInv

(* The event is delivered at once. *)
LEMMA EmitDelivered ==
  ASSUME IInv, ListenersOnlyEmit, NEW kind \in Kinds, Emit(kind), ~(buffering /\ kind # "status")
  PROVE  IInv'
<1>. DEFINE n == Len(kinds) + 1
            f == Frame("direct", n, {})
<1>1. /\ Deliver({n}, f, frames)
      /\ hasPending' = (hasPending /\ ~TypeChanges(kind))
      /\ ~Releases(kind) /\ Emitted(kind)
      /\ UNCHANGED <<upserts, others, conditionals, pendingType, fates, throwVars, buffering,
                     bufferCount, bufferTimer, flushTimer, work, calls>>
  BY DEF Emit, AppendOrDeliver, Emitted, bufferVars, timers
<1>2. TypeOK /\ BufferAssumption /\ ~(buffering /\ kind # "status")
  BY BufferAssumption DEF IInv
<1>3. /\ kinds' \in Seq(Kinds) /\ Len(kinds') <= MaxEvents /\ kinds'[n] = kind
      /\ \A d \in Events : kinds'[d] = kinds[d]
      /\ Events' = Events \cup {n} /\ n \in Nat
      /\ kind \in Types => Idle
  BY <1>1, <1>2, EmittedFacts
<1>4. /\ Delivered \subseteq Events /\ n \notin Events /\ \A d \in Events : d < n
      /\ Delivered \cap Gone = {} /\ Gone \subseteq Events
  BY NextEventIsNew
<1>5. /\ upserts \subseteq Events /\ others \subseteq Events /\ conditionals \subseteq Events
      /\ repeatable \subseteq Events
  BY <1>2 DEF TypeOK
<1>6. f \in Frames /\ f.call = "direct" /\ f.event = n /\ f.next = {}
  BY <1>3, FrameType
<1>. HIDE DEF f
<1>7. log' = Append(log, {n}) /\ frames' = Append(frames, f)
  BY <1>1 DEF Deliver
<1>8. log \in Seq(SUBSET Events) /\ frames \in Seq(Frames)
  BY <1>2 DEF TypeOK
<1>9. Delivered' = Delivered \cup {n}
  BY <1>7, <1>8, DeliverAdds
<1>10. /\ frames' \in Seq(Frames) /\ frames' # <<>>
       /\ \A i \in DOMAIN frames : i \in DOMAIN frames' /\ frames'[i] = frames[i]
       /\ frames'[Len(frames) + 1] = f
       /\ \A i \in DOMAIN frames' : i \in DOMAIN frames \/ i = Len(frames) + 1
       /\ frames # <<>> => frames'[1] = frames[1]
       /\ frames = <<>> => frames'[1] = f
  BY <1>6, <1>7, <1>8, Pushed
<1>11. InFlush' = InFlush /\ InRelease' = InRelease /\ CarriedOver' = CarriedOver
  BY <1>6, <1>10 DEF InFlush, InRelease, CarriedOver
<1>12. InHand \subseteq InHand'
  BY <1>10 DEF InHand
<1>13. kind \in Types => upserts \subseteq repeatable /\ ~InRelease
  <2>1. kind \in Types => Idle /\ kind # "status"
    BY <1>2, <1>3 DEF BufferAssumption, OtherKinds
  <2>. QED BY <1>2, <2>1, IdleFacts
<1>14. \A e \in upserts : ~TypeChanges(kind)
  BY <1>1 DEF Releases
<1>. HIDE DEF n
<1>21. /\ UNCHANGED <<withdrawn, swallowed, abandoned, repeatable, Gone, Lost>>
       /\ AnyConditional => AnyConditional'
  BY <1>1, <1>3 DEF fates, throwVars, Gone, Lost, AnyConditional
<1>15. TypeOK'
  <2>1. log' \in Seq(SUBSET Events')
    <3>1. log \in Seq(SUBSET (Events')) /\ {n} \in SUBSET (Events')
      BY <1>3, <1>8
    <3>. QED BY <1>7, <3>1
  <2>2. hasPending' \in BOOLEAN
    BY <1>1, <1>2 DEF TypeOK
  <2>. QED BY <1>1, <1>2, <1>3, <1>5, <1>10, <1>21, <2>1, <2>2 DEF TypeOK
<1>16. StackMatches'
  <2>1. ASSUME NEW i \in DOMAIN frames'
        PROVE  /\ frames'[i].call # "direct" => i = 1
               /\ frames'[i].call = "direct" => frames'[i].event \in Delivered'
               /\ IF frames'[i].call = "flush" THEN frames'[i].event = 0 ELSE frames'[i].next = {}
    BY <1>6, <1>9, <1>10 DEF IInv, StackMatches
  <2>2. InRelease => frames'[1] = frames[1] /\ frames[1].event # n
    BY <1>4, <1>10 DEF InRelease, IInv, StackMatches
  <2>3. InRelease => /\ upserts \subseteq Delivered'
                     /\ frames[1].event \in Events' /\ kinds'[frames[1].event] \in Types
                     /\ frames[1].event \notin Delivered' \cup Gone
                     /\ \A d \in Delivered' : kinds'[d] \in Types => d < frames[1].event
    BY <1>3, <1>4, <1>9, <1>13, <2>2 DEF IInv, StackMatches, IsUpsert
  <2>. QED BY <1>1, <1>9, <1>11, <1>21, <2>1, <2>2, <2>3 DEF IInv, StackMatches, IsUpsert
<1>17. BufferedOnce'
  <2>1. \A d \in Delivered', e \in upserts :
          kinds'[d] \in Types => (d \in Delivered /\ IsUpsert(d)) \/ e \in repeatable
    BY <1>3, <1>4, <1>9, <1>13 DEF IsUpsert
  <2>2. CarriedOver \subseteq Events
    BY DEF IInv, KindsMatch
  <2>. QED BY <1>1, <1>4, <1>5, <1>9, <1>11, <1>21, <2>1, <2>2 DEF IInv, BufferedOnce, IsUpsert
<1>18. KindsMatch'
  <2>1. CarriedOver \subseteq Events
    BY DEF IInv, KindsMatch
  <2>. QED BY <1>1, <1>3, <1>4, <1>5, <1>11, <1>14, <1>21, <2>1 DEF IInv, KindsMatch, IsUpsert
<1>19. NoEventLost'
  <2>1. Events' \subseteq Delivered' \cup upserts' \cup others' \cup conditionals' \cup InHand'
                         \cup Gone'
    BY <1>1, <1>3, <1>9, <1>12, <1>21 DEF IInv, NoEventLost, Gone
  <2>. QED BY <1>3, <1>21, <2>1, LostStays
<1>20. DeliveredOnceInOrder'
  <2>1. {n} \cap (Delivered \cup Gone) = {}
    BY <1>4, <1>5
  <2>2. \A d, e \in {n} : kinds'[d] \in Types /\ kinds'[e] \in Types => kinds'[d] = kinds'[e]
    OBVIOUS
  <2>3. \A d \in Delivered, e \in {n} : IsUpsert(d) /\ kinds'[e] \in Types => d < e
    BY <1>4
  <2>. QED BY <1>1, <1>3, <1>7, <2>1, <2>2, <2>3, DeliveredStays
<1>. QED BY <1>15, <1>16, <1>17, <1>18, <1>19, <1>20 DEF IInv

(* The pending upserts are delivered first. *)
LEMMA EmitReleases ==
  ASSUME IInv, ListenersOnlyEmit, NEW kind \in Kinds, EmitReleasing(kind)
  PROVE  IInv'
<1>. DEFINE n == Len(kinds) + 1
            f == Frame("release", n, {})
<1>1. /\ Deliver(upserts, f, frames)
      /\ Releases(kind) /\ Emitted(kind)
      /\ UNCHANGED <<upserts, others, conditionals, hasPending, pendingType, fates, throwVars,
                     buffering, bufferCount, bufferTimer, flushTimer, work, calls>>
  BY DEF EmitReleasing, Emitted, data, pendingVars, bufferVars, timers
<1>2. TypeOK /\ BufferAssumption /\ kind \in Types /\ upserts # {}
  BY <1>1, BufferAssumption DEF IInv, Releases, TypeChanges
<1>3. /\ kinds' \in Seq(Kinds) /\ Len(kinds') <= MaxEvents /\ kinds'[n] = kind
      /\ \A d \in Events : kinds'[d] = kinds[d]
      /\ Events' = Events \cup {n} /\ n \in Nat
      /\ Idle
  BY <1>1, <1>2, EmittedFacts
<1>4. /\ Delivered \subseteq Events /\ n \notin Events /\ \A d \in Events : d < n
      /\ Delivered \cap Gone = {} /\ Gone \subseteq Events
  BY NextEventIsNew
<1>5. /\ upserts \subseteq Events /\ others \subseteq Events /\ conditionals \subseteq Events
      /\ repeatable \subseteq Events
  BY <1>2 DEF TypeOK
<1>6. f \in Frames /\ f.call = "release" /\ f.event = n /\ f.next = {}
  BY <1>3, FrameType
<1>. HIDE DEF f
<1>7. log' = Append(log, upserts) /\ frames' = Append(frames, f) /\ frames = <<>>
  BY <1>1, <1>3 DEF Deliver, Idle
<1>8. log \in Seq(SUBSET Events) /\ frames \in Seq(Frames)
  BY <1>2 DEF TypeOK
<1>9. Delivered' = Delivered \cup upserts
  BY <1>7, <1>8, DeliverAdds
<1>10. frames' \in Seq(Frames) /\ frames' # <<>> /\ frames'[1] = f /\ DOMAIN frames' = {1}
  BY <1>6, <1>7, <1>8, Pushed
<1>11. ~InFlush' /\ InRelease' /\ CarriedOver' = {}
  BY <1>6, <1>10 DEF InFlush, InRelease, CarriedOver
<1>12. /\ CarriedOver = {} /\ InHand = {} /\ ~InFlush
       /\ upserts \cap Delivered \subseteq repeatable
       /\ upserts \cap Gone = {}
       /\ \A d \in Delivered, e \in upserts : IsUpsert(d) => d < e \/ e \in repeatable
  BY <1>2, <1>3, IdleFacts
<1>13. \A e \in upserts : kinds[e] = pendingType /\ IsUpsert(e)
  BY DEF IInv, KindsMatch
<1>14. \A e \in others \cup conditionals : ~IsUpsert(e)
  BY DEF IInv, KindsMatch
<1>15. n \in InHand'
  BY <1>6, <1>10 DEF InHand
<1>. HIDE DEF n
<1>22. /\ UNCHANGED <<withdrawn, swallowed, abandoned, repeatable, Gone, Lost>>
       /\ AnyConditional => AnyConditional'
  BY <1>1, <1>3 DEF fates, throwVars, Gone, Lost, AnyConditional
<1>16. TypeOK'
  <2>1. log' \in Seq(SUBSET Events')
    <3>1. log \in Seq(SUBSET (Events')) /\ upserts \in SUBSET (Events')
      BY <1>3, <1>5, <1>8
    <3>. QED BY <1>7, <3>1
  <2>. QED BY <1>1, <1>2, <1>3, <1>5, <1>10, <1>22, <2>1 DEF TypeOK
<1>17. StackMatches'
  <2>1. n \notin Delivered' \cup Gone /\ \A d \in Delivered' : d < n
    BY <1>4, <1>5, <1>9
  <2>. QED BY <1>1, <1>2, <1>3, <1>6, <1>9, <1>10, <1>11, <1>12, <1>22, <2>1 DEF StackMatches, IsUpsert
<1>18. BufferedOnce'
  BY <1>1, <1>5, <1>9, <1>11, <1>12, <1>13, <1>14, <1>22 DEF IInv, BufferedOnce, IsUpsert
<1>19. KindsMatch'
  BY <1>1, <1>3, <1>5, <1>11, <1>12, <1>22 DEF IInv, KindsMatch, IsUpsert
<1>20. NoEventLost'
  <2>1. Events' \subseteq Delivered' \cup upserts' \cup others' \cup conditionals' \cup InHand'
                         \cup Gone'
    BY <1>1, <1>3, <1>9, <1>12, <1>15, <1>22 DEF IInv, NoEventLost, Gone
  <2>. QED BY <1>3, <1>22, <2>1, LostStays
<1>21. DeliveredOnceInOrder'
  BY <1>1, <1>3, <1>5, <1>7, <1>12, <1>13, DeliveredStays
<1>. QED BY <1>16, <1>17, <1>18, <1>19, <1>20, <1>21 DEF IInv

-----------------------------------------------------------------------------
(* flush() *)

(* The buffer stops, and there is nothing to deliver. *)
LEMMA ReleaseNothing ==
  ASSUME IInv, Idle, Release, Consolidated = {}, calls' \in Nat
  PROVE  IInv'
<1>1. /\ buffering' = FALSE /\ bufferCount' = 0 /\ bufferTimer' = "none" /\ flushTimer' = "none"
      /\ hasPending' = FALSE /\ upserts = {} /\ others = {}
      /\ UNCHANGED <<upserts, others, conditionals, log, frames, kinds, pendingType, work>>
      /\ UNCHANGED <<withdrawn, swallowed, abandoned, repeatable>>
  BY DEF Release, StopBuffering, Consolidated, data, fates, throwVars
<1>2. UNCHANGED <<Delivered, Events, InHand, InFlush, InRelease, CarriedOver, Gone, Lost, AnyConditional>>
  BY <1>1 DEF Delivered, Events, InHand, InFlush, InRelease, CarriedOver, Gone, Lost, AnyConditional
<1>3. ~InFlush /\ ~InRelease
  BY IdleFacts
<1>4. TypeOK'
  BY <1>1, <1>2 DEF IInv, TypeOK
<1>5. StackMatches' /\ BufferedOnce' /\ KindsMatch'
  BY <1>1, <1>2, <1>3 DEF IInv, StackMatches, BufferedOnce, KindsMatch, IsUpsert
<1>6. NoEventLost'
  BY <1>1, <1>2 DEF IInv, NoEventLost
<1>7. DeliveredOnceInOrder'
  BY <1>1, <1>2 DEF IInv, DeliveredOnceInOrder, UpsertsOf
<1>. QED BY <1>4, <1>5, <1>6, <1>7 DEF IInv

(* What is buffered is delivered, the undecided updates kept for later. *)
LEMMA ReleaseData ==
  ASSUME IInv, Idle, Release, Consolidated # {}, calls' \in Nat
  PROVE  IInv'
<1>. DEFINE f == Frame("flush", 0, conditionals)
<1>1. /\ Deliver(Consolidated, f, frames)
      /\ buffering' = FALSE /\ bufferCount' = 0 /\ bufferTimer' = "none" /\ flushTimer' = "none"
      /\ conditionals' = {}
      /\ UNCHANGED <<upserts, others, hasPending, kinds, pendingType, fates, throwVars, work>>
  BY DEF Release, StopBuffering
<1>2. TypeOK
  BY DEF IInv
<1>3. /\ Delivered \subseteq Events /\ Delivered \cap Gone = {}
      /\ Events' = Events /\ \A d \in Events : kinds'[d] = kinds[d]
  BY <1>1, NextEventIsNew DEF Events
<1>4. /\ upserts \subseteq Events /\ others \subseteq Events /\ conditionals \subseteq Events
      /\ repeatable \subseteq Events /\ Events \subseteq 1..MaxEvents
  <2>1. Events \subseteq 1..MaxEvents
    BY <1>2, BufferAssumption DEF TypeOK, Events, IInv, KindsMatch, BufferAssumption
  <2>. QED BY <1>2, <2>1 DEF TypeOK
<1>5. f \in Frames /\ f.call = "flush" /\ f.event = 0 /\ f.next = conditionals
  <2>1. conditionals \in SUBSET (1..MaxEvents) /\ "flush" \in {"direct", "release", "flush"} /\ 0 \in Nat
    BY <1>4
  <2>. QED BY <2>1, FrameType
<1>. HIDE DEF f
<1>6. log' = Append(log, Consolidated) /\ frames' = Append(frames, f) /\ frames = <<>>
  BY <1>1 DEF Deliver, Idle
<1>7. log \in Seq(SUBSET Events) /\ frames \in Seq(Frames)
  BY <1>2 DEF TypeOK
<1>8. Delivered' = Delivered \cup upserts \cup others
  <2>1. Delivered' = Delivered \cup Consolidated
    BY <1>6, <1>7, DeliverAdds
  <2>. QED BY <2>1 DEF Consolidated
<1>9. frames' \in Seq(Frames) /\ frames' # <<>> /\ frames'[1] = f /\ DOMAIN frames' = {1}
  BY <1>5, <1>6, <1>7, Pushed
<1>10. InFlush' /\ ~InRelease' /\ CarriedOver' = conditionals /\ conditionals \subseteq InHand'
  BY <1>5, <1>9 DEF InFlush, InRelease, CarriedOver, InHand
<1>11. /\ CarriedOver = {} /\ InHand = {} /\ ~InFlush /\ ~InRelease
       /\ upserts \cap Delivered \subseteq repeatable
       /\ others \cap Delivered \subseteq repeatable
       /\ (upserts \cup others) \cap Gone = {}
       /\ \A d \in Delivered, e \in upserts : IsUpsert(d) => d < e \/ e \in repeatable
  BY IdleFacts
<1>12. \A e \in upserts : kinds[e] = pendingType /\ IsUpsert(e)
  BY DEF IInv, KindsMatch
<1>13. \A e \in others \cup conditionals : ~IsUpsert(e)
  BY DEF IInv, KindsMatch
<1>20. UNCHANGED <<withdrawn, swallowed, abandoned, repeatable, Gone, Lost, AnyConditional>>
  BY <1>1, <1>3 DEF fates, throwVars, Gone, Lost, AnyConditional
<1>14. TypeOK'
  <2>1. log' \in Seq(SUBSET Events')
    <3>1. log \in Seq(SUBSET (Events')) /\ Consolidated \in SUBSET (Events')
      BY <1>3, <1>4, <1>7 DEF Consolidated
    <3>. QED BY <1>6, <3>1
  <2>. QED BY <1>1, <1>2, <1>3, <1>4, <1>9, <1>20, <2>1 DEF TypeOK
<1>15. StackMatches'
  BY <1>1, <1>5, <1>8, <1>9, <1>10 DEF StackMatches
<1>16. BufferedOnce'
  BY <1>1, <1>8, <1>10, <1>11, <1>12, <1>13, <1>20 DEF IInv, BufferedOnce
<1>17. KindsMatch'
  BY <1>1, <1>3, <1>10, <1>11, <1>20 DEF IInv, KindsMatch, IsUpsert
<1>18. NoEventLost'
  BY <1>1, <1>3, <1>8, <1>10, <1>11, <1>20 DEF IInv, NoEventLost
<1>19. DeliveredOnceInOrder'
  <2>1. \A e \in Consolidated : kinds'[e] \in Types => e \in upserts
    BY <1>1, <1>13 DEF Consolidated, IsUpsert
  <2>2. Consolidated \cap Gone = {} /\ Consolidated \cap Delivered \subseteq repeatable
    BY <1>11 DEF Consolidated
  <2>3. \A d, e \in Consolidated : kinds'[d] \in Types /\ kinds'[e] \in Types => kinds'[d] = kinds'[e]
    BY <1>1, <1>12, <2>1
  <2>4. \A d \in Delivered, e \in Consolidated :
          IsUpsert(d) /\ kinds'[e] \in Types => d < e \/ e \in repeatable
    BY <1>11, <2>1
  <2>. QED BY <1>1, <1>3, <1>6, <2>2, <2>3, <2>4, DeliveredStays
<1>. QED BY <1>14, <1>15, <1>16, <1>17, <1>18, <1>19 DEF IInv

-----------------------------------------------------------------------------
(* A delivery returns. *)

(* A flush or a release that returns leaves no call on the stack. *)
LEMMA OuterReturns ==
  ASSUME IInv, ~Idle, Top.call # "direct", frames' = Below
  PROVE  /\ frames' = <<>> /\ frames' \in Seq(Frames) /\ Top = frames[1] /\ DOMAIN frames = {1}
         /\ ~InFlush' /\ ~InRelease' /\ CarriedOver' = {} /\ InHand' = {}
         /\ InHand = {frames[1].event} \cup frames[1].next
<1>1. frames \in Seq(Frames)
  BY DEF IInv, TypeOK
<1>2. Len(frames) = 1
  BY <1>1, Popped DEF IInv, StackMatches, Top
<1>3. frames' = <<>> /\ Top = frames[1] /\ DOMAIN frames = {1} /\ frames' \in Seq(Frames)
  BY <1>1, <1>2, Popped DEF Below, Top
<1>4. ~InFlush' /\ ~InRelease' /\ CarriedOver' = {}
  BY <1>3 DEF InFlush, InRelease, CarriedOver
<1>5. InHand' = {} /\ InHand = {frames[1].event} \cup frames[1].next
  BY <1>3 DEF InHand
<1>. QED BY <1>3, <1>4, <1>5

LEMMA DirectReturn ==
  ASSUME IInv, DirectReturns
  PROVE  IInv'
<1>1. /\ ~Idle /\ Top.call = "direct" /\ frames' = Below
      /\ UNCHANGED <<kinds, upserts, others, conditionals, buffering, bufferCount, bufferTimer,
                     flushTimer, hasPending, pendingType, work, log, calls>>
      /\ UNCHANGED <<withdrawn, swallowed, abandoned, repeatable>>
  BY DEF DirectReturns, data, bufferVars, timers, pendingVars, fates, throwVars
<1>2. frames \in Seq(Frames)
  BY DEF IInv, TypeOK
<1>3. /\ frames' \in Seq(Frames)
      /\ \A i \in DOMAIN frames' : i \in DOMAIN frames /\ frames'[i] = frames[i]
      /\ Len(frames) \in DOMAIN frames /\ Top = frames[Len(frames)]
      /\ \A i \in DOMAIN frames : i \in DOMAIN frames' \/ i = Len(frames)
      /\ frames' # <<>> => frames'[1] = frames[1]
      /\ frames' = <<>> => Len(frames) = 1
  BY <1>1, <1>2, Popped DEF Top
<1>4. UNCHANGED <<Delivered, Events, Gone, Lost, AnyConditional>>
  BY <1>1 DEF Delivered, Events, Gone, Lost, AnyConditional
<1>5. InFlush' = InFlush /\ InRelease' = InRelease /\ CarriedOver' = CarriedOver
  <2>1. CASE frames' = <<>>
    <3>1. frames[1].call = "direct"
      BY <1>1, <1>3, <2>1
    <3>. QED BY <2>1, <3>1 DEF InFlush, InRelease, CarriedOver
  <2>2. CASE frames' # <<>>
    BY <1>1, <1>3, <2>2 DEF InFlush, InRelease, CarriedOver, Idle
  <2>. QED BY <2>1, <2>2
<1>6. InHand \subseteq InHand' \cup Delivered
  <2>1. Top.event \in Delivered /\ Top.next = {}
    BY <1>1, <1>3 DEF IInv, StackMatches
  <2>2. ASSUME NEW i \in DOMAIN frames
        PROVE  frames[i].event \in InHand' \cup Delivered /\ frames[i].next \subseteq InHand'
    <3>1. CASE i = Len(frames)
      BY <1>3, <2>1, <3>1
    <3>2. CASE i \in DOMAIN frames'
      BY <1>3, <3>2 DEF InHand
    <3>. QED BY <1>3, <3>1, <3>2
  <2>. QED BY <2>2 DEF InHand
<1>7. TypeOK'
  BY <1>1, <1>3, <1>4 DEF IInv, TypeOK
<1>8. StackMatches'
  <2>1. \A i \in DOMAIN frames' :
          /\ frames'[i].call # "direct" => i = 1
          /\ frames'[i].call = "direct" => frames'[i].event \in Delivered
          /\ IF frames'[i].call = "flush" THEN frames'[i].event = 0 ELSE frames'[i].next = {}
    BY <1>3 DEF IInv, StackMatches
  <2>2. InRelease => frames'[1] = frames[1]
    BY <1>3, <1>5 DEF InRelease
  <2>. QED BY <1>1, <1>4, <1>5, <2>1, <2>2 DEF IInv, StackMatches, IsUpsert
<1>9. BufferedOnce' /\ KindsMatch'
  BY <1>1, <1>4, <1>5 DEF IInv, BufferedOnce, KindsMatch, IsUpsert
<1>10. NoEventLost'
  BY <1>1, <1>4, <1>6 DEF IInv, NoEventLost
<1>11. DeliveredOnceInOrder'
  BY <1>1, <1>4 DEF IInv, DeliveredOnceInOrder, UpsertsOf
<1>. QED BY <1>7, <1>8, <1>9, <1>10, <1>11 DEF IInv

LEMMA FlushReturn ==
  ASSUME IInv, FlushReturns
  PROVE  IInv'
<1>1. /\ ~Idle /\ Top.call = "flush" /\ frames' = Below
      /\ upserts' = {} /\ others' = {} /\ conditionals' = Top.next /\ hasPending' = FALSE
      /\ UNCHANGED <<kinds, buffering, bufferCount, bufferTimer, flushTimer, pendingType, work,
                     log, withdrawn, swallowed, abandoned, repeatable, calls>>
  BY DEF FlushReturns, bufferVars, timers, fates, throwVars
<1>2. /\ frames' = <<>> /\ frames' \in Seq(Frames) /\ Top = frames[1] /\ DOMAIN frames = {1}
      /\ ~InFlush' /\ ~InRelease' /\ CarriedOver' = {} /\ InHand' = {}
      /\ InHand = {frames[1].event} \cup frames[1].next
  BY <1>1, OuterReturns
<1>3. UNCHANGED <<Delivered, Events, Gone, Lost, AnyConditional>>
  BY <1>1 DEF Delivered, Events, Gone, Lost, AnyConditional
<1>4. InFlush /\ CarriedOver = Top.next
  BY <1>1, <1>2 DEF InFlush, CarriedOver, Idle
<1>5. Top.next \subseteq Events
  BY <1>4 DEF IInv, KindsMatch
<1>6. TypeOK'
  BY <1>1, <1>2, <1>3, <1>5 DEF IInv, TypeOK
<1>7. StackMatches' /\ BufferedOnce' /\ KindsMatch'
  BY <1>1, <1>2, <1>3, <1>4 DEF IInv, StackMatches, BufferedOnce, KindsMatch, IsUpsert
<1>8. NoEventLost'
  <2>1. upserts \subseteq Delivered /\ others \subseteq Delivered /\ conditionals = {}
    BY <1>4 DEF IInv, StackMatches
  <2>2. frames[1].event = 0 /\ 0 \notin Events
    BY <1>1, <1>2 DEF IInv, StackMatches, Events
  <2>. QED BY <1>1, <1>2, <1>3, <2>1, <2>2 DEF IInv, NoEventLost
<1>9. DeliveredOnceInOrder'
  BY <1>1, <1>3 DEF IInv, DeliveredOnceInOrder, UpsertsOf
<1>. QED BY <1>6, <1>7, <1>8, <1>9 DEF IInv

(* A flush that ends in an exception: what was delivered stays in `data`,  *)
(* and what was carried over is lost.                                      *)
LEMMA FlushThrow ==
  ASSUME IInv, FlushThrows
  PROVE  IInv'
<1>1. /\ ~Idle /\ Top.call = "flush" /\ frames' = Below
      /\ abandoned' = abandoned \cup Top.next
      /\ repeatable' = repeatable \cup ((upserts \cup others) \cap Delivered)
      /\ UNCHANGED <<kinds, upserts, others, conditionals, buffering, bufferCount, bufferTimer,
                     flushTimer, hasPending, pendingType, work, log, withdrawn, swallowed, calls>>
  BY DEF FlushThrows, data, bufferVars, timers, pendingVars, fates
<1>2. /\ frames' = <<>> /\ frames' \in Seq(Frames) /\ Top = frames[1] /\ DOMAIN frames = {1}
      /\ ~InFlush' /\ ~InRelease' /\ CarriedOver' = {} /\ InHand' = {}
      /\ InHand = {frames[1].event} \cup frames[1].next
  BY <1>1, OuterReturns
<1>3. UNCHANGED <<Delivered, Events, AnyConditional>>
  BY <1>1 DEF Delivered, Events, AnyConditional
<1>4. InFlush /\ CarriedOver = Top.next
  BY <1>1, <1>2 DEF InFlush, CarriedOver, Idle
<1>5. /\ Top.next \subseteq Events /\ \A e \in Top.next : ~IsUpsert(e) /\ kinds[e] \in Updates
      /\ Top.next # {} => AnyConditional
      /\ Top.next \cap (Delivered \cup others) = {}
      /\ repeatable \subseteq Delivered /\ (upserts \cup others) \cap Gone = {}
      /\ \A e \in upserts : IsUpsert(e)
  BY <1>4 DEF IInv, KindsMatch, BufferedOnce
<1>6. conditionals = {} /\ ~buffering /\ upserts \subseteq Delivered /\ others \subseteq Delivered
  BY <1>4 DEF IInv, StackMatches
<1>7. Gone' = Gone \cup Top.next /\ Lost' = Lost \cup Top.next
  BY <1>1 DEF Gone, Lost
<1>8. upserts \cup others \subseteq repeatable' /\ repeatable' \subseteq Delivered
  BY <1>1, <1>5, <1>6
<1>9. TypeOK'
  BY <1>1, <1>2, <1>3, <1>5 DEF IInv, TypeOK
<1>10. StackMatches'
  BY <1>2 DEF StackMatches
<1>11. BufferedOnce'
  BY <1>1, <1>2, <1>3, <1>5, <1>6, <1>7, <1>8 DEF BufferedOnce
<1>12. KindsMatch'
  BY <1>1, <1>2, <1>3, <1>6 DEF IInv, KindsMatch, IsUpsert
<1>13. NoEventLost'
  <2>1. frames[1].event = 0 /\ 0 \notin Events
    BY <1>1, <1>2 DEF IInv, StackMatches, Events
  <2>2. Events \subseteq Delivered \cup upserts \cup others \cup conditionals \cup withdrawn \cup Lost'
    BY <1>2, <1>6, <1>7, <2>1 DEF IInv, NoEventLost
  <2>3. ASSUME NEW e \in Lost'
        PROVE  IF kinds[e] \in Types THEN e \in abandoned'
               ELSE kinds[e] \in Updates /\ AnyConditional
    BY <1>1, <1>5, <1>7, <2>3 DEF IInv, NoEventLost, IsUpsert, Updates, AnyConditional
  <2>. QED BY <1>1, <1>3, <2>2, <2>3 DEF NoEventLost, Updates, AnyConditional
<1>14. DeliveredOnceInOrder'
  <2>1. Delivered \cap Gone' = {}
    BY <1>5, <1>7 DEF IInv, DeliveredOnceInOrder, Gone
  <2>2. repeatable \subseteq repeatable'
    BY <1>1
  <2>. QED BY <1>1, <1>3, <2>1, <2>2 DEF IInv, DeliveredOnceInOrder, UpsertsOf, Gone
<1>. QED BY <1>9, <1>10, <1>11, <1>12, <1>13, <1>14 DEF IInv

(* The upsert that caused a release. *)
LEMMA InReleaseFacts ==
  ASSUME IInv, ~Idle, Top.call = "release"
  PROVE  /\ InRelease /\ ~InFlush /\ CarriedOver = {} /\ Top = frames[1] /\ InHand \subseteq {Top.event}
         /\ upserts \subseteq Delivered /\ Top.event \in Events /\ kinds[Top.event] \in Types
         /\ Top.event \notin Delivered \cup Gone
         /\ \A d \in Delivered : IsUpsert(d) => d < Top.event
<1>1. frames \in Seq(Frames)
  BY DEF IInv, TypeOK
<1>2. Len(frames) = 1
  <2>1. Len(frames) \in DOMAIN frames
    BY <1>1 DEF Idle
  <2>. QED BY <2>1 DEF IInv, StackMatches, Top
<1>3. /\ InRelease /\ frames[1] = Top /\ ~InFlush /\ CarriedOver = {} /\ DOMAIN frames = {1}
  BY <1>1, <1>2 DEF InRelease, InFlush, CarriedOver, Idle, Top
<1>4. InHand \subseteq {Top.event}
  BY <1>3 DEF InHand, IInv, StackMatches
<1>. QED BY <1>3, <1>4 DEF IInv, StackMatches, IsUpsert

(* It is buffered in its turn. *)
LEMMA ReleaseBuffers ==
  ASSUME IInv, ReleaseReturns, buffering
  PROVE  IInv'
<1>. DEFINE e == Top.event
            kind == kinds[e]
<1>1. /\ ~Idle /\ Top.call = "release"
      /\ AppendOrDeliver(e, kind, Below, {}, FALSE)
      /\ UNCHANGED <<kinds, buffering, bufferCount, bufferTimer, flushTimer, work, calls,
                     abandoned, repeatable>>
  BY DEF ReleaseReturns, bufferVars, timers, throwVars
<1>2. /\ InRelease /\ ~InFlush /\ CarriedOver = {} /\ InHand \subseteq {e}
      /\ upserts \subseteq Delivered /\ e \in Events /\ kind \in Types
      /\ e \notin Delivered \cup Gone /\ \A d \in Delivered : IsUpsert(d) => d < e
  BY <1>1, InReleaseFacts
<1>3. kind \notin OtherKinds
  BY <1>2, BufferAssumption DEF BufferAssumption
<1>. HIDE DEF e, kind
<1>4. /\ BufferEvent(e, kind, {}) /\ frames' = Below /\ log' = log
      /\ hasPending' = TRUE /\ pendingType' = kind
  BY <1>1, <1>2, <1>3 DEF AppendOrDeliver, OtherKinds
<1>5. upserts' = {e} /\ Keeps(conditionals, others, {}, {})
  BY <1>2, <1>3, <1>4 DEF BufferEvent, OtherKinds, ChatKinds
<1>6. UNCHANGED <<conditionals, others, withdrawn, swallowed>>
  BY <1>5 DEF Keeps
<1>7. /\ frames' = <<>> /\ frames' \in Seq(Frames)
      /\ ~InFlush' /\ ~InRelease' /\ CarriedOver' = {} /\ InHand' = {}
  BY <1>1, <1>4, OuterReturns
<1>8. UNCHANGED <<Delivered, Events, Gone, Lost, AnyConditional>>
  BY <1>1, <1>4, <1>6 DEF Delivered, Events, Gone, Lost, AnyConditional
<1>9. TypeOK'
  BY <1>1, <1>2, <1>4, <1>5, <1>6, <1>7, <1>8 DEF IInv, TypeOK
<1>10. StackMatches'
  BY <1>7 DEF StackMatches
<1>11. KindsMatch'
  BY <1>1, <1>2, <1>4, <1>5, <1>6, <1>7, <1>8 DEF IInv, KindsMatch, IsUpsert, kind
<1>12. BufferedOnce'
  BY <1>1, <1>2, <1>5, <1>6, <1>7, <1>8 DEF IInv, BufferedOnce, IsUpsert
<1>13. NoEventLost'
  BY <1>1, <1>2, <1>5, <1>6, <1>7, <1>8 DEF IInv, NoEventLost
<1>14. DeliveredOnceInOrder'
  BY <1>1, <1>4, <1>6, <1>8 DEF IInv, DeliveredOnceInOrder, UpsertsOf
<1>. QED BY <1>9, <1>10, <1>11, <1>12, <1>13, <1>14 DEF IInv

(* Or it is delivered, when the buffer is no longer buffering: what was    *)
(* released had been left by a listener that threw.                        *)
LEMMA ReleaseDelivers ==
  ASSUME IInv, ReleaseReturns, ~buffering
  PROVE  IInv'
<1>. DEFINE e == Top.event
            f == Frame("direct", e, {})
<1>1. /\ ~Idle /\ Top.call = "release"
      /\ Deliver({e}, f, Below) /\ upserts' = {} /\ hasPending' = FALSE
      /\ UNCHANGED <<kinds, buffering, bufferCount, bufferTimer, flushTimer, work, calls,
                     others, conditionals, pendingType, fates, throwVars>>
  BY DEF ReleaseReturns, AppendOrDeliver, bufferVars, timers
<1>2. /\ InRelease /\ ~InFlush /\ CarriedOver = {} /\ InHand \subseteq {e}
      /\ upserts \subseteq Delivered /\ e \in Events /\ kinds[e] \in Types
      /\ e \notin Delivered \cup Gone /\ \A d \in Delivered : IsUpsert(d) => d < e
  BY <1>1, InReleaseFacts
<1>3. UNCHANGED <<withdrawn, swallowed, abandoned, repeatable, Gone, Lost, Events, AnyConditional>>
  BY <1>1 DEF fates, throwVars, Gone, Lost, Events, AnyConditional
<1>4. log \in Seq(SUBSET Events) /\ frames \in Seq(Frames) /\ e \in Nat
  BY <1>2 DEF IInv, TypeOK, Events
<1>5. Below = <<>>
  <2>1. Len(frames) \in DOMAIN frames
    BY <1>1, <1>4 DEF Idle
  <2>2. Len(frames) = 1
    BY <1>1, <2>1 DEF IInv, StackMatches, Top
  <2>. QED BY <1>4, <2>2 DEF Below
<1>6. f \in Frames /\ f.call = "direct" /\ f.event = e /\ f.next = {}
  BY <1>4, FrameType
<1>. HIDE DEF e, f
<1>7. log' = Append(log, {e}) /\ frames' = <<f>>
  BY <1>1, <1>5 DEF Deliver
<1>8. Delivered' = Delivered \cup {e}
  BY <1>4, <1>7, DeliverAdds
<1>9. frames' \in Seq(Frames) /\ frames'[1] = f /\ DOMAIN frames' = {1}
  BY <1>6, <1>7
<1>10. ~InFlush' /\ ~InRelease' /\ CarriedOver' = {}
  BY <1>6, <1>9 DEF InFlush, InRelease, CarriedOver
<1>11. TypeOK'
  <2>1. log' \in Seq(SUBSET Events')
    <3>1. log \in Seq(SUBSET (Events')) /\ {e} \in SUBSET (Events')
      BY <1>2, <1>3, <1>4
    <3>. QED BY <1>7, <3>1
  <2>. QED BY <1>1, <1>3, <1>9, <2>1 DEF IInv, TypeOK
<1>12. StackMatches'
  BY <1>6, <1>8, <1>9, <1>10 DEF StackMatches
<1>13. BufferedOnce'
  <2>1. e \notin conditionals
    BY <1>2 DEF IInv, KindsMatch, IsUpsert
  <2>2. e \notin others
    BY <1>2 DEF IInv, KindsMatch, IsUpsert
  <2>. QED BY <1>1, <1>2, <1>3, <1>8, <1>10, <2>1, <2>2 DEF IInv, BufferedOnce
<1>14. KindsMatch'
  BY <1>1, <1>2, <1>3, <1>10 DEF IInv, KindsMatch, IsUpsert
<1>15. NoEventLost'
  BY <1>1, <1>2, <1>3, <1>8 DEF IInv, NoEventLost
<1>16. DeliveredOnceInOrder'
  <2>1. {e} \cap (Delivered \cup Gone) = {}
    BY <1>2
  <2>2. \A d \in Events : kinds'[d] = kinds[d]
    BY <1>1
  <2>3. \A d, c \in {e} : kinds'[d] \in Types /\ kinds'[c] \in Types => kinds'[d] = kinds'[c]
    OBVIOUS
  <2>4. \A d \in Delivered, c \in {e} :
          IsUpsert(d) /\ kinds'[c] \in Types => d < c \/ c \in repeatable
    BY <1>2
  <2>. QED BY <1>1, <1>7, <2>1, <2>2, <2>3, <2>4, DeliveredStays
<1>. QED BY <1>11, <1>12, <1>13, <1>14, <1>15, <1>16 DEF IInv

(* Or a listener throws, and it is never buffered. *)
LEMMA ReleaseThrow ==
  ASSUME IInv, ReleaseThrows
  PROVE  IInv'
<1>. DEFINE e == Top.event
<1>1. /\ ~Idle /\ Top.call = "release" /\ frames' = Below
      /\ abandoned' = abandoned \cup {e}
      /\ repeatable' = repeatable \cup (upserts \cap Delivered)
      /\ UNCHANGED <<kinds, upserts, others, conditionals, buffering, bufferCount, bufferTimer,
                     flushTimer, hasPending, pendingType, work, log, withdrawn, swallowed, calls>>
  BY DEF ReleaseThrows, data, bufferVars, timers, pendingVars, fates
<1>2. /\ InRelease /\ ~InFlush /\ CarriedOver = {} /\ InHand \subseteq {e}
      /\ upserts \subseteq Delivered /\ e \in Events /\ kinds[e] \in Types
      /\ e \notin Delivered \cup Gone
  BY <1>1, InReleaseFacts
<1>3. /\ frames' = <<>> /\ frames' \in Seq(Frames)
      /\ ~InFlush' /\ ~InRelease' /\ CarriedOver' = {} /\ InHand' = {}
  BY <1>1, OuterReturns
<1>. HIDE DEF e
<1>4. UNCHANGED <<Delivered, Events, AnyConditional>>
  BY <1>1 DEF Delivered, Events, AnyConditional
<1>5. Gone' = Gone \cup {e} /\ Lost' = Lost \cup {e}
  BY <1>1 DEF Gone, Lost
<1>6. \A c \in others \cup conditionals : c # e
  BY <1>2 DEF IInv, KindsMatch, IsUpsert
<1>7. TypeOK'
  BY <1>1, <1>2, <1>3, <1>4 DEF IInv, TypeOK
<1>8. StackMatches'
  BY <1>3 DEF StackMatches
<1>9. BufferedOnce'
  BY <1>1, <1>2, <1>3, <1>4, <1>5, <1>6 DEF IInv, BufferedOnce
<1>10. KindsMatch'
  BY <1>1, <1>2, <1>3, <1>4 DEF IInv, KindsMatch, IsUpsert
<1>11. NoEventLost'
  BY <1>1, <1>2, <1>4, <1>5 DEF IInv, NoEventLost
<1>12. DeliveredOnceInOrder'
  <2>1. Delivered \cap Gone' = {}
    BY <1>2, <1>5 DEF IInv, DeliveredOnceInOrder, Gone
  <2>2. repeatable \subseteq repeatable'
    BY <1>1
  <2>. QED BY <1>1, <1>4, <2>1, <2>2 DEF IInv, DeliveredOnceInOrder, UpsertsOf, Gone
<1>. QED BY <1>7, <1>8, <1>9, <1>10, <1>11, <1>12 DEF IInv

-----------------------------------------------------------------------------
(* The steps that touch no data *)

(* buffer() starts buffering, or adds to the count. *)
LEMMA StartType ==
  ASSUME TypeOK, StartBuffering, UNCHANGED <<kinds, data, pendingVars, frames, log, fates, throwVars>>,
         work' \in [Works -> {"idle", "running", "done"}], calls' \in Nat
  PROVE  TypeOK'
<1>1. /\ buffering' = TRUE /\ bufferTimer' = "armed" /\ flushTimer' = flushTimer /\ bufferCount' \in Nat
      /\ UNCHANGED <<upserts, others, conditionals, hasPending, pendingType>>
  BY DEF StartBuffering, TypeOK, data, pendingVars
<1>. QED BY <1>1 DEF TypeOK, Events, fates, throwVars

LEMMA NextIInv ==
  ASSUME IInv, ListenersOnlyEmit, Next
  PROVE  IInv'
<1>1. ASSUME NEW kind \in Kinds, Emit(kind) PROVE IInv'
  BY <1>1, EmitBuffered, EmitDelivered
<1>2. ASSUME NEW kind \in Kinds, EmitReleasing(kind) PROVE IInv'
  BY <1>2, EmitReleases
<1>3. ASSUME Idle, Release, calls' \in Nat PROVE IInv'
  BY <1>3, ReleaseNothing, ReleaseData
<1>4. CASE Flush
  <2>1. Idle /\ calls' \in Nat
    BY <1>4 DEF Flush, Callable, ListenersOnlyEmit, IInv, TypeOK
  <2>. QED BY <1>3, <1>4, <2>1 DEF Flush
<1>5. CASE Buffer
  <2>1. /\ Idle /\ calls' \in Nat /\ work' = work /\ StartBuffering
        /\ UNCHANGED <<kinds, data, pendingVars, frames, log, fates, throwVars>>
    BY <1>5 DEF Buffer, Callable, ListenersOnlyEmit, IInv, TypeOK
  <2>2. TypeOK'
    BY <2>1, StartType DEF IInv, TypeOK
  <2>. QED BY <2>1, <2>2, QuietStep DEF StartBuffering
<1>6. ASSUME NEW w \in Works, WorkStarts(w) PROVE IInv'
  <2>1. /\ Idle /\ calls' \in Nat /\ StartBuffering
        /\ work' \in [Works -> {"idle", "running", "done"}]
        /\ UNCHANGED <<kinds, data, pendingVars, frames, log, fates, throwVars>>
    BY <1>6 DEF WorkStarts, Callable, ListenersOnlyEmit, IInv, TypeOK
  <2>2. TypeOK'
    BY <2>1, StartType DEF IInv
  <2>. QED BY <2>1, <2>2, QuietStep DEF StartBuffering
<1>7. ASSUME NEW w \in Works, WorkSettles(w) PROVE IInv'
  <2>1. /\ UNCHANGED <<kinds, data, pendingVars, frames, log, fates, throwVars>>
        /\ buffering' = buffering
    BY <1>7 DEF WorkSettles
  <2>2. TypeOK'
    <3>1. /\ work' \in [Works -> {"idle", "running", "done"}]
          /\ bufferCount' \in Nat
          /\ flushTimer' \in {"none", "armed", "spent"}
      BY <1>7 DEF WorkSettles, IInv, TypeOK
    <3>2. UNCHANGED <<upserts, others, conditionals, hasPending, pendingType, bufferTimer, calls>>
      BY <1>7 DEF WorkSettles, data, pendingVars
    <3>. QED BY <2>1, <3>1, <3>2 DEF IInv, TypeOK, Events, fates, throwVars
  <2>. QED BY <2>1, <2>2, QuietStep
<1>8. CASE BufferTimeout
  BY <1>3, <1>8 DEF BufferTimeout, IInv, TypeOK
<1>9. CASE FlushTimeout
  <2>1. CASE buffering
    BY <1>3, <1>9, <2>1 DEF FlushTimeout, IInv, TypeOK
  <2>2. CASE ~buffering
    <3>1. /\ UNCHANGED <<kinds, data, pendingVars, frames, log, fates, throwVars>>
          /\ flushTimer' = "spent"
          /\ UNCHANGED <<buffering, bufferCount, bufferTimer, work, calls>>
      BY <1>9, <2>2 DEF FlushTimeout
    <3>2. TypeOK'
      BY <3>1 DEF IInv, TypeOK, Events, data, pendingVars, fates, throwVars
    <3>. QED BY <3>1, <3>2, QuietStep
  <2>. QED BY <2>1, <2>2
<1>10. CASE Return
  BY <1>10, DirectReturn, ReleaseBuffers, ReleaseDelivers, ReleaseThrow, FlushReturn, FlushThrow
     DEF Return
<1>. QED BY <1>1, <1>2, <1>4, <1>5, <1>6, <1>7, <1>8, <1>9, <1>10 DEF Next

LEMMA StutterIInv ==
  ASSUME IInv, UNCHANGED vars
  PROVE  IInv'
<1>1. /\ UNCHANGED <<kinds, data, pendingVars, frames, log, fates, throwVars>>
      /\ UNCHANGED <<buffering, bufferCount, bufferTimer, flushTimer, work, calls>>
  BY DEF vars, bufferVars, timers
<1>2. TypeOK'
  BY <1>1 DEF IInv, TypeOK, Events, data, pendingVars, fates, throwVars
<1>. QED BY <1>1, <1>2, QuietStep

(* What every reachable state of the buffer satisfies. *)
THEOREM Invariance == ListenersOnlyEmit => (Spec => []IInv)
<1>. SUFFICES ASSUME ListenersOnlyEmit PROVE Spec => []IInv
  OBVIOUS
<1>1. IInv /\ [Next]_vars => IInv'
  BY NextIInv, StutterIInv
<1>. QED BY InitIInv, <1>1, PTL DEF Spec

(* The variables of the buffer keep their types. *)
THEOREM TypeCorrect == ListenersOnlyEmit => (Spec => []TypeOK)
<1>1. IInv => TypeOK
  BY DEF IInv
<1>. QED BY Invariance, <1>1, PTL

(* Every event that was emitted is delivered, still buffered, in the hands *)
(* of a call that has not returned, or was taken back by a later event.    *)
(* The code loses two sorts besides: the upsert whose release a listener   *)
(* broke off by throwing, and updates of a chat that a conditional update  *)
(* replaced or held back until its condition failed or a listener threw.   *)
THEOREM EventsAreKept == ListenersOnlyEmit => (Spec => []NoEventLost)
<1>1. IInv => NoEventLost
  BY DEF IInv
<1>. QED BY Invariance, <1>1, PTL

(* No event is delivered after it was taken back or lost, a batch has      *)
(* upserts of one type, and no event is delivered twice nor an upsert out  *)
(* of the order of emission - unless a listener of its delivery threw and  *)
(* the code left it buffered.                                              *)
THEOREM EventsDeliveredOnce == ListenersOnlyEmit => (Spec => []DeliveredOnceInOrder)
<1>1. IInv => DeliveredOnceInOrder
  BY DEF IInv
<1>. QED BY Invariance, <1>1, PTL
=============================================================================
