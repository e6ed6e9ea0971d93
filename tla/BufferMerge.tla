----------------------------- MODULE BufferMerge -----------------------------
(***************************************************************************)
(* How the event buffer (src/src/Utils/event-buffer.ts) merges payloads:   *)
(* append() folds the events of one chat, contact or message into at most  *)
(* a history row, an upsert, an update and a deletion, and a flush         *)
(* releases these in that order, whatever the order they came in.  The     *)
(* control of the buffer is the subject of EventBuffer.                    *)
(*                                                                         *)
(* One behaviour follows one entity.  A payload gives some fields the      *)
(* number of its event.  `consumer` is what somebody who applies every     *)
(* released event holds.  Unread counts, reactions, receipts and           *)
(* conditional updates are left out.                                       *)
(***************************************************************************)
EXTENDS Naturals

CONSTANTS
  Fields,      \* fields of an entity; "name" is one a history contact needs
  Absent,      \* no such entry
  MaxEmitted   \* bound: events emitted

ASSUME MergeAssumption ==
  "name" \in Fields /\ MaxEmitted \in Nat /\ Absent \notin [Fields -> Nat]

VARIABLES
  entity,       \* "chat", "contact" or "message"
  histRow,      \* data.historySets: its row of the entity
  upsertRow,    \* data.chatUpserts, contactUpserts or messageUpserts
  updateRow,    \* data.chatUpdates, contactUpdates or messageUpdates
  deletion,     \* data.chatDeletes or messageDeletes has the entity
  inHistory,    \* historyCache has the entity
  consumer,     \* what a consumer of the released events holds
  emitted,      \* events so far
  newest,       \* history: per field the newest live event that carried it
  newestUpdate, \* history: the same for updates alone
  gone,         \* history: the last event deleted the entity
  lateHistory,  \* history: a history row met a live event held in the buffer
  clears        \* history: chat clears of the entity since the last other event

mergeVars == <<entity, histRow, upsertRow, updateRow, deletion, inHistory, consumer,
               emitted, newest, newestUpdate, gone, lateHistory, clears>>
heldVars == <<histRow, upsertRow, updateRow, deletion, inHistory>>

Nothing == [f \in Fields |-> 0]
Contents == [Fields -> 0..MaxEmitted]
Payload(n) == [Fields -> {0, n}] \ {Nothing}
Whole(row) == \A f \in Fields : row[f] # 0

(* Object.assign: the right one's fields win. *)
Assign(left, right) ==
  IF left = Absent THEN right
  ELSE IF right = Absent THEN left
  ELSE [f \in Fields |-> IF right[f] # 0 THEN right[f] ELSE left[f]]

MergeInit ==
  /\ entity \in {"chat", "contact", "message"}
  /\ histRow = Absent /\ upsertRow = Absent /\ updateRow = Absent
  /\ deletion = FALSE /\ inHistory = FALSE
  /\ consumer = Absent
  /\ emitted = 0
  /\ newest = Nothing /\ newestUpdate = Nothing
  /\ gone = FALSE /\ lateHistory = FALSE /\ clears = 0

MergeTypeOK ==
  /\ {histRow, upsertRow, updateRow, consumer} \subseteq Contents \cup {Absent}
  /\ {deletion, inHistory, gone, lateHistory} \subseteq BOOLEAN
  /\ newest \in Contents /\ newestUpdate \in Contents

(* An event is emitted; `live` and `update` are what it says of the fields. *)
Emits(live, update) ==
  /\ emitted < MaxEmitted
  /\ emitted' = emitted + 1
  /\ newest' = Assign(newest, live)
  /\ newestUpdate' = Assign(newestUpdate, update)
  /\ gone' = FALSE
  /\ clears' = 0
  /\ UNCHANGED <<entity, consumer>>

-----------------------------------------------------------------------------
(* append() *)

(* messaging-history.set: a row seen before is ignored, unless a contact's *)
(* can be merged into one still held, or names the contact.  A chat takes  *)
(* over the update that waits for it.  Messages always come whole.         *)
HistorySet(row) ==
  LET new == histRow = Absent /\ (~inHistory \/ (entity = "contact" /\ row["name"] # 0))
  IN /\ entity = "message" => Whole(row)
     /\ Emits(Absent, Absent)
     /\ histRow' = IF new THEN IF entity = "chat" THEN Assign(updateRow, row) ELSE row
                   ELSE IF entity = "contact" /\ histRow # Absent THEN Assign(histRow, row) ELSE histRow
     /\ inHistory' = (inHistory \/ new)
     /\ updateRow' = IF new /\ entity = "chat" THEN Absent ELSE updateRow
     /\ lateHistory' = (lateHistory \/ upsertRow # Absent \/ updateRow' # Absent)
     /\ UNCHANGED <<upsertRow, deletion>>

(* A row that replaces or joins the one held: the upsert, or else the      *)
(* history row.                                                            *)
JoinsUpsert(row) ==
  IF upsertRow = Absent /\ histRow # Absent
  THEN histRow' = Assign(histRow, row) /\ UNCHANGED upsertRow
  ELSE upsertRow' = Assign(upsertRow, row) /\ UNCHANGED histRow

(* Mutant: the buffered update is folded in last. *)
BugUpsertRow(row) == Assign(row, updateRow)

(* What chats.upsert and contacts.upsert make of a waiting update: it came *)
(* before, and the row's own fields win.                                   *)
UpsertRow(row) == Assign(updateRow, row)

UpsertChatOrContact(row) ==
  /\ entity \in {"chat", "contact"}
  /\ Emits(row, Absent)
  /\ JoinsUpsert(UpsertRow(row))
  /\ updateRow' = Absent
  /\ deletion' = FALSE
  /\ UNCHANGED <<inHistory, lateHistory>>

(* messages.upsert: the message replaces what is held, with the update     *)
(* that waits for it.  Assumed: a deleted message does not come again.     *)
UpsertMessage(row) ==
  /\ entity = "message"
  /\ ~deletion /\ Whole(row)
  /\ Emits(row, Absent)
  /\ IF histRow # Absent
     THEN histRow' = Assign(row, updateRow) /\ UNCHANGED upsertRow
     ELSE upsertRow' = Assign(row, updateRow) /\ UNCHANGED histRow
  /\ updateRow' = Absent
  /\ UNCHANGED <<deletion, inHistory, lateHistory>>

(* chats.update, contacts.update, messages.update: merged into the history *)
(* row, or else the upsert, or kept.                                       *)
Update(row) ==
  /\ entity = "message" => ~deletion
  /\ Emits(row, row)
  /\ histRow' = IF histRow # Absent THEN Assign(histRow, row) ELSE Absent
  /\ upsertRow' = IF histRow = Absent /\ upsertRow # Absent THEN Assign(upsertRow, row) ELSE upsertRow
  /\ updateRow' = IF histRow = Absent /\ upsertRow = Absent THEN Assign(updateRow, row) ELSE updateRow
  /\ deletion' = (deletion /\ entity # "chat")
  /\ UNCHANGED <<inHistory, lateHistory>>

(* chats.delete, and messages.delete with keys: what is held is dropped,   *)
(* except a message's history row.                                         *)
Delete ==
  /\ entity \in {"chat", "message"}
  /\ emitted < MaxEmitted
  /\ emitted' = emitted + 1
  /\ deletion' = TRUE
  /\ upsertRow' = Absent /\ updateRow' = Absent
  /\ histRow' = IF entity = "chat" THEN Absent ELSE histRow
  /\ newest' = Nothing /\ newestUpdate' = Nothing
  /\ gone' = TRUE /\ clears' = 0
  /\ UNCHANGED <<entity, consumer, inHistory, lateHistory>>

(* messages.delete of a whole chat, as events-core.ts emits it for a chat  *)
(* that is cleared: append() looks for keys and finds none.                *)
ClearChat ==
  /\ entity = "message"
  /\ clears = 0
  /\ clears' = 1
  /\ UNCHANGED <<entity, heldVars, consumer, emitted, newest, newestUpdate, gone, lateHistory>>

-----------------------------------------------------------------------------
(* consolidateEvents(): history, upsert, update and deletion, in that      *)
(* order, as the consumer applies them.                                    *)
Consolidated ==
  IF deletion THEN Absent ELSE Assign(Assign(Assign(consumer, histRow), upsertRow), updateRow)

ReleaseHeld ==
  /\ {histRow, upsertRow, updateRow} # {Absent} \/ deletion
  /\ consumer' = Consolidated
  /\ histRow' = Absent /\ upsertRow' = Absent /\ updateRow' = Absent
  /\ deletion' = FALSE
  /\ UNCHANGED <<entity, inHistory, emitted, newest, newestUpdate, gone, lateHistory, clears>>

MergeNext ==
  \/ \E row \in Payload(emitted + 1) :
       HistorySet(row) \/ UpsertChatOrContact(row) \/ UpsertMessage(row) \/ Update(row)
  \/ Delete
  \/ ClearChat
  \/ ReleaseHeld

MergeSpec == MergeInit /\ [][MergeNext]_mergeVars

-----------------------------------------------------------------------------
Released == {histRow, upsertRow, updateRow} = {Absent} /\ ~deletion

(* Field f is as the newest live event said, or a history row that came    *)
(* after it; or, for a message, as the newest update said: one that came   *)
(* first belongs to the message that follows.                              *)
Current(f) ==
  newest[f] # 0 =>
    /\ consumer # Absent
    /\ consumer[f] >= newest[f] \/ (entity = "message" /\ consumer[f] = newestUpdate[f])

(* Once everything is released the consumer holds the newest values, in    *)
(* whatever order they came and were folded, and nothing that was deleted  *)
(* last; except where a history row met live events in the buffer          *)
(* (event-buffer.ts, append and consolidateEvents).                        *)
ReleasedIsNewest ==
  Released => /\ gone => consumer = Absent
              /\ lateHistory \/ \A f \in Fields : Current(f)

(* Cleared chats are cleared: the event is buffered and released like any  *)
(* other (event-buffer.ts, header of makeEventBuffer).                     *)
ClearIsReleased == Released /\ clears > 0 => consumer = Absent
=============================================================================
