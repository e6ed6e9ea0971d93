----------------------------- MODULE RetryManager -----------------------------
(***************************************************************************)
(* The standalone retry manager                                            *)
(* (src/src/Compatibility/public-api/message-retry-manager.ts) over its    *)
(* expiring LRU map (src/src/Compatibility/internal/expiring-lru-map.ts):  *)
(* recent messages by chat and id with an index by id, retry counters, and *)
(* delayed requests to the phone.  An entry of the map may expire at any   *)
(* moment, between any two calls.                                          *)
(***************************************************************************)
EXTENDS Naturals, Sequences, SequencesExt

CONSTANTS
  Chats,       \* `to` of a recent message
  Ids,         \* message ids
  MaxRecent,   \* RECENT_MESSAGES_SIZE
  MaxCounted   \* bound: incrementRetryCount() calls for an id

ASSUME RetryAssumption == MaxRecent \in Nat \ {0} /\ MaxCounted \in Nat

VARIABLES
  recent,    \* recentMessagesMap, the least recently used key first
  index,     \* messageKeyIndex: per id the keys it holds, at most one
  counters,  \* retryCounters
  requests,  \* pendingPhoneRequests: ids with an entry
  timeouts,  \* per id the number of timeouts that will fire
  shared     \* history: ids that two chats had recent messages of at a time

retryVars == <<recent, index, counters, requests, timeouts, shared>>

RecentKeys == Chats \X Ids
Id(m) == m[2]

RetryTypeOK ==
  /\ recent \in BoundedSeq(RecentKeys, MaxRecent)
  /\ index \in [Ids -> SUBSET RecentKeys]
  /\ counters \in [Ids -> 0..MaxCounted]
  /\ requests \subseteq Ids
  /\ timeouts \in [Ids -> Nat]
  /\ shared \subseteq Ids

RetryInit ==
  /\ recent = <<>>
  /\ index = [i \in Ids |-> {}]
  /\ counters = [i \in Ids |-> 0]
  /\ requests = {}
  /\ timeouts = [i \in Ids |-> 0]
  /\ shared = {}

-----------------------------------------------------------------------------
(* dispose: a message that leaves the map takes its id out of the index.   *)
Disposed(keys, ms) == [i \in Ids |-> IF i \in {Id(m) : m \in ms} THEN {} ELSE keys[i]]

Without(m) == RemoveFirst(recent, m)

IdsOf(ms, i) == {m \in ToSet(ms) : Id(m) = i}

(* Which ids still have, or now have, messages of two chats. *)
Shares(ms) ==
  shared' = {i \in Ids : \/ \E m, other \in IdsOf(ms, i) : m # other
                         \/ i \in shared /\ IdsOf(ms, i) # {}}

(* set(): the message's old entry is deleted, the new one is the most      *)
(* recently used, and the least recently used leaves a map that overflows. *)
Put(m) ==
  LET all == Append(Without(m), m)
  IN IF Len(all) > MaxRecent THEN Tail(all) ELSE all

(* The messages Put(m) deletes, and disposes of. *)
PutDeletes(m) == ToSet(recent) \cap ({m} \cup (ToSet(recent) \ ToSet(Put(m))))

(* Mutant: the index is written before the map. *)
BugAddRecentMessage(m) ==
  /\ recent' = Put(m)
  /\ index' = Disposed([index EXCEPT ![Id(m)] = {m}], PutDeletes(m))
  /\ Shares(recent')
  /\ UNCHANGED <<counters, requests, timeouts>>

(* addRecentMessage(): the map first, then the index. *)
AddRecentMessage(m) ==
  /\ recent' = Put(m)
  /\ index' = [Disposed(index, PutDeletes(m)) EXCEPT ![Id(m)] = {m}]
  /\ Shares(recent')
  /\ UNCHANGED <<counters, requests, timeouts>>

(* getRecentMessage(): a hit is now the most recently used. *)
GetRecentMessage(m) ==
  /\ m \in ToSet(recent)
  /\ recent' = Append(Without(m), m)
  /\ UNCHANGED <<index, counters, requests, timeouts, shared>>

(* The timer of an entry, or a get() after its time. *)
MessageExpires(m) ==
  /\ m \in ToSet(recent)
  /\ recent' = Without(m)
  /\ index' = Disposed(index, {m})
  /\ Shares(recent')
  /\ UNCHANGED <<counters, requests, timeouts>>

IncrementRetryCount(i) ==
  /\ counters[i] < MaxCounted
  /\ counters' = [counters EXCEPT ![i] = @ + 1]
  /\ UNCHANGED <<recent, index, requests, timeouts, shared>>

CounterExpires(i) ==
  /\ counters[i] > 0
  /\ counters' = [counters EXCEPT ![i] = 0]
  /\ UNCHANGED <<recent, index, requests, timeouts, shared>>

-----------------------------------------------------------------------------
(* Timeouts left after cancelPendingPhoneRequest(). *)
Cancelled(i) == IF i \in requests THEN timeouts[i] - 1 ELSE timeouts[i]

(* Mutant: a second request does not cancel the first. *)
BugSchedulePhoneRequest(i) ==
  /\ timeouts[i] < 2
  /\ timeouts' = [timeouts EXCEPT ![i] = @ + 1]
  /\ requests' = requests \cup {i}
  /\ UNCHANGED <<recent, index, counters, shared>>

SchedulePhoneRequest(i) ==
  /\ timeouts' = [timeouts EXCEPT ![i] = Cancelled(i) + 1]
  /\ requests' = requests \cup {i}
  /\ UNCHANGED <<recent, index, counters, shared>>

CancelPendingPhoneRequest(i) ==
  /\ timeouts' = [timeouts EXCEPT ![i] = Cancelled(i)]
  /\ requests' = requests \ {i}
  /\ UNCHANGED <<recent, index, counters, shared>>

(* A timeout fires, forgets the request of its id and calls back; what the *)
(* callback does with the manager follows as steps of its own.             *)
RequestFires(i) ==
  /\ timeouts[i] > 0
  /\ timeouts' = [timeouts EXCEPT ![i] = @ - 1]
  /\ requests' = requests \ {i}
  /\ UNCHANGED <<recent, index, counters, shared>>

(* removeRecentMessage(): what it deletes. *)
IndexedBy(i) == index[i]

(* markRetrySuccess() and markRetryFailed(): the counter, the request and, *)
(* through the index, the message are forgotten.                           *)
MarkRetryDone(i) ==
  /\ counters' = [counters EXCEPT ![i] = 0]
  /\ timeouts' = [timeouts EXCEPT ![i] = Cancelled(i)]
  /\ requests' = requests \ {i}
  /\ IF IndexedBy(i) = {} THEN UNCHANGED recent ELSE \E m \in IndexedBy(i) : recent' = Without(m)
  /\ index' = [index EXCEPT ![i] = {}]
  /\ Shares(recent')

Clear ==
  /\ recent' = <<>>
  /\ index' = [i \in Ids |-> {}]
  /\ counters' = [i \in Ids |-> 0]
  /\ timeouts' = [i \in Ids |-> Cancelled(i)]
  /\ requests' = {}
  /\ shared' = {}

RetryNext ==
  \/ \E m \in RecentKeys : AddRecentMessage(m) \/ GetRecentMessage(m) \/ MessageExpires(m)
  \/ \E i \in Ids :
       \/ IncrementRetryCount(i)
       \/ CounterExpires(i)
       \/ SchedulePhoneRequest(i)
       \/ CancelPendingPhoneRequest(i)
       \/ RequestFires(i)
       \/ MarkRetryDone(i)
  \/ Clear

RetrySpec == RetryInit /\ [][RetryNext]_retryVars

-----------------------------------------------------------------------------
(* The index finds exactly the recent message of an id, through re-adding, *)
(* eviction and expiry, so that a finished retry leaves no message behind; *)
(* and every timeout that will fire is one that a cancel, a finished retry *)
(* or clear() reaches (message-retry-manager.ts, removeRecentMessage and   *)
(* schedulePhoneRequest).  Ids that two chats shared are excepted: there   *)
(* the expiry of one chat's message takes the index entry of the other's.  *)
RetriesAreForgotten ==
  \A i \in Ids :
    /\ i \notin shared => index[i] = IdsOf(recent, i)
    /\ index[i] \subseteq IdsOf(recent, i)
    /\ timeouts[i] = IF i \in requests THEN 1 ELSE 0
=============================================================================
