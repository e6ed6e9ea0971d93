--------------------------------- MODULE Parts --------------------------------
(***************************************************************************)
(* The small parts of the library side by side.  They share no state, so   *)
(* every behaviour is a behaviour of one of them, chosen at the start: the *)
(* states are the sum of theirs, never the product.  Parts that interact   *)
(* are composed in SocketLifecycle.                                        *)
(***************************************************************************)
EXTENDS ClientOwner, SignalKeys, CombinedFlush, BufferMerge, MessageBatch,
        ConnectionEvents, LegacyMirror, AtomicRows, RetryManager, IdentityChange, RawNodes

VARIABLE part   \* the one that runs

partsVars == <<part, vars, keyVars, flushVars, mergeVars, batchVars, eventVars, mirrorVars, rowVars, retryVars, identityVars, rawVars>>

PartNames == {"owner", "keys", "flush", "merge", "batch", "events", "mirror", "rows", "retries", "identity", "raw"}

(* The pre-key row and a row of another type, each with a transaction key. *)
KeyNames == [r \in Rows |-> IF r = "pre-key" THEN "k1" ELSE "k2"]

PartsInit ==
  /\ part \in PartNames
  /\ Init /\ KeysInit /\ CombinedInit /\ MergeInit /\ BatchInit /\ EventsInit /\ MirrorInit /\ RowsInit
  /\ RetryInit /\ IdentityInit /\ RawInit
  /\ part # "mirror" => route = "device" /\ isolated /\ legacy = None

Runs(name) == part = name /\ UNCHANGED part

OwnerMoves ==
  Next /\ UNCHANGED <<keyVars, flushVars, mergeVars, batchVars, eventVars, mirrorVars, rowVars, retryVars, identityVars, rawVars>>
KeysMove ==
  KeysNext /\ UNCHANGED <<vars, flushVars, mergeVars, batchVars, eventVars, mirrorVars, rowVars, retryVars, identityVars, rawVars>>
FlushMoves ==
  CombinedNext /\ UNCHANGED <<vars, keyVars, mergeVars, batchVars, eventVars, mirrorVars, rowVars, retryVars, identityVars, rawVars>>
MergeMoves ==
  MergeNext /\ UNCHANGED <<vars, keyVars, flushVars, batchVars, eventVars, mirrorVars, rowVars, retryVars, identityVars, rawVars>>
BatchMoves ==
  BatchNext /\ UNCHANGED <<vars, keyVars, flushVars, mergeVars, eventVars, mirrorVars, rowVars, retryVars, identityVars, rawVars>>
EventsMove ==
  EventsNext /\ UNCHANGED <<vars, keyVars, flushVars, mergeVars, batchVars, mirrorVars, rowVars, retryVars, identityVars, rawVars>>
MirrorMoves ==
  MirrorNext /\ UNCHANGED <<vars, keyVars, flushVars, mergeVars, batchVars, eventVars, rowVars, retryVars, identityVars, rawVars>>
RowsMove ==
  RowsNext /\ UNCHANGED <<vars, keyVars, flushVars, mergeVars, batchVars, eventVars, mirrorVars, retryVars, identityVars, rawVars>>
RetriesMove ==
  RetryNext /\ UNCHANGED <<vars, keyVars, flushVars, mergeVars, batchVars, eventVars, mirrorVars, rowVars, identityVars, rawVars>>
IdentityMoves ==
  IdentityNext /\ UNCHANGED <<vars, keyVars, flushVars, mergeVars, batchVars, eventVars, mirrorVars, rowVars, retryVars, rawVars>>
RawMoves ==
  RawNext /\ UNCHANGED <<vars, keyVars, flushVars, mergeVars, batchVars, eventVars, mirrorVars, rowVars, retryVars, identityVars>>

PartsNext ==
  \/ Runs("owner") /\ OwnerMoves
  \/ Runs("keys") /\ KeysMove
  \/ Runs("flush") /\ FlushMoves
  \/ Runs("merge") /\ MergeMoves
  \/ Runs("batch") /\ BatchMoves
  \/ Runs("events") /\ EventsMove
  \/ Runs("mirror") /\ MirrorMoves
  \/ Runs("rows") /\ RowsMove
  \/ Runs("retries") /\ RetriesMove
  \/ Runs("identity") /\ IdentityMoves
  \/ Runs("raw") /\ RawMoves

(* The fairness of each part, while it runs. *)
PartsFairness ==
  /\ WF_vars(Runs("owner") /\ RunClose)
  /\ WF_vars(Runs("owner") /\ \E ok \in BOOLEAN : TeardownSettles(ok))
  /\ \A c \in Clients : WF_vars(Runs("owner") /\ ReleaseSettles(c))
  /\ WF_vars(Runs("owner") /\ CloseReleased)
  /\ WF_vars(Runs("owner") /\ CloseSettles)
  /\ \A c \in Callers : WF_keyVars(Runs("keys") /\ KeysStep(c))
  /\ \A f \in Flushes :
       /\ WF_flushVars(Runs("flush") /\ FlushAdvances(f))
       /\ WF_flushVars(Runs("flush") /\ Deadline(f))
  /\ WF_eventVars(Runs("events") /\ TestsFlag)
  /\ WF_eventVars(Runs("events") /\ RunEnds)
  /\ WF_eventVars(Runs("events") /\ PausedFires)
  /\ WF_eventVars(Runs("events") /\ Cleanup)
  /\ WF_eventVars(Runs("events") /\ Freed)
  /\ WF_eventVars(Runs("events") /\ PublishClose)
  /\ \A w \in Waiters : WF_rawVars(Runs("raw") /\ TimesOut(w)) /\ WF_rawVars(Runs("raw") /\ WaiterEnds(w))

PartsSpec == PartsInit /\ [][PartsNext]_partsVars /\ PartsFairness

-----------------------------------------------------------------------------
(* The variables of every part keep their types. *)
PartsTypeOK ==
  /\ TypeOK /\ KeysTypeOK /\ CombinedTypeOK /\ MergeTypeOK
  /\ BatchTypeOK /\ EventsTypeOK /\ MirrorTypeOK /\ RowsTypeOK
  /\ RetryTypeOK /\ IdentityTypeOK /\ RawTypeOK

(* Every part that has something to finish finishes it: close() of the     *)
(* owner settles, transactions and clears end, a combined flush settles    *)
(* within its deadline, an engine that stopped is announced, a RECENT sync *)
(* reports its end, and a waiter with a timeout is answered                *)
(* (bridge-client-owner.ts, auth-utils.ts, transactional-file-store.ts,    *)
(* events-core.ts, tagged-message-waiter.ts).                              *)
PartsProgress ==
  /\ CloseTerminates /\ TransactionsEnd /\ CombinedFlushSettles
  /\ StopIsAnnounced /\ RecentSyncReported /\ WaitersSettle
=============================================================================
