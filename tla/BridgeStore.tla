----------------------------- MODULE BridgeStore -----------------------------
(***************************************************************************)
(* The per-key file store of the auth state                                *)
(* (src/src/Utils/use-bridge-store.ts): every key is one file, mutations   *)
(* of a key run one at a time through its promise chain, keys of critical  *)
(* namespaces are written through a barrier before set() resolves (temp    *)
(* file, fsync, rename, directory sync), the others are debounced and      *)
(* written by a timer or by flush().                                       *)
(*                                                                         *)
(* The disk has two faces: `disk` is what the file system answers, and     *)
(* `stable` is what it answers after a power loss.  Every await is a step  *)
(* boundary, every file operation may fail, and the machine may lose power *)
(* at any step.  A batch (setMany, deleteMany, getMany) admits one         *)
(* operation per key, so its steps are those of the single operations.     *)
(***************************************************************************)
EXTENDS Naturals, Sequences, FiniteSets

CONSTANTS
  Critical,     \* keys of the namespaces in CRITICAL_STORES
  Debounced,    \* keys of the other namespaces
  Vals,         \* byte contents
  NoVal,        \* no such file, no such entry
  Unknown,      \* a failed mutation left the key's content undecided
  Flushers,     \* callers of flush()
  Timer,        \* the debounce timer, as the one who asks for a flush
  MaxPasses,    \* FLUSH_MAX_PASSES
  MaxCalls,     \* bound: store calls, flush() included
  MaxCrashes,   \* bound: crashes
  ProcessCrashes \* whether the process may die without the machine

Keys == Critical \cup Debounced

ASSUME StoreAssumption ==
  /\ Critical \cap Debounced = {}
  /\ NoVal \notin Vals
  /\ Unknown \notin Vals \cup {NoVal}
  /\ Timer \notin Flushers
  /\ MaxPasses \in Nat \ {0}
  /\ MaxCalls \in Nat
  /\ MaxCrashes \in Nat
  /\ ProcessCrashes \in BOOLEAN

VARIABLES
  pending,     \* pendingWrites: per key the debounced entry
  durable,     \* per key the bytes known to have passed the full barrier
  uncertain,   \* keys whose last mutation did not complete the barrier
  disk,        \* per key what the file system answers
  stable,      \* per key what it would answer after a power loss
  job,         \* per key the operation that holds the key's chain
  stage,       \* per key the await that operation is at
  saved,       \* per key what a delete captured before it cleared it
  waiting,     \* per key the operations queued on its chain
  admitted,    \* tracked operations that have not settled
  flusher,     \* per flush() caller: where its flush stands
  outstanding, \* per flush: the operations its barrier still waits for
  draining,    \* per flush: the keys whose flushOne() it waits for
  passFailed,  \* per flush: a flushOne() of this pass failed
  errors,      \* per flush: it has recorded a failure
  passes,      \* per flush: passes completed
  calls,       \* store calls so far; the id of the latest operation
  crashes,     \* crashes so far
  acked        \* history: per key the content last acknowledged

memVars == <<pending, durable, uncertain>>
diskVars == <<disk, stable>>
chainVars == <<job, stage, saved, waiting, admitted>>
flushVars == <<flusher, outstanding, draining, passFailed, errors, passes>>
vars == <<memVars, diskVars, chainVars, flushVars, calls, crashes, acked>>

Contents == Vals \cup {NoVal}

(* `missed` is history: a flush of the entry has failed. *)
Entries == [val : Contents, timer : {"off", "armed", "fired"},
            missed : BOOLEAN, failedFor : SUBSET Flushers]

NoEntry == [val |-> NoVal, timer |-> "off", missed |-> FALSE, failedFor |-> {}]

Requests ==
  [kind : {"set"}, val : Vals, id : Nat, by : {Timer}] \cup
  [kind : {"get", "delete", "flush"}, val : {NoVal}, id : Nat, by : Flushers \cup {Timer}]

NoRequest == [kind |-> "get", val |-> NoVal, id |-> 0, by |-> Timer]

Saved == [entry : Entries, durable : Contents, uncertain : BOOLEAN]

NothingSaved == [entry |-> NoEntry, durable |-> NoVal, uncertain |-> FALSE]

TypeOK ==
  /\ pending \in [Keys -> Entries]
  /\ durable \in [Keys -> Contents]
  /\ uncertain \subseteq Keys
  /\ disk \in [Keys -> Contents]
  /\ stable \in [Keys -> Contents]
  /\ job \in [Keys -> Requests]
  /\ stage \in [Keys -> {"idle", "write", "rename", "sync", "read", "unlink",
                         "unlinkSync", "absentSync"}]
  /\ saved \in [Keys -> Saved]
  /\ waiting \in [Keys -> Seq(Requests)]
  /\ admitted \subseteq Nat
  /\ flusher \in [Flushers -> {"idle", "barrier", "drain", "resolved", "rejected"}]
  /\ outstanding \in [Flushers -> SUBSET Nat]
  /\ draining \in [Flushers -> SUBSET Keys]
  /\ passFailed \in [Flushers -> BOOLEAN]
  /\ errors \in [Flushers -> BOOLEAN]
  /\ passes \in [Flushers -> Nat]
  /\ calls \in Nat
  /\ crashes \in Nat
  /\ acked \in [Keys -> Contents \cup {Unknown}]

Init ==
  /\ pending = [k \in Keys |-> NoEntry]
  /\ durable = [k \in Keys |-> NoVal]
  /\ uncertain = {}
  /\ disk \in [Keys -> Contents]
  /\ stable = disk
  /\ job = [k \in Keys |-> NoRequest]
  /\ stage = [k \in Keys |-> "idle"]
  /\ saved = [k \in Keys |-> NothingSaved]
  /\ waiting = [k \in Keys |-> <<>>]
  /\ admitted = {}
  /\ flusher = [f \in Flushers |-> "idle"]
  /\ outstanding = [f \in Flushers |-> {}]
  /\ draining = [f \in Flushers |-> {}]
  /\ passFailed = [f \in Flushers |-> FALSE]
  /\ errors = [f \in Flushers |-> FALSE]
  /\ passes = [f \in Flushers |-> 0]
  /\ calls = 0
  /\ crashes = 0
  /\ acked = disk

IsPending(k) == pending[k].val # NoVal

-----------------------------------------------------------------------------
(* Admission: an operation joins its key's chain and is tracked. *)

Admit(k, kind, val) ==
  /\ calls < MaxCalls
  /\ calls' = calls + 1
  /\ waiting' = [waiting EXCEPT ![k] =
       Append(@, [kind |-> kind, val |-> val, id |-> calls + 1, by |-> Timer])]
  /\ admitted' = admitted \cup {calls + 1}
  /\ UNCHANGED <<memVars, diskVars, job, stage, saved, flushVars, crashes, acked>>

CallSet(k, v) == Admit(k, "set", v)
CallGet(k) == Admit(k, "get", NoVal)
CallDelete(k) == Admit(k, "delete", NoVal)

(* The debounce timer fires: flushOne() joins the chain, untracked. *)
TimerFires(k) ==
  /\ pending[k].timer = "armed"
  /\ pending' = [pending EXCEPT ![k].timer = "fired"]
  /\ waiting' = [waiting EXCEPT ![k] =
       Append(@, [kind |-> "flush", val |-> NoVal, id |-> 0, by |-> Timer])]
  /\ UNCHANGED <<durable, uncertain, diskVars, job, stage, saved, admitted,
                 flushVars, calls, crashes, acked>>

-----------------------------------------------------------------------------
(* Mutant: a flush hears only of those of its flushOne() calls that succeed. *)
BugSettle(k, r, ok) ==
  /\ stage' = [stage EXCEPT ![k] = "idle"]
  /\ job' = [job EXCEPT ![k] = NoRequest]
  /\ saved' = [saved EXCEPT ![k] = NothingSaved]
  /\ admitted' = admitted \ {r.id}
  /\ outstanding' = [f \in Flushers |-> outstanding[f] \ {r.id}]
  /\ draining' = [f \in Flushers |->
       IF ok /\ r.kind = "flush" /\ r.by = f THEN draining[f] \ {k} ELSE draining[f]]
  /\ errors' = [f \in Flushers |-> errors[f] \/ (~ok /\ r.id \in outstanding[f])]
  /\ UNCHANGED <<flusher, passes, passFailed>>

(* How an operation leaves its chain: its promise settles, flushes whose   *)
(* barrier waits for it hear of its failure, and so does the flush whose   *)
(* drain asked for it.                                                     *)
Settle(k, r, ok) ==
  /\ stage' = [stage EXCEPT ![k] = "idle"]
  /\ job' = [job EXCEPT ![k] = NoRequest]
  /\ saved' = [saved EXCEPT ![k] = NothingSaved]
  /\ admitted' = admitted \ {r.id}
  /\ outstanding' = [f \in Flushers |-> outstanding[f] \ {r.id}]
  /\ draining' = [f \in Flushers |->
       IF r.kind = "flush" /\ r.by = f THEN draining[f] \ {k} ELSE draining[f]]
  /\ passFailed' = [f \in Flushers |->
       passFailed[f] \/ (~ok /\ r.kind = "flush" /\ r.by = f)]
  /\ errors' = [f \in Flushers |->
       errors[f] \/ (~ok /\ (r.id \in outstanding[f] \/ (r.kind = "flush" /\ r.by = f)))]
  /\ UNCHANGED <<flusher, passes>>

(* The operation goes on to await `at`. *)
GoTo(k, r, at) ==
  /\ job' = [job EXCEPT ![k] = r]
  /\ stage' = [stage EXCEPT ![k] = at]
  /\ UNCHANGED <<admitted, flushVars>>

(* The head of an idle chain, and the chain without it. *)
Starts(k, kind) ==
  /\ stage[k] = "idle"
  /\ waiting[k] # <<>>
  /\ Head(waiting[k]).kind = kind
  /\ waiting' = [waiting EXCEPT ![k] = Tail(@)]

Request(k) == Head(waiting[k])

Acknowledge(k, val) == acked' = [acked EXCEPT ![k] = val]

(* rememberDurable(): certified bytes enter the cache; when it is full the *)
(* oldest entry of another key leaves it, here any one may.                *)
Remember(k, val) ==
  \E gone \in Keys :
    durable' = [x \in Keys |->
      IF x = k THEN val ELSE IF x = gone THEN NoVal ELSE durable[x]]

-----------------------------------------------------------------------------
(* set *)

(* Mutant: uncertainty does not keep a queued write from being skipped     *)
(* once its flush has failed.                                              *)
BugSkips(k, v) ==
  IF IsPending(k) THEN pending[k].val = v ELSE durable[k] = v

(* The bytes are queued with a live timer, or certified. *)
Skips(k, v) ==
  IF IsPending(k)
  THEN pending[k].val = v /\ pending[k].timer # "off"
  ELSE durable[k] = v

SetSkips(k) ==
  /\ Starts(k, "set")
  /\ Skips(k, Request(k).val)
  /\ pending' = [pending EXCEPT ![k].missed = FALSE]
  /\ Settle(k, Request(k), TRUE)
  /\ Acknowledge(k, Request(k).val)
  /\ UNCHANGED <<durable, uncertain, diskVars, calls, crashes>>

SetCritical(k) ==
  /\ Starts(k, "set")
  /\ k \in Critical
  /\ ~Skips(k, Request(k).val)
  /\ GoTo(k, Request(k), "write")
  /\ UNCHANGED <<memVars, diskVars, saved, calls, crashes, acked>>

(* The entry replaces the one queued before it, with a timer of its own.   *)
SetDebounced(k) ==
  /\ Starts(k, "set")
  /\ k \in Debounced
  /\ ~Skips(k, Request(k).val)
  /\ pending' = [pending EXCEPT ![k] =
       [val |-> Request(k).val, timer |-> "armed", missed |-> FALSE, failedFor |-> {}]]
  /\ Settle(k, Request(k), TRUE)
  /\ Acknowledge(k, Request(k).val)
  /\ UNCHANGED <<durable, uncertain, diskVars, calls, crashes>>

(* flushOne(): nothing when the entry is gone or has failed in this flush. *)
FlushSkips(k) ==
  /\ Starts(k, "flush")
  /\ ~IsPending(k) \/ Request(k).by \in pending[k].failedFor
  /\ Settle(k, Request(k), TRUE)
  /\ UNCHANGED <<memVars, diskVars, calls, crashes, acked>>

FlushWrites(k) ==
  /\ Starts(k, "flush")
  /\ IsPending(k)
  /\ Request(k).by \notin pending[k].failedFor
  /\ pending' = [pending EXCEPT ![k].timer = "off"]
  /\ GoTo(k, Request(k), "write")
  /\ UNCHANGED <<durable, uncertain, diskVars, saved, calls, crashes, acked>>

-----------------------------------------------------------------------------
(* durableWrite() and certifyWrite(), for a critical set and for a flush   *)

Written(k) == IF job[k].kind = "flush" THEN pending[k].val ELSE job[k].val

(* Mutant: a flush run by the timer marks the entry for a flush() too. *)
BugKeepEntry(k) ==
  pending' = IF job[k].kind # "flush" THEN pending
             ELSE [pending EXCEPT ![k].missed = TRUE,
                                  ![k].failedFor = @ \cup {job[k].by}]

(* A flush that fails keeps its entry for an explicit flush() to retry.    *)
KeepEntry(k) ==
  pending' = IF job[k].kind # "flush" THEN pending
             ELSE [pending EXCEPT ![k].missed = TRUE,
                                  ![k].failedFor = @ \cup ({job[k].by} \cap Flushers)]

(* Temp file written and synced, or not: then the target is untouched.     *)
WriteTmp(k, ok) ==
  /\ stage[k] = "write"
  /\ IF ok
     THEN GoTo(k, job[k], "rename") /\ UNCHANGED <<pending, saved>>
     ELSE Settle(k, job[k], FALSE) /\ KeepEntry(k)
  /\ UNCHANGED <<durable, uncertain, diskVars, waiting, calls, crashes, acked>>

(* What a key's content is known to be after a write past the rename       *)
(* failed: a debounced value is still queued, a critical one is undecided. *)
AckUncertified(k) ==
  acked' = IF job[k].kind = "flush" THEN acked ELSE [acked EXCEPT ![k] = Unknown]

(* Mutant: only the error is passed on, the certification is kept.         *)
BugUncertified(k) ==
  /\ UNCHANGED <<durable, uncertain>>
  /\ KeepEntry(k)
  /\ AckUncertified(k)
  /\ Settle(k, job[k], FALSE)

(* BarrierUncertainty: whatever was certified for the key is void. *)
Uncertified(k) ==
  /\ durable' = [durable EXCEPT ![k] = NoVal]
  /\ uncertain' = uncertain \cup {k}
  /\ KeepEntry(k)
  /\ AckUncertified(k)
  /\ Settle(k, job[k], FALSE)

(* The rename; a failed one may have happened all the same. *)
Publish(k, ok) ==
  /\ stage[k] = "rename"
  /\ IF ok
     THEN /\ disk' = [disk EXCEPT ![k] = Written(k)]
          /\ GoTo(k, job[k], "sync")
          /\ UNCHANGED <<memVars, saved, acked>>
     ELSE /\ \E happened \in BOOLEAN :
               disk' = IF happened THEN [disk EXCEPT ![k] = Written(k)] ELSE disk
          /\ Uncertified(k)
  /\ UNCHANGED <<stable, waiting, calls, crashes>>

(* The write is certified, and a flushed entry leaves the queue. *)
Certified(k) ==
  /\ uncertain' = uncertain \ {k}
  /\ Remember(k, Written(k))
  /\ IF job[k].kind = "flush"
     THEN pending' = [pending EXCEPT ![k] = NoEntry] /\ UNCHANGED acked
     ELSE UNCHANGED pending /\ Acknowledge(k, Written(k))
  /\ Settle(k, job[k], TRUE)

(* The directory sync, which covers every rename in the folder. *)
SyncDir(k, ok) ==
  /\ stage[k] = "sync"
  /\ IF ok
     THEN stable' = disk /\ Certified(k)
     ELSE UNCHANGED stable /\ Uncertified(k)
  /\ UNCHANGED <<disk, waiting, calls, crashes>>
-----------------------------------------------------------------------------
(* get *)

(* A queued value is served from memory, a certified one unless the key is *)
(* uncertain.                                                              *)
InMemory(k) == IsPending(k) \/ (k \notin uncertain /\ durable[k] # NoVal)

GetHits(k) ==
  /\ Starts(k, "get")
  /\ InMemory(k)
  /\ Settle(k, Request(k), TRUE)
  /\ UNCHANGED <<memVars, diskVars, calls, crashes, acked>>

GetMisses(k) ==
  /\ Starts(k, "get")
  /\ ~InMemory(k)
  /\ GoTo(k, Request(k), "read")
  /\ UNCHANGED <<memVars, diskVars, saved, calls, crashes, acked>>

(* The file is read.  Its bytes count as certified unless the key is       *)
(* uncertain; an absent file is no value, any other failure propagates.    *)
ReadFile(k, ok) ==
  /\ stage[k] = "read"
  /\ IF ok /\ disk[k] # NoVal /\ k \notin uncertain
     THEN Remember(k, disk[k])
     ELSE UNCHANGED durable
  /\ Settle(k, job[k], ok)
  /\ UNCHANGED <<pending, uncertain, diskVars, waiting, calls, crashes, acked>>

-----------------------------------------------------------------------------
(* delete *)

DeleteStarts(k) ==
  /\ Starts(k, "delete")
  /\ saved' = [saved EXCEPT ![k] =
       [entry |-> pending[k], durable |-> durable[k], uncertain |-> k \in uncertain]]
  /\ pending' = [pending EXCEPT ![k] = NoEntry]
  /\ durable' = [durable EXCEPT ![k] = NoVal]
  /\ GoTo(k, Request(k), "unlink")
  /\ UNCHANGED <<uncertain, diskVars, calls, crashes, acked>>

(* restoreDeleteState(): the captured state is back, the timer re-armed.   *)
Restore(k) ==
  /\ IF saved[k].durable # NoVal THEN Remember(k, saved[k].durable) ELSE UNCHANGED durable
  /\ pending' = IF saved[k].entry.val # NoVal
                THEN [pending EXCEPT ![k] = [saved[k].entry EXCEPT !.timer = "armed"]]
                ELSE pending

(* The unlink fails otherwise than by ENOENT. *)
UnlinkFails(k) ==
  /\ stage[k] = "unlink"
  /\ Restore(k)
  /\ Settle(k, job[k], FALSE)
  /\ UNCHANGED <<uncertain, diskVars, waiting, calls, crashes, acked>>

(* ENOENT of a key without uncertainty: the absence is certain. *)
UnlinkAbsent(k) ==
  /\ stage[k] = "unlink"
  /\ disk[k] = NoVal
  /\ ~saved[k].uncertain
  /\ Settle(k, job[k], TRUE)
  /\ Acknowledge(k, NoVal)
  /\ UNCHANGED <<memVars, diskVars, waiting, calls, crashes>>

(* ENOENT of an uncertain key: the directory is synced first. *)
UnlinkUncertain(k) ==
  /\ stage[k] = "unlink"
  /\ disk[k] = NoVal
  /\ saved[k].uncertain
  /\ GoTo(k, job[k], "absentSync")
  /\ UNCHANGED <<memVars, diskVars, saved, waiting, calls, crashes, acked>>

Unlinked(k) ==
  /\ stage[k] = "unlink"
  /\ disk[k] # NoVal
  /\ disk' = [disk EXCEPT ![k] = NoVal]
  /\ GoTo(k, job[k], "unlinkSync")
  /\ UNCHANGED <<memVars, stable, saved, waiting, calls, crashes, acked>>

(* The directory sync of a delete.  When it fails after an unlink the key  *)
(* is uncertain; when it fails on an absent file the state is restored.    *)
DeleteSynced(k) ==
  /\ stage[k] \in {"unlinkSync", "absentSync"}
  /\ stable' = disk
  /\ uncertain' = uncertain \ {k}
  /\ Settle(k, job[k], TRUE)
  /\ Acknowledge(k, NoVal)
  /\ UNCHANGED <<pending, durable, disk, waiting, calls, crashes>>

UnlinkSyncFails(k) ==
  /\ stage[k] = "unlinkSync"
  /\ uncertain' = uncertain \cup {k}
  /\ Settle(k, job[k], FALSE)
  /\ Acknowledge(k, Unknown)
  /\ UNCHANGED <<pending, durable, diskVars, waiting, calls, crashes>>

AbsentSyncFails(k) ==
  /\ stage[k] = "absentSync"
  /\ Restore(k)
  /\ Settle(k, job[k], FALSE)
  /\ UNCHANGED <<uncertain, diskVars, waiting, calls, crashes, acked>>

-----------------------------------------------------------------------------
(* flush *)

Eligible(f) == {k \in Keys : IsPending(k) /\ f \notin pending[k].failedFor}

(* flush(): a fresh scope, and the operations admitted so far. *)
CallFlush(f) ==
  /\ calls < MaxCalls
  /\ flusher[f] \notin {"barrier", "drain"}
  /\ calls' = calls + 1
  /\ flusher' = [flusher EXCEPT ![f] = "barrier"]
  /\ outstanding' = [outstanding EXCEPT ![f] = admitted]
  /\ errors' = [errors EXCEPT ![f] = FALSE]
  /\ passFailed' = [passFailed EXCEPT ![f] = FALSE]
  /\ passes' = [passes EXCEPT ![f] = 0]
  /\ pending' = [k \in Keys |-> [pending[k] EXCEPT !.failedFor = @ \ {f}]]
  /\ UNCHANGED <<durable, uncertain, diskVars, chainVars, draining, crashes, acked>>

(* Mutant: what is still queued or running is not looked at. *)
BugFlushEnds(f) ==
  /\ flusher' = [flusher EXCEPT ![f] = IF errors[f] THEN "rejected" ELSE "resolved"]
  /\ UNCHANGED <<outstanding, passes>>

(* The loop is left: recorded failures reject, and so does unfinished work *)
(* after the last pass.                                                    *)
FlushEnds(f) ==
  /\ flusher' = [flusher EXCEPT ![f] =
       IF errors[f] \/ Eligible(f) # {} \/ admitted # {} THEN "rejected" ELSE "resolved"]
  /\ UNCHANGED <<outstanding, passes>>

(* The next pass starts with the operations admitted by now, if the cap    *)
(* leaves one.                                                             *)
NextPass(f) ==
  IF passes[f] + 1 < MaxPasses
  THEN /\ passes' = [passes EXCEPT ![f] = @ + 1]
       /\ flusher' = [flusher EXCEPT ![f] = "barrier"]
       /\ outstanding' = [outstanding EXCEPT ![f] = admitted]
  ELSE FlushEnds(f)

(* Nothing to drain: done, unless operations were admitted meanwhile. *)
BarrierQuiet(f) ==
  /\ flusher[f] = "barrier"
  /\ outstanding[f] = {}
  /\ Eligible(f) = {}
  /\ IF admitted = {} THEN FlushEnds(f) ELSE NextPass(f)
  /\ UNCHANGED <<memVars, diskVars, chainVars, draining, passFailed, errors,
                 calls, crashes, acked>>

(* A flushOne() for every eligible key joins that key's chain. *)
BarrierDrains(f) ==
  /\ flusher[f] = "barrier"
  /\ outstanding[f] = {}
  /\ Eligible(f) # {}
  /\ flusher' = [flusher EXCEPT ![f] = "drain"]
  /\ draining' = [draining EXCEPT ![f] = Eligible(f)]
  /\ passFailed' = [passFailed EXCEPT ![f] = FALSE]
  /\ waiting' = [k \in Keys |->
       IF k \in Eligible(f)
       THEN Append(waiting[k], [kind |-> "flush", val |-> NoVal, id |-> 0, by |-> f])
       ELSE waiting[k]]
  /\ UNCHANGED <<memVars, diskVars, job, stage, saved, admitted, outstanding,
                 errors, passes, calls, crashes, acked>>

(* Every flushOne() of the pass settled; a failure ends the flush. *)
PassDrained(f) ==
  /\ flusher[f] = "drain"
  /\ draining[f] = {}
  /\ IF passFailed[f] THEN FlushEnds(f) ELSE NextPass(f)
  /\ UNCHANGED <<memVars, diskVars, chainVars, draining, passFailed, errors,
                 calls, crashes, acked>>

-----------------------------------------------------------------------------
(* The disk and the machine *)

(* The kernel writes a directory entry back on its own. *)
Writeback(k) ==
  /\ stable[k] # disk[k]
  /\ stable' = [stable EXCEPT ![k] = disk[k]]
  /\ UNCHANGED <<memVars, disk, chainVars, flushVars, calls, crashes, acked>>

(* What a crash takes with it: memory, every chain and every flush.  The   *)
(* content of a key is undecided when its debounced value was lost or its  *)
(* file had changed without the directory being synced.                    *)
LosesMemory ==
  /\ crashes < MaxCrashes
  /\ crashes' = crashes + 1
  /\ pending' = [k \in Keys |-> NoEntry]
  /\ durable' = [k \in Keys |-> NoVal]
  /\ uncertain' = {}
  /\ job' = [k \in Keys |-> NoRequest]
  /\ stage' = [k \in Keys |-> "idle"]
  /\ saved' = [k \in Keys |-> NothingSaved]
  /\ waiting' = [k \in Keys |-> <<>>]
  /\ admitted' = {}
  /\ flusher' = [f \in Flushers |-> "idle"]
  /\ outstanding' = [f \in Flushers |-> {}]
  /\ draining' = [f \in Flushers |-> {}]
  /\ passFailed' = [f \in Flushers |-> FALSE]
  /\ errors' = [f \in Flushers |-> FALSE]
  /\ passes' = [f \in Flushers |-> 0]
  /\ acked' = [k \in Keys |->
       IF IsPending(k) \/ saved[k].entry.val # NoVal \/ stage[k] \in {"sync", "unlinkSync"}
       THEN Unknown ELSE acked[k]]
  /\ UNCHANGED calls

(* The machine loses power, or only the process dies. *)
Crash ==
  /\ LosesMemory
  /\ disk' \in {stable} \cup (IF ProcessCrashes THEN {disk} ELSE {})
  /\ UNCHANGED stable

-----------------------------------------------------------------------------
(* A step of the operation that holds, or is next on, the chain of k. *)
ChainStep(k) ==
  \/ SetSkips(k)
  \/ SetCritical(k)
  \/ SetDebounced(k)
  \/ FlushSkips(k)
  \/ FlushWrites(k)
  \/ GetHits(k)
  \/ GetMisses(k)
  \/ DeleteStarts(k)
  \/ UnlinkFails(k)
  \/ UnlinkAbsent(k)
  \/ UnlinkUncertain(k)
  \/ Unlinked(k)
  \/ DeleteSynced(k)
  \/ UnlinkSyncFails(k)
  \/ AbsentSyncFails(k)
  \/ \E ok \in BOOLEAN :
       \/ WriteTmp(k, ok)
       \/ Publish(k, ok)
       \/ SyncDir(k, ok)
       \/ ReadFile(k, ok)

FlushStep(f) == BarrierQuiet(f) \/ BarrierDrains(f) \/ PassDrained(f)

Next ==
  \/ \E k \in Keys :
       \/ \E v \in Vals : CallSet(k, v)
       \/ CallGet(k)
       \/ CallDelete(k)
       \/ TimerFires(k)
       \/ ChainStep(k)
       \/ Writeback(k)
  \/ \E f \in Flushers : CallFlush(f) \/ FlushStep(f)
  \/ Crash

(***************************************************************************)
(* Chains run, file operations settle and timers fire.  Nobody is obliged  *)
(* to call the store, and nothing has to fail or crash.                    *)
(***************************************************************************)
Fairness ==
  /\ \A k \in Keys : WF_vars(ChainStep(k)) /\ WF_vars(TimerFires(k))
  /\ \A f \in Flushers : WF_vars(FlushStep(f))

Spec == Init /\ [][Next]_vars

FairSpec == Spec /\ Fairness

-----------------------------------------------------------------------------
(* What a get() of k answers when it holds the chain. *)
View(k) ==
  IF IsPending(k) THEN pending[k].val
  ELSE IF InMemory(k) THEN durable[k] ELSE disk[k]

Idle(k) == stage[k] = "idle"

(* Bytes the cache holds as certified are on stable storage, so a set() of *)
(* the same bytes that is skipped has nothing left to write; only the      *)
(* operation that is replacing them may have got further on disk           *)
(* (use-bridge-store.ts, durable and doSetLocked).                         *)
CertifiedIsStable ==
  \A k \in Keys : durable[k] # NoVal /\ stage[k] # "sync" => stable[k] = durable[k]

(* Between operations a key reads as what was last acknowledged for it,    *)
(* after failed writes, failed deletes, failed flushes and evictions too.  *)
ReadsLastAcknowledged ==
  \A k \in Keys : Idle(k) /\ acked[k] # Unknown => View(k) = acked[k]

(* What was acknowledged and is not waiting for a flush survives a power   *)
(* loss: a critical set() when it resolves, a delete() when it resolves, a *)
(* debounced value when its entry leaves the queue.                        *)
AcknowledgedSurvives ==
  \A k \in Keys :
    Idle(k) /\ ~IsPending(k) /\ acked[k] # Unknown => stable[k] = acked[k]

FlushQueued(k, who) ==
  \E i \in DOMAIN waiting[k] : waiting[k][i].kind = "flush" /\ waiting[k][i].by = who

(* A debounced write is never forgotten: its timer runs, or a flush of it  *)
(* is queued or in progress, or a flush of it has failed since a set() was *)
(* last acknowledged for the key.                                          *)
NoForgottenWrite ==
  \A k \in Keys : IsPending(k) =>
    \/ pending[k].timer = "armed"
    \/ pending[k].timer = "fired" /\ \E w \in Flushers \cup {Timer} : FlushQueued(k, w)
    \/ job[k].kind = "flush" /\ stage[k] # "idle"
    \/ pending[k].missed

(* A flush() that resolves leaves every acknowledged content on stable     *)
(* storage, those of operations admitted before it included.               *)
FlushResolvesDurable ==
  [][\A f \in Flushers :
       flusher[f] # "resolved" /\ flusher'[f] = "resolved" =>
         \A k \in Keys : acked'[k] # Unknown => stable'[k] = acked'[k]]_vars

(* A flush() settles, whatever fails, and also when new operations keep    *)
(* being admitted: socket teardown waits for it.                           *)
FlushSettles ==
  \A f \in Flushers :
    (flusher[f] \in {"barrier", "drain"}) ~> (flusher[f] \notin {"barrier", "drain"})
=============================================================================
