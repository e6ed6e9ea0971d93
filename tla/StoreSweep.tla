------------------------------ MODULE StoreSweep ------------------------------
(***************************************************************************)
(* The enumerating calls of the per-key store: listKeys() and              *)
(* deletePrefix() (src/src/Utils/use-bridge-store.ts).  Both flush, read   *)
(* the directory, and add the keys whose write is still queued when the    *)
(* listing arrives; deletePrefix() then deletes every key it found.  They  *)
(* hold no chain: store calls, timers, another flush and failures go on    *)
(* between their awaits.  A prefix stands for a whole namespace class, and *)
(* one such call is under way at a time.                                   *)
(***************************************************************************)
EXTENDS BridgeStore

CONSTANT Sweeper   \* the flush() caller that stands for the call's own flush

\* A directory holds finitely many files.
ASSUME SweepAssumption == Sweeper \in Flushers /\ IsFiniteSet(Keys)

VARIABLES
  sweep,      \* at: where the call stands; deletes, store: what it was asked;
              \* failed: one of its deletes has failed
  listed,     \* the keys the directory showed, then those found
  deleting,   \* operations of the call's deletes that have not settled
  throughout, \* history: keys that held a value, undisturbed, since the call
  sometime,   \* history: keys that held a value, or may have, since the call
  disturbed   \* history: keys that since the call were set, or left undecided

sweepVars == <<sweep, listed, deleting, throughout, sometime, disturbed>>

SweepInit ==
  /\ Init
  /\ sweep = [at |-> "idle", deletes |-> FALSE, store |-> Critical, failed |-> FALSE]
  /\ listed = {} /\ deleting = {}
  /\ throughout = {} /\ sometime = {} /\ disturbed = {}

Sweeping == sweep.at \in {"flush", "readdir", "listed", "delete"}

-----------------------------------------------------------------------------
(* What a caller may expect of a key. *)

OnChain(k, kind) ==
  \/ job[k].kind = kind /\ stage[k] # "idle"
  \/ \E i \in DOMAIN waiting[k] : waiting[k][i].kind = kind

Held(k) == acked[k] \in Vals /\ ~OnChain(k, "delete")
MayBeHeld(k) == acked[k] # NoVal \/ OnChain(k, "set")
Disturbs(k) == OnChain(k, "set") \/ acked[k] = Unknown

(* The histories, from the call to the listing and to the end. *)
Observes ==
  /\ throughout' = throughout \cap {k \in Keys : Held(k)'}
  /\ sometime' = sometime \cup {k \in Keys : MayBeHeld(k)'}
  /\ disturbed' = disturbed \cup {k \in Keys : Disturbs(k)'}

-----------------------------------------------------------------------------
(* Mutant: the directory is read without a flush before it. *)
BugCallSweep(store, deletes) ==
  /\ ~Sweeping
  /\ calls < MaxCalls
  /\ calls' = calls + 1
  /\ UNCHANGED <<memVars, diskVars, chainVars, flushVars, crashes, acked>>
  /\ sweep' = [at |-> "readdir", deletes |-> deletes, store |-> store, failed |-> FALSE]
  /\ listed' = {} /\ deleting' = {}
  /\ throughout' = {k \in Keys : Held(k)'}
  /\ sometime' = {k \in Keys : MayBeHeld(k)'}
  /\ disturbed' = {k \in Keys : Disturbs(k)'}

(* listKeys() and deletePrefix() begin with a flush of their own. *)
CallSweep(store, deletes) ==
  /\ ~Sweeping
  /\ CallFlush(Sweeper)
  /\ sweep' = [at |-> "flush", deletes |-> deletes, store |-> store, failed |-> FALSE]
  /\ listed' = {} /\ deleting' = {}
  /\ throughout' = {k \in Keys : Held(k)'}
  /\ sometime' = {k \in Keys : MayBeHeld(k)'}
  /\ disturbed' = {k \in Keys : Disturbs(k)'}

(* The flush settled; its failure is the call's failure. *)
SweepFlushed ==
  /\ sweep.at = "flush"
  /\ flusher[Sweeper] \in {"resolved", "rejected"}
  /\ sweep' = [sweep EXCEPT !.at = IF flusher[Sweeper] = "resolved" THEN "readdir" ELSE "rejected"]
  /\ UNCHANGED <<vars, listed, deleting, throughout, sometime, disturbed>>

(* The file system takes its listing some time before the call hears of it.*)
ReadsDirectory(ok) ==
  /\ sweep.at = "readdir"
  /\ sweep' = [sweep EXCEPT !.at = IF ok THEN "listed" ELSE "rejected"]
  /\ listed' = IF ok THEN {k \in sweep.store : disk[k] # NoVal} ELSE {}
  /\ UNCHANGED <<vars, deleting, throughout, sometime, disturbed>>

(* listKeys() answers; deletePrefix() admits a delete for every key.       *)
Found == listed \cup {k \in sweep.store : IsPending(k)}

Answers ==
  /\ sweep.at = "listed"
  /\ ~sweep.deletes \/ Found = {}
  /\ listed' = Found
  /\ sweep' = [sweep EXCEPT !.at = "resolved"]
  /\ UNCHANGED <<vars, deleting, throughout, sometime, disturbed>>

(* Deletes of several keys are admitted in one turn, in some order; they   *)
(* do not count against MaxCalls.                                          *)
AdmitsDeletes ==
  /\ sweep.at = "listed"
  /\ sweep.deletes /\ Found # {}
  /\ \E id \in [Found -> (calls + 1)..(calls + Cardinality(Found))] :
       /\ \A k, l \in Found : id[k] = id[l] => k = l
       /\ waiting' = [k \in Keys |->
            IF k \in Found
            THEN Append(waiting[k], [kind |-> "delete", val |-> NoVal, id |-> id[k], by |-> Timer])
            ELSE waiting[k]]
  /\ deleting' = (calls + 1)..(calls + Cardinality(Found))
  /\ admitted' = admitted \cup deleting'
  /\ calls' = calls + Cardinality(Found)
  /\ listed' = Found
  /\ sweep' = [sweep EXCEPT !.at = "delete"]
  /\ UNCHANGED <<memVars, diskVars, job, stage, saved, flushVars, crashes, acked>>
  /\ Observes

(* The first delete that fails rejects the call, which otherwise waits for *)
(* all of them.                                                            *)
DeletesSettle ==
  /\ sweep.at = "delete"
  /\ sweep.failed \/ deleting = {}
  /\ sweep' = [sweep EXCEPT !.at = IF sweep.failed THEN "rejected" ELSE "resolved"]
  /\ deleting' = {}
  /\ UNCHANGED <<vars, listed, throughout, sometime, disturbed>>

-----------------------------------------------------------------------------
(* How a delete of the call settles in a step. *)
DeleteFails(k) ==
  job[k].id \in deleting /\ (UnlinkFails(k) \/ UnlinkSyncFails(k) \/ AbsentSyncFails(k))

DeleteSucceeds(k) == job[k].id \in deleting /\ (UnlinkAbsent(k) \/ DeleteSynced(k))

(* Mutant: the call hears of its deletes but not of their failures. *)
BugHearsOfDeletes == deleting' = deleting \cap admitted' /\ UNCHANGED sweep

HearsOfDeletes ==
  /\ deleting' = deleting \cap admitted'
  /\ \E fails \in BOOLEAN :
       /\ fails => \E k \in Keys : DeleteFails(k)
       /\ ~fails => \A k \in Keys : DeleteFails(k) => DeleteSucceeds(k)
       /\ sweep' = [sweep EXCEPT !.failed = @ \/ fails]

(* Any other step of the store, which the call may hear of.  A crash ends  *)
(* the call: nothing is left to say of it.                                 *)
StoreSteps ==
  /\ Next
  /\ UNCHANGED <<crashes, listed>>
  /\ flusher'[Sweeper] \in {"barrier", "drain"} => flusher[Sweeper] \in {"barrier", "drain"}
  /\ HearsOfDeletes
  /\ IF Sweeping THEN Observes ELSE UNCHANGED <<throughout, sometime, disturbed>>

SweepStep ==
  \/ SweepFlushed
  \/ \E ok \in BOOLEAN : ReadsDirectory(ok)
  \/ Answers
  \/ AdmitsDeletes
  \/ DeletesSettle

SweepNext ==
  \/ StoreSteps
  \/ \E store \in {Critical, Debounced}, deletes \in BOOLEAN : CallSweep(store, deletes)
  \/ SweepStep

(* The flush, the file system and the deletes settle, so does the call. *)
SweepSpec ==
  /\ SweepInit
  /\ [][SweepNext]_<<vars, sweepVars>>
  /\ Fairness
  /\ WF_<<vars, sweepVars>>(SweepStep)

-----------------------------------------------------------------------------
(* Such a call shows every key that held a value from the call to its      *)
(* answer and was not being deleted, and no key that never did: whether    *)
(* its write is queued, being flushed by somebody else or on disk          *)
(* (use-bridge-store.ts, doListKeys).                                      *)
ListingIsExact ==
  sweep.at \in {"delete", "resolved"} =>
    throughout \cap sweep.store \subseteq listed /\ listed \subseteq sometime

(* When deletePrefix() resolves, a key nobody set since the call is gone   *)
(* from memory and from stable storage, unless a delete by somebody else   *)
(* is between its unlink and its directory sync or left the key undecided  *)
(* (use-bridge-store.ts, deletePrefix and doDeleteMany: every failure      *)
(* reaches the caller).                                                    *)
PrefixIsGone ==
  [][sweep.at # "resolved" /\ sweep'.at = "resolved" /\ sweep.deletes =>
       \A k \in sweep.store \ disturbed :
         Idle(k) => ~IsPending(k) /\ stable[k] = NoVal]_<<vars, sweepVars>>

(* Every flush() and every enumerating call settles, whatever fails and    *)
(* whatever is admitted meanwhile: socket teardown waits for them.         *)
StoreCallsSettle == FlushSettles /\ (Sweeping ~> ~Sweeping)
=============================================================================
