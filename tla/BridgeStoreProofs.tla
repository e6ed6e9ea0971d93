-------------------------- MODULE BridgeStoreProofs --------------------------
(***************************************************************************)
(* The per-key file store and its enumerating calls: type correctness,     *)
(* durability, its timers, its flushes, its listings and its deletePrefix, *)
(* for every set of keys, contents and flushers and every bound.           *)
(***************************************************************************)
EXTENDS StoreSweep, FiniteSetTheorems, TLAPS

-----------------------------------------------------------------------------
(* Types *)

MemOK ==
  /\ pending \in [Keys -> Entries]
  /\ durable \in [Keys -> Contents]
  /\ uncertain \subseteq Keys

DiskOK ==
  /\ disk \in [Keys -> Contents]
  /\ stable \in [Keys -> Contents]

ChainOK ==
  /\ job \in [Keys -> Requests]
  /\ stage \in [Keys -> {"idle", "write", "rename", "sync", "read", "unlink",
                         "unlinkSync", "absentSync"}]
  /\ saved \in [Keys -> Saved]
  /\ waiting \in [Keys -> Seq(Requests)]
  /\ admitted \subseteq Nat

FlushOK ==
  /\ flusher \in [Flushers -> {"idle", "barrier", "drain", "resolved", "rejected"}]
  /\ outstanding \in [Flushers -> SUBSET Nat]
  /\ draining \in [Flushers -> SUBSET Keys]
  /\ passFailed \in [Flushers -> BOOLEAN]
  /\ errors \in [Flushers -> BOOLEAN]
  /\ passes \in [Flushers -> Nat]

CountOK ==
  /\ calls \in Nat
  /\ crashes \in Nat
  /\ acked \in [Keys -> Contents \cup {Unknown}]

LEMMA TypeParts ==
  /\ TypeOK <=> MemOK /\ DiskOK /\ ChainOK /\ FlushOK /\ CountOK
  /\ TypeOK' <=> MemOK' /\ DiskOK' /\ ChainOK' /\ FlushOK' /\ CountOK'
BY DEF TypeOK, MemOK, DiskOK, ChainOK, FlushOK, CountOK

LEMMA NoEntryType == NoEntry \in Entries
BY DEF NoEntry, Entries, Contents

LEMMA NoRequestType == NoRequest \in Requests
BY DEF NoRequest, Requests, Contents

LEMMA NothingSavedType == NothingSaved \in Saved
BY NoEntryType DEF NothingSaved, Saved, Contents

LEMMA InitTypes == Init => TypeOK
<1> SUFFICES ASSUME Init PROVE TypeOK
  OBVIOUS
<1>1. MemOK
  BY NoEntryType DEF Init, MemOK, Contents
<1>2. DiskOK
  BY DEF Init, DiskOK
<1>3. ChainOK
  BY NoRequestType, NothingSavedType DEF Init, ChainOK
<1>4. FlushOK
  BY DEF Init, FlushOK
<1>5. CountOK
  BY DEF Init, CountOK
<1> QED
  BY <1>1, <1>2, <1>3, <1>4, <1>5, TypeParts

(* The request at the head of a chain, and what is left of the chain. *)
LEMMA StartsTypes ==
  ASSUME ChainOK, NEW k \in Keys, NEW kind, Starts(k, kind)
  PROVE  Request(k) \in Requests /\ waiting' \in [Keys -> Seq(Requests)]
<1>1. waiting[k] \in Seq(Requests) /\ waiting[k] # <<>>
  BY DEF ChainOK, Starts
<1>2. Head(waiting[k]) \in Requests /\ Tail(waiting[k]) \in Seq(Requests)
  BY <1>1
<1> QED
  BY <1>2 DEF ChainOK, Starts, Request

(* A settled operation leaves chains and flushes well typed ... *)
LEMMA SettleTypes ==
  ASSUME ChainOK, FlushOK, NEW k \in Keys, NEW r \in Requests, NEW ok \in BOOLEAN,
         waiting' \in [Keys -> Seq(Requests)], Settle(k, r, ok)
  PROVE  ChainOK' /\ FlushOK'
<1>1. ChainOK'
  BY NoRequestType, NothingSavedType DEF Settle, ChainOK
<1>2. FlushOK'
  BY DEF Settle, FlushOK
<1> QED
  BY <1>1, <1>2

(* ... and so does one that goes on to await something else. *)
LEMMA GoToTypes ==
  ASSUME ChainOK, FlushOK, NEW k \in Keys, NEW r \in Requests,
         NEW at \in {"idle", "write", "rename", "sync", "read", "unlink",
                     "unlinkSync", "absentSync"},
         waiting' \in [Keys -> Seq(Requests)], saved' \in [Keys -> Saved],
         GoTo(k, r, at)
  PROVE  ChainOK' /\ FlushOK'
BY DEF GoTo, ChainOK, FlushOK, flushVars

LEMMA RememberTypes ==
  ASSUME MemOK, NEW k \in Keys, NEW val \in Contents, Remember(k, val)
  PROVE  durable' \in [Keys -> Contents]
BY DEF Remember, MemOK, Contents

LEMMA WrittenType ==
  ASSUME MemOK, ChainOK, NEW k \in Keys
  PROVE  Written(k) \in Contents
BY DEF Written, MemOK, ChainOK, Entries, Requests, Contents

LEMMA KeepEntryTypes ==
  ASSUME MemOK, ChainOK, NEW k \in Keys, KeepEntry(k)
  PROVE  pending' \in [Keys -> Entries]
<1> DEFINE kept == [pending[k] EXCEPT !.missed = TRUE,
                                     !.failedFor = @ \cup ({job[k].by} \cap Flushers)]
<1>1. pending \in [Keys -> Entries]
  BY DEF MemOK
<1>2. kept \in Entries
  BY <1>1 DEF Entries
<1>3. pending' = pending \/ pending' = [pending EXCEPT ![k] = kept]
  BY <1>1 DEF KeepEntry
<1> HIDE DEF kept
<1> QED
  BY <1>1, <1>2, <1>3

LEMMA RestoreTypes ==
  ASSUME MemOK, ChainOK, NEW k \in Keys, Restore(k)
  PROVE  pending' \in [Keys -> Entries] /\ durable' \in [Keys -> Contents]
<1>1. saved[k] \in Saved
  BY DEF ChainOK
<1>2. saved[k].durable \in Contents /\ saved[k].entry \in Entries
  BY <1>1 DEF Saved
<1>3. durable' \in [Keys -> Contents]
  BY <1>2, RememberTypes DEF Restore, MemOK
<1>4. [saved[k].entry EXCEPT !.timer = "armed"] \in Entries
  BY <1>2 DEF Entries
<1>5. pending' \in [Keys -> Entries]
  BY <1>4 DEF Restore, MemOK
<1> QED
  BY <1>3, <1>5

LEMMA UncertifiedTypes ==
  ASSUME TypeOK, NEW k \in Keys, waiting' = waiting, Uncertified(k)
  PROVE  MemOK' /\ ChainOK' /\ FlushOK' /\ acked' \in [Keys -> Contents \cup {Unknown}]
<1> USE TypeParts
<1>1. MemOK'
  BY KeepEntryTypes DEF Uncertified, MemOK, Contents
<1>2. ChainOK' /\ FlushOK'
  BY SettleTypes DEF Uncertified, ChainOK
<1>3. acked' \in [Keys -> Contents \cup {Unknown}]
  BY DEF Uncertified, AckUncertified, CountOK
<1> QED
  BY <1>1, <1>2, <1>3

LEMMA CertifiedTypes ==
  ASSUME TypeOK, NEW k \in Keys, waiting' = waiting, Certified(k)
  PROVE  MemOK' /\ ChainOK' /\ FlushOK' /\ acked' \in [Keys -> Contents \cup {Unknown}]
<1> USE TypeParts
<1>1. Written(k) \in Contents
  BY WrittenType
<1>2. pending' \in [Keys -> Entries]
  BY NoEntryType DEF Certified, MemOK
<1>3. MemOK'
  BY <1>1, <1>2, RememberTypes DEF Certified, MemOK
<1>4. ChainOK' /\ FlushOK'
  BY SettleTypes DEF Certified, ChainOK
<1>5. acked' \in [Keys -> Contents \cup {Unknown}]
  BY <1>1 DEF Certified, Acknowledge, CountOK
<1> QED
  BY <1>3, <1>4, <1>5

(* The actions outside the chains. *)
LEMMA CallTypes ==
  ASSUME TypeOK, NEW k \in Keys,
         NEW kind, NEW val, Admit(k, kind, val),
         (kind = "set" /\ val \in Vals) \/ (kind \in {"get", "delete"} /\ val = NoVal)
  PROVE  TypeOK'
<1> USE TypeParts
<1>1. calls + 1 \in Nat
  BY DEF CountOK
<1>2. [kind |-> kind, val |-> val, id |-> calls + 1, by |-> Timer] \in Requests
  BY <1>1 DEF Requests
<1>3. ChainOK'
  BY <1>1, <1>2 DEF Admit, ChainOK
<1>4. CountOK'
  BY <1>1 DEF Admit, CountOK
<1>5. MemOK' /\ DiskOK' /\ FlushOK'
  BY DEF Admit, MemOK, DiskOK, FlushOK, memVars, diskVars, flushVars
<1> QED
  BY <1>3, <1>4, <1>5

LEMMA TimerTypes ==
  ASSUME TypeOK, NEW k \in Keys, TimerFires(k)
  PROVE  TypeOK'
<1> USE TypeParts
<1>1. [kind |-> "flush", val |-> NoVal, id |-> 0, by |-> Timer] \in Requests
  BY DEF Requests, Contents
<1>2. MemOK'
  BY DEF TimerFires, MemOK, Entries
<1>3. ChainOK'
  BY <1>1 DEF TimerFires, ChainOK
<1>4. DiskOK' /\ FlushOK' /\ CountOK'
  BY DEF TimerFires, DiskOK, FlushOK, CountOK, diskVars, flushVars
<1> QED
  BY <1>2, <1>3, <1>4

LEMMA FlushTypes ==
  ASSUME TypeOK, NEW f \in Flushers, CallFlush(f) \/ FlushStep(f)
  PROVE  TypeOK'
<1> USE TypeParts
<1>1. CASE CallFlush(f)
  <2>1. MemOK'
    BY <1>1 DEF CallFlush, MemOK, Entries
  <2>2. FlushOK'
    BY <1>1 DEF CallFlush, FlushOK, ChainOK
  <2>3. DiskOK' /\ ChainOK' /\ CountOK'
    BY <1>1 DEF CallFlush, DiskOK, ChainOK, CountOK, diskVars, chainVars
  <2> QED
    BY <2>1, <2>2, <2>3
<1>2. ASSUME FlushEnds(f) \/ NextPass(f),
             UNCHANGED <<memVars, diskVars, chainVars, draining, passFailed, errors,
                         calls, crashes, acked>>
      PROVE  TypeOK'
  <2> USE <1>2
  <2>1. ASSUME FlushEnds(f) PROVE FlushOK'
    <3>1. flusher' \in {[flusher EXCEPT ![f] = how] : how \in {"resolved", "rejected"}}
      BY <2>1 DEF FlushEnds
    <3>2. flusher' \in [Flushers -> {"idle", "barrier", "drain", "resolved", "rejected"}]
      BY <3>1 DEF FlushOK
    <3> QED
      BY <2>1, <3>2 DEF FlushEnds, FlushOK
  <2>2. ASSUME passes[f] + 1 < MaxPasses, NextPass(f) PROVE FlushOK'
    <3>1. /\ passes' = [passes EXCEPT ![f] = @ + 1]
          /\ flusher' = [flusher EXCEPT ![f] = "barrier"]
          /\ outstanding' = [outstanding EXCEPT ![f] = admitted]
      BY <2>2 DEF NextPass
    <3> QED
      BY <3>1 DEF FlushOK, ChainOK
  <2>3. FlushOK'
    BY <2>1, <2>2 DEF NextPass
  <2>4. MemOK' /\ DiskOK' /\ ChainOK' /\ CountOK'
    BY DEF MemOK, DiskOK, ChainOK, CountOK, memVars, diskVars, chainVars
  <2> QED
    BY <2>3, <2>4
<1>3. CASE BarrierQuiet(f)
  BY <1>2, <1>3 DEF BarrierQuiet
<1>4. CASE BarrierDrains(f)
  <2>1. [kind |-> "flush", val |-> NoVal, id |-> 0, by |-> f] \in Requests
    BY DEF Requests, Contents
  <2>2. ChainOK'
    BY <1>4, <2>1 DEF BarrierDrains, ChainOK
  <2>3. FlushOK'
    BY <1>4 DEF BarrierDrains, FlushOK, Eligible
  <2>4. MemOK' /\ DiskOK' /\ CountOK'
    BY <1>4 DEF BarrierDrains, MemOK, DiskOK, CountOK, memVars, diskVars
  <2> QED
    BY <2>2, <2>3, <2>4
<1>5. CASE PassDrained(f)
  BY <1>2, <1>5 DEF PassDrained
<1> QED
  BY <1>1, <1>3, <1>4, <1>5 DEF FlushStep

LEMMA CrashTypes ==
  ASSUME TypeOK, Crash
  PROVE  TypeOK'
<1> USE TypeParts
<1>1. MemOK'
  BY NoEntryType DEF Crash, LosesMemory, MemOK, Contents
<1>2. DiskOK'
  BY DEF Crash, DiskOK
<1>3. ChainOK'
  BY NoRequestType, NothingSavedType DEF Crash, LosesMemory, ChainOK
<1>4. FlushOK'
  BY DEF Crash, LosesMemory, FlushOK
<1>5. CountOK'
  BY DEF Crash, LosesMemory, CountOK
<1> QED
  BY <1>1, <1>2, <1>3, <1>4, <1>5

(* The steps of a chain: set() and the start of a flushOne(), ... *)
LEMMA SetTypes ==
  ASSUME TypeOK, NEW k \in Keys,
         \/ SetSkips(k) \/ SetCritical(k) \/ SetDebounced(k)
         \/ FlushSkips(k) \/ FlushWrites(k)
  PROVE  TypeOK'
<1> USE TypeParts
<1>1. Request(k) \in Requests /\ waiting' \in [Keys -> Seq(Requests)]
  BY StartsTypes DEF SetSkips, SetCritical, SetDebounced, FlushSkips, FlushWrites
<1>2. Request(k).val \in Contents
  BY <1>1 DEF Requests, Contents
<1>3. DiskOK'
  BY DEF SetSkips, SetCritical, SetDebounced, FlushSkips, FlushWrites, DiskOK, diskVars
<1>4. CASE SetSkips(k)
  <2>1. ChainOK' /\ FlushOK'
    BY <1>1, <1>4, SettleTypes DEF SetSkips
  <2>2. MemOK' /\ CountOK'
    BY <1>2, <1>4 DEF SetSkips, Acknowledge, MemOK, CountOK, Entries
  <2> QED
    BY <1>3, <2>1, <2>2
<1>5. CASE SetCritical(k)
  <2>1. ChainOK' /\ FlushOK'
    BY <1>1, <1>5, GoToTypes DEF SetCritical, ChainOK
  <2>2. MemOK' /\ CountOK'
    BY <1>5 DEF SetCritical, MemOK, CountOK, memVars
  <2> QED
    BY <1>3, <2>1, <2>2
<1>6. CASE SetDebounced(k)
  <2>1. ChainOK' /\ FlushOK'
    BY <1>1, <1>6, SettleTypes DEF SetDebounced
  <2>2. MemOK' /\ CountOK'
    BY <1>2, <1>6 DEF SetDebounced, Acknowledge, MemOK, CountOK, Entries
  <2> QED
    BY <1>3, <2>1, <2>2
<1>7. CASE FlushSkips(k)
  <2>1. ChainOK' /\ FlushOK'
    BY <1>1, <1>7, SettleTypes DEF FlushSkips
  <2>2. MemOK' /\ CountOK'
    BY <1>7 DEF FlushSkips, MemOK, CountOK, memVars
  <2> QED
    BY <1>3, <2>1, <2>2
<1>8. CASE FlushWrites(k)
  <2>1. ChainOK' /\ FlushOK'
    BY <1>1, <1>8, GoToTypes DEF FlushWrites, ChainOK
  <2>2. MemOK' /\ CountOK'
    BY <1>8 DEF FlushWrites, MemOK, CountOK, Entries
  <2> QED
    BY <1>3, <2>1, <2>2
<1> QED
  BY <1>4, <1>5, <1>6, <1>7, <1>8

(* ... the durable write of either, ... *)
LEMMA WriteTypes ==
  ASSUME TypeOK, NEW k \in Keys, NEW ok \in BOOLEAN,
         WriteTmp(k, ok) \/ Publish(k, ok) \/ SyncDir(k, ok)
  PROVE  TypeOK'
<1> USE TypeParts
<1>1. job[k] \in Requests /\ Written(k) \in Contents
  BY WrittenType DEF ChainOK
<1>2. waiting' = waiting /\ waiting' \in [Keys -> Seq(Requests)] /\ calls' = calls /\ crashes' = crashes
  BY DEF WriteTmp, Publish, SyncDir, ChainOK
<1>3. CASE WriteTmp(k, ok)
  <2>1. DiskOK' /\ CountOK'
    BY <1>3 DEF WriteTmp, DiskOK, CountOK, diskVars
  <2>2. pending' \in [Keys -> Entries]
    BY <1>3, KeepEntryTypes DEF WriteTmp, MemOK
  <2>3. MemOK'
    BY <1>3, <2>2 DEF WriteTmp, MemOK
  <2>4. ChainOK' /\ FlushOK'
    <3>1. CASE ok
      BY <1>1, <1>2, <1>3, <3>1, GoToTypes DEF WriteTmp, ChainOK
    <3>2. CASE ~ok
      BY <1>1, <1>2, <1>3, <3>2, SettleTypes DEF WriteTmp
    <3> QED
      BY <3>1, <3>2
  <2> QED
    BY <2>1, <2>3, <2>4
<1>4. CASE Publish(k, ok)
  <2>1. DiskOK'
    BY <1>1, <1>4 DEF Publish, DiskOK
  <2>2. CASE ok
    <3>1. ChainOK' /\ FlushOK'
      BY <1>1, <1>2, <1>4, <2>2, GoToTypes DEF Publish, ChainOK
    <3>2. MemOK' /\ CountOK'
      BY <1>4, <2>2 DEF Publish, MemOK, CountOK, memVars
    <3> QED
      BY <2>1, <3>1, <3>2
  <2>3. CASE ~ok
    <3>1. Uncertified(k)
      BY <1>4, <2>3 DEF Publish
    <3> QED
      BY <1>2, <2>1, <3>1, UncertifiedTypes DEF CountOK
  <2> QED
    BY <2>2, <2>3
<1>5. CASE SyncDir(k, ok)
  <2>1. DiskOK'
    BY <1>5 DEF SyncDir, DiskOK
  <2>2. Certified(k) \/ Uncertified(k)
    BY <1>5 DEF SyncDir
  <2> QED
    BY <1>2, <2>1, <2>2, CertifiedTypes, UncertifiedTypes DEF CountOK
<1> QED
  BY <1>3, <1>4, <1>5

(* ... get(), ... *)
LEMMA GetTypes ==
  ASSUME TypeOK, NEW k \in Keys,
         GetHits(k) \/ GetMisses(k) \/ \E ok \in BOOLEAN : ReadFile(k, ok)
  PROVE  TypeOK'
<1> USE TypeParts
<1>1. DiskOK' /\ CountOK'
  BY DEF GetHits, GetMisses, ReadFile, DiskOK, CountOK, diskVars
<1>2. CASE GetHits(k)
  <2>1. ChainOK' /\ FlushOK'
    BY <1>2, StartsTypes, SettleTypes DEF GetHits
  <2> QED
    BY <1>1, <1>2, <2>1 DEF GetHits, MemOK, memVars
<1>3. CASE GetMisses(k)
  <2>1. ChainOK' /\ FlushOK'
    BY <1>3, StartsTypes, GoToTypes DEF GetMisses, ChainOK
  <2> QED
    BY <1>1, <1>3, <2>1 DEF GetMisses, MemOK, memVars
<1>4. ASSUME NEW ok \in BOOLEAN, ReadFile(k, ok) PROVE TypeOK'
  <2>1. ChainOK' /\ FlushOK'
    BY <1>4, SettleTypes DEF ReadFile, ChainOK
  <2>2. disk[k] \in Contents
    BY DEF DiskOK
  <2>3. durable' \in [Keys -> Contents]
    BY <1>4, <2>2, RememberTypes DEF ReadFile, MemOK
  <2>4. MemOK'
    BY <1>4, <2>3 DEF ReadFile, MemOK
  <2> QED
    BY <1>1, <2>1, <2>4
<1> QED
  BY <1>2, <1>3, <1>4

DeleteStep(k) ==
  \/ UnlinkFails(k) \/ UnlinkAbsent(k) \/ UnlinkUncertain(k) \/ Unlinked(k)
  \/ DeleteSynced(k) \/ UnlinkSyncFails(k) \/ AbsentSyncFails(k)

(* ... and delete(). *)
LEMMA DeleteTypes ==
  ASSUME TypeOK, NEW k \in Keys, DeleteStarts(k) \/ DeleteStep(k)
  PROVE  TypeOK'
<1> USE TypeParts
<1>1. CASE DeleteStarts(k)
  <2>1. saved' \in [Keys -> Saved]
    BY <1>1 DEF DeleteStarts, ChainOK, MemOK, Saved
  <2>2. ChainOK' /\ FlushOK'
    BY <1>1, <2>1, StartsTypes, GoToTypes DEF DeleteStarts
  <2>3. MemOK' /\ DiskOK' /\ CountOK'
    BY <1>1, NoEntryType DEF DeleteStarts, MemOK, DiskOK, CountOK, diskVars, Contents
  <2> QED
    BY <2>2, <2>3
<1>2. CASE DeleteStep(k)
  <2> USE <1>2
  <2>1. job[k] \in Requests
    BY DEF ChainOK
  <2>2. waiting' = waiting /\ waiting' \in [Keys -> Seq(Requests)] /\ calls' = calls /\ crashes' = crashes
    BY DEF DeleteStep, UnlinkFails, UnlinkAbsent, UnlinkUncertain, Unlinked, DeleteSynced,
           UnlinkSyncFails, AbsentSyncFails, ChainOK
  <2>3. \/ \E at \in {"absentSync", "unlinkSync"} : GoTo(k, job[k], at) /\ saved' = saved
        \/ \E ok \in BOOLEAN : Settle(k, job[k], ok)
    BY DEF DeleteStep, UnlinkFails, UnlinkAbsent, UnlinkUncertain, Unlinked, DeleteSynced,
           UnlinkSyncFails, AbsentSyncFails
  <2>4. ChainOK' /\ FlushOK'
    BY <2>1, <2>2, <2>3, GoToTypes, SettleTypes DEF ChainOK
  <2>5. DiskOK'
    BY DEF DeleteStep, UnlinkFails, UnlinkAbsent, UnlinkUncertain, Unlinked, DeleteSynced,
           UnlinkSyncFails, AbsentSyncFails, DiskOK, diskVars, Contents
  <2>6. Restore(k) \/ (pending' = pending /\ durable' = durable)
    BY DEF DeleteStep, UnlinkFails, UnlinkAbsent, UnlinkUncertain, Unlinked, DeleteSynced,
           UnlinkSyncFails, AbsentSyncFails, memVars
  <2>7. pending' \in [Keys -> Entries] /\ durable' \in [Keys -> Contents]
    BY <2>6, RestoreTypes DEF MemOK
  <2>8. MemOK'
    BY <2>7 DEF DeleteStep, UnlinkFails, UnlinkAbsent, UnlinkUncertain, Unlinked,
           DeleteSynced, UnlinkSyncFails, AbsentSyncFails, MemOK, memVars
  <2>9. acked' \in [Keys -> Contents \cup {Unknown}]
    BY DEF DeleteStep, UnlinkFails, UnlinkAbsent, UnlinkUncertain, Unlinked, DeleteSynced,
           UnlinkSyncFails, AbsentSyncFails, Acknowledge, CountOK, Contents
  <2> QED
    BY <2>2, <2>4, <2>5, <2>8, <2>9 DEF CountOK
<1> QED
  BY <1>1, <1>2

LEMMA NextTypes == TypeOK /\ [Next]_vars => TypeOK'
<1> SUFFICES ASSUME TypeOK, [Next]_vars PROVE TypeOK'
  OBVIOUS
<1> USE TypeParts
<1>1. ASSUME NEW k \in Keys, ChainStep(k) PROVE TypeOK'
  BY <1>1, SetTypes, WriteTypes, GetTypes, DeleteTypes DEF ChainStep, DeleteStep
<1>2. ASSUME NEW k \in Keys, NEW v \in Vals, CallSet(k, v) PROVE TypeOK'
  BY <1>2, CallTypes DEF CallSet, Contents
<1>3. ASSUME NEW k \in Keys, CallGet(k) \/ CallDelete(k) PROVE TypeOK'
  BY <1>3, CallTypes DEF CallGet, CallDelete, Contents
<1>4. ASSUME NEW k \in Keys, Writeback(k) PROVE TypeOK'
  <2>1. DiskOK'
    BY <1>4 DEF Writeback, DiskOK
  <2> QED
    BY <1>4, <2>1 DEF Writeback, MemOK, ChainOK, FlushOK, CountOK,
                      memVars, chainVars, flushVars
<1>5. CASE UNCHANGED vars
  BY <1>5 DEF vars, memVars, diskVars, chainVars, flushVars, TypeOK
<1> QED
  BY <1>1, <1>2, <1>3, <1>4, <1>5, TimerTypes, FlushTypes, CrashTypes DEF Next

(* The store's variables keep their types. *)
THEOREM TypeCorrect == Spec => []TypeOK
<1>1. Init => TypeOK
  BY InitTypes
<1> QED
  BY <1>1, NextTypes, PTL DEF Spec

-----------------------------------------------------------------------------
(* Durability under power loss.  Per key: *)

(* The file and its copy on stable storage differ only while a barrier is  *)
(* open, or after one has failed.                                          *)
BarrierClosed(k) ==
  k \notin uncertain /\ stage[k] \notin {"sync", "unlinkSync"} => stable[k] = disk[k]

(* The cache holds what the file holds, but for a file just renamed. *)
CacheOnDisk(k) ==
  durable[k] # NoVal =>
    /\ k \notin uncertain
    /\ stage[k] \notin {"unlink", "unlinkSync", "absentSync"}
    /\ stage[k] # "sync" => disk[k] = durable[k]

(* Who writes: a flush of a queued entry, or a critical set(). *)
WriterKnown(k) ==
  /\ stage[k] \in {"write", "rename", "sync"} =>
       \/ job[k].kind = "flush" /\ IsPending(k)
       \/ job[k].kind = "set" /\ k \in Critical
  /\ stage[k] = "sync" => disk[k] = Written(k)
  /\ IsPending(k) \/ saved[k].entry.val # NoVal => k \in Debounced

(* What a delete has captured is what it would restore. *)
DeleteCaptured(k) ==
  /\ stage[k] \in {"unlink", "unlinkSync", "absentSync"} => ~IsPending(k)
  /\ stage[k] \in {"unlinkSync", "absentSync"} => disk[k] = NoVal
  /\ stage[k] \in {"unlink", "absentSync"} =>
       /\ saved[k].uncertain <=> k \in uncertain
       /\ saved[k].durable # NoVal => k \notin uncertain /\ disk[k] = saved[k].durable
       /\ saved[k].entry.val # NoVal => acked[k] = saved[k].entry.val
  /\ stage[k] = "absentSync" => k \in uncertain

(* An acknowledged content is the queued one, or else the file's. *)
AckedIsHeld(k) ==
  /\ IsPending(k) => acked[k] = pending[k].val
  /\ acked[k] # Unknown =>
       \/ IsPending(k)
       \/ stage[k] \in {"sync", "unlinkSync"}
       \/ stage[k] \in {"unlink", "absentSync"} /\ saved[k].entry.val # NoVal
       \/ k \notin uncertain /\ disk[k] = acked[k]

KeyInv(k) ==
  /\ BarrierClosed(k)
  /\ CacheOnDisk(k)
  /\ WriterKnown(k)
  /\ DeleteCaptured(k)
  /\ AckedIsHeld(k)

DurableInv == \A k \in Keys : KeyInv(k)

(* A step that is not about key x: at most its timer or its failure marks  *)
(* change, its certification is evicted, or its file reaches the disk.     *)
Same(x) ==
  /\ pending'[x].val = pending[x].val
  /\ x \in uncertain' <=> x \in uncertain
  /\ durable'[x] \in {durable[x], NoVal}
  /\ disk'[x] = disk[x]
  /\ stable'[x] \in {stable[x], disk[x]}
  /\ job'[x] = job[x]
  /\ stage'[x] = stage[x]
  /\ saved'[x] = saved[x]
  /\ acked'[x] = acked[x]

LEMMA SameKeeps ==
  ASSUME NEW x \in Keys, KeyInv(x), Same(x)
  PROVE  KeyInv(x)'
<1> USE DEF KeyInv, Same
<1>1. BarrierClosed(x)'
  BY DEF BarrierClosed
<1>2. CacheOnDisk(x)'
  BY DEF CacheOnDisk
<1>3. WriterKnown(x)'
  BY DEF WriterKnown, IsPending, Written
<1>4. DeleteCaptured(x)'
  BY DEF DeleteCaptured, IsPending
<1>5. AckedIsHeld(x)'
  BY DEF AckedIsHeld, IsPending
<1> QED
  BY <1>1, <1>2, <1>3, <1>4, <1>5

(* What the invariant asks of a key whose operation has just settled. *)
LEMMA SettledKeeps ==
  ASSUME NEW k \in Keys,
         stage'[k] = "idle", saved'[k] = NothingSaved,
         k \notin uncertain' => stable'[k] = disk'[k],
         durable'[k] # NoVal => k \notin uncertain' /\ disk'[k] = durable'[k],
         IsPending(k)' => k \in Debounced /\ acked'[k] = pending'[k].val,
         acked'[k] # Unknown =>
           IsPending(k)' \/ (k \notin uncertain' /\ disk'[k] = acked'[k])
  PROVE  KeyInv(k)'
<1>1. BarrierClosed(k)'
  BY DEF BarrierClosed
<1>2. CacheOnDisk(k)'
  BY DEF CacheOnDisk
<1>3. WriterKnown(k)'
  BY DEF WriterKnown, NothingSaved, NoEntry
<1>4. DeleteCaptured(k)'
  BY DEF DeleteCaptured
<1>5. AckedIsHeld(k)'
  BY DEF AckedIsHeld
<1> QED
  BY <1>1, <1>2, <1>3, <1>4, <1>5 DEF KeyInv

LEMMA SettleAt ==
  ASSUME TypeOK, NEW k \in Keys, NEW r, NEW ok, Settle(k, r, ok)
  PROVE  /\ stage'[k] = "idle" /\ saved'[k] = NothingSaved
         /\ \A x \in Keys \ {k} :
              job'[x] = job[x] /\ stage'[x] = stage[x] /\ saved'[x] = saved[x]
BY DEF Settle, TypeOK

LEMMA GoToAt ==
  ASSUME TypeOK, NEW k \in Keys, NEW r, NEW at, GoTo(k, r, at)
  PROVE  /\ job'[k] = r /\ stage'[k] = at
         /\ \A x \in Keys \ {k} : job'[x] = job[x] /\ stage'[x] = stage[x]
BY DEF GoTo, TypeOK

LEMMA RememberAt ==
  ASSUME TypeOK, NEW k \in Keys, NEW val, Remember(k, val)
  PROVE  /\ durable'[k] = val
         /\ \A x \in Keys \ {k} : durable'[x] \in {durable[x], NoVal}
BY DEF Remember, TypeOK

LEMMA RestoreAt ==
  ASSUME TypeOK, NEW k \in Keys, Restore(k)
  PROVE  /\ durable'[k] = IF saved[k].durable # NoVal THEN saved[k].durable ELSE durable[k]
         /\ pending'[k].val = IF saved[k].entry.val # NoVal
                              THEN saved[k].entry.val ELSE pending[k].val
         /\ \A x \in Keys \ {k} :
              pending'[x] = pending[x] /\ durable'[x] \in {durable[x], NoVal}
<1>1. /\ durable'[k] = IF saved[k].durable # NoVal THEN saved[k].durable ELSE durable[k]
      /\ \A x \in Keys \ {k} : durable'[x] \in {durable[x], NoVal}
  BY RememberAt DEF Restore
<1>2. saved[k].entry \in Entries
  BY DEF TypeOK, Saved
<1>3. [saved[k].entry EXCEPT !.timer = "armed"].val = saved[k].entry.val
  BY <1>2 DEF Entries
<1>4. /\ pending'[k].val = IF saved[k].entry.val # NoVal
                           THEN saved[k].entry.val ELSE pending[k].val
      /\ \A x \in Keys \ {k} : pending'[x] = pending[x]
  BY <1>3 DEF Restore, TypeOK
<1> QED
  BY <1>1, <1>4

LEMMA KeepEntryAt ==
  ASSUME TypeOK, NEW k \in Keys, KeepEntry(k)
  PROVE  \A x \in Keys : pending'[x].val = pending[x].val
BY DEF KeepEntry, TypeOK, Entries

LEMMA UncertifiedAt ==
  ASSUME TypeOK, NEW k \in Keys, Uncertified(k)
  PROVE  /\ stage'[k] = "idle" /\ saved'[k] = NothingSaved
         /\ durable'[k] = NoVal /\ k \in uncertain'
         /\ pending'[k].val = pending[k].val
         /\ acked'[k] = IF job[k].kind = "flush" THEN acked[k] ELSE Unknown
         /\ \A x \in Keys \ {k} :
              /\ pending'[x].val = pending[x].val
              /\ x \in uncertain' <=> x \in uncertain
              /\ durable'[x] = durable[x] /\ acked'[x] = acked[x]
              /\ job'[x] = job[x] /\ stage'[x] = stage[x] /\ saved'[x] = saved[x]
<1>1. \A x \in Keys : pending'[x].val = pending[x].val
  BY KeepEntryAt DEF Uncertified
<1>2. /\ stage'[k] = "idle" /\ saved'[k] = NothingSaved
      /\ \A x \in Keys \ {k} :
           job'[x] = job[x] /\ stage'[x] = stage[x] /\ saved'[x] = saved[x]
  BY SettleAt DEF Uncertified
<1> QED
  BY <1>1, <1>2 DEF Uncertified, AckUncertified, TypeOK

LEMMA CertifiedAt ==
  ASSUME TypeOK, NEW k \in Keys, Certified(k)
  PROVE  /\ stage'[k] = "idle" /\ saved'[k] = NothingSaved
         /\ durable'[k] = Written(k) /\ k \notin uncertain'
         /\ IF job[k].kind = "flush"
            THEN pending'[k] = NoEntry /\ acked'[k] = acked[k]
            ELSE pending'[k] = pending[k] /\ acked'[k] = Written(k)
         /\ \A x \in Keys \ {k} :
              /\ pending'[x] = pending[x]
              /\ x \in uncertain' <=> x \in uncertain
              /\ durable'[x] \in {durable[x], NoVal} /\ acked'[x] = acked[x]
              /\ job'[x] = job[x] /\ stage'[x] = stage[x] /\ saved'[x] = saved[x]
<1>1. durable'[k] = Written(k) /\ \A x \in Keys \ {k} : durable'[x] \in {durable[x], NoVal}
  BY RememberAt DEF Certified
<1>2. /\ stage'[k] = "idle" /\ saved'[k] = NothingSaved
      /\ \A x \in Keys \ {k} :
           job'[x] = job[x] /\ stage'[x] = stage[x] /\ saved'[x] = saved[x]
  BY SettleAt DEF Certified
<1> QED
  BY <1>1, <1>2 DEF Certified, Acknowledge, TypeOK

LEMMA OneKey ==
  ASSUME DurableInv, NEW k \in Keys, KeyInv(k)', \A x \in Keys \ {k} : Same(x)
  PROVE  DurableInv'
BY SameKeeps DEF DurableInv

(* The steps of set() and flushOne() before the write. *)
LEMMA SetKeeps ==
  ASSUME TypeOK, DurableInv, NEW k \in Keys,
         \/ SetSkips(k) \/ SetCritical(k) \/ SetDebounced(k)
         \/ FlushSkips(k) \/ FlushWrites(k)
  PROVE  DurableInv'
<1> USE DEF TypeOK
<1>1. KeyInv(k)
  BY DEF DurableInv
<1>2. k \in Critical \/ k \in Debounced
  BY DEF Keys
<1>3. stage[k] = "idle" /\ Request(k) \in Requests
  BY StartsTypes, TypeParts DEF Starts, SetSkips, SetCritical, SetDebounced, FlushSkips, FlushWrites
<1>4. CASE SetSkips(k)
  <2>1. Request(k).val # NoVal
    BY <1>3, <1>4, StoreAssumption DEF SetSkips, Starts, Request, Requests
  <2>2. /\ \A x \in Keys : pending'[x].val = pending[x].val
        /\ UNCHANGED <<durable, uncertain, diskVars>>
        /\ acked' = [acked EXCEPT ![k] = Request(k).val]
    BY <1>4 DEF SetSkips, Acknowledge, Entries
  <2>3. \A x \in Keys \ {k} : Same(x)
    BY <1>4, <2>2, SettleAt DEF Same, SetSkips, diskVars
  <2>4. stage'[k] = "idle" /\ saved'[k] = NothingSaved
    BY <1>4, SettleAt DEF SetSkips
  <2>5. (IsPending(k) /\ pending[k].val = Request(k).val)
          \/ (~IsPending(k) /\ durable[k] = Request(k).val)
    BY <1>4 DEF SetSkips, Skips
  <2>6. KeyInv(k)'
    <3>1. k \notin uncertain' => stable'[k] = disk'[k]
      BY <1>1, <1>3, <2>2 DEF KeyInv, BarrierClosed, diskVars
    <3>2. durable'[k] # NoVal => k \notin uncertain' /\ disk'[k] = durable'[k]
      BY <1>1, <1>3, <2>2 DEF KeyInv, CacheOnDisk, diskVars
    <3>3. IsPending(k)' => k \in Debounced /\ acked'[k] = pending'[k].val
      BY <1>1, <2>2, <2>5 DEF KeyInv, WriterKnown, IsPending
    <3>4. IsPending(k)' \/ (k \notin uncertain' /\ disk'[k] = acked'[k])
      BY <1>1, <1>3, <2>1, <2>2, <2>5 DEF KeyInv, CacheOnDisk, IsPending, diskVars
    <3> QED
      BY <2>4, <3>1, <3>2, <3>3, <3>4, SettledKeeps
  <2> QED
    BY <2>3, <2>6, OneKey
<1>5. CASE SetCritical(k)
  <2>1. \A x \in Keys \ {k} : Same(x)
    BY <1>5, GoToAt DEF Same, SetCritical, memVars, diskVars
  <2>2. stage'[k] = "write" /\ job'[k].kind = "set"
    BY <1>5, GoToAt DEF SetCritical, Starts, Request
  <2>3. KeyInv(k)'
    BY <1>1, <1>3, <1>5, <2>2 DEF SetCritical, KeyInv, BarrierClosed, CacheOnDisk,
       WriterKnown, DeleteCaptured, AckedIsHeld, IsPending, memVars, diskVars
  <2> QED
    BY <2>1, <2>3, OneKey
<1>6. CASE SetDebounced(k)
  <2>1. Request(k).val # NoVal
    BY <1>3, <1>6, StoreAssumption DEF SetDebounced, Starts, Request, Requests
  <2>2. /\ pending'[k].val = Request(k).val /\ acked'[k] = Request(k).val
        /\ \A x \in Keys \ {k} : pending'[x] = pending[x] /\ acked'[x] = acked[x]
        /\ UNCHANGED <<durable, uncertain, diskVars>>
    BY <1>6 DEF SetDebounced, Acknowledge
  <2>3. \A x \in Keys \ {k} : Same(x)
    <3>1. \A x \in Keys \ {k} :
            job'[x] = job[x] /\ stage'[x] = stage[x] /\ saved'[x] = saved[x]
      BY <1>6, SettleAt DEF SetDebounced
    <3> QED
      BY <2>2, <3>1 DEF Same, diskVars
  <2>4. stage'[k] = "idle" /\ saved'[k] = NothingSaved /\ k \in Debounced
    BY <1>6, SettleAt DEF SetDebounced
  <2>5. KeyInv(k)'
    BY <1>1, <1>3, <2>1, <2>2, <2>4, SettledKeeps
       DEF KeyInv, BarrierClosed, CacheOnDisk, IsPending, diskVars
  <2> QED
    BY <2>3, <2>5, OneKey
<1>7. CASE FlushSkips(k)
  <2>1. \A x \in Keys \ {k} : Same(x)
    BY <1>7, SettleAt DEF Same, FlushSkips, memVars, diskVars
  <2>2. stage'[k] = "idle" /\ saved'[k] = NothingSaved
    BY <1>7, SettleAt DEF FlushSkips
  <2>3. KeyInv(k)'
    BY <1>1, <1>3, <1>7, <2>2, SettledKeeps
       DEF FlushSkips, KeyInv, BarrierClosed, CacheOnDisk, WriterKnown, AckedIsHeld,
           IsPending, memVars, diskVars
  <2> QED
    BY <2>1, <2>3, OneKey
<1>8. CASE FlushWrites(k)
  <2>1. /\ \A x \in Keys : pending'[x].val = pending[x].val
        /\ UNCHANGED <<durable, uncertain, diskVars, saved, acked>>
    BY <1>8 DEF FlushWrites, Entries
  <2>2. \A x \in Keys \ {k} : Same(x)
    BY <1>8, <2>1, GoToAt DEF Same, FlushWrites, diskVars
  <2>3. stage'[k] = "write" /\ job'[k].kind = "flush" /\ IsPending(k)
    BY <1>8, GoToAt DEF FlushWrites, Starts, Request
  <2>4. KeyInv(k)'
    BY <1>1, <1>3, <2>1, <2>3 DEF KeyInv, BarrierClosed, CacheOnDisk,
       WriterKnown, DeleteCaptured, AckedIsHeld, IsPending, diskVars
  <2> QED
    BY <2>2, <2>4, OneKey
<1> QED
  BY <1>4, <1>5, <1>6, <1>7, <1>8

(* A barrier that failed voids the certification, so nothing is claimed of *)
(* the file; a queued entry is still queued.                               *)
LEMMA UncertifiedKeeps ==
  ASSUME TypeOK, NEW k \in Keys, KeyInv(k), stage[k] \in {"rename", "sync"}, Uncertified(k)
  PROVE  KeyInv(k)'
<1>1. (job[k].kind = "flush" /\ IsPending(k)) \/ (job[k].kind = "set" /\ ~IsPending(k))
  <2>1. IsPending(k) => k \notin Critical
    BY StoreAssumption DEF KeyInv, WriterKnown
  <2>2. (job[k].kind = "flush" /\ IsPending(k)) \/ (job[k].kind = "set" /\ k \in Critical)
    BY DEF KeyInv, WriterKnown
  <2> QED
    BY <2>1, <2>2
<1>2. IsPending(k)' => k \in Debounced /\ acked'[k] = pending'[k].val
  BY <1>1, UncertifiedAt DEF KeyInv, WriterKnown, AckedIsHeld, IsPending
<1>3. acked'[k] # Unknown => IsPending(k)'
  BY <1>1, UncertifiedAt DEF IsPending
<1> QED
  BY <1>2, <1>3, UncertifiedAt, SettledKeeps

(* The durable write. *)
LEMMA WriteKeeps ==
  ASSUME TypeOK, DurableInv, NEW k \in Keys, NEW ok \in BOOLEAN,
         WriteTmp(k, ok) \/ Publish(k, ok) \/ SyncDir(k, ok)
  PROVE  DurableInv'
<1>1. KeyInv(k)
  BY DEF DurableInv
<1>2. Written(k) \in Contents /\ (job[k].kind = "flush" => Written(k) = pending[k].val)
  BY WrittenType, TypeParts DEF Written
<1>3. CASE WriteTmp(k, ok) /\ ok
  <2>1. \A x \in Keys \ {k} : Same(x)
    BY <1>3, GoToAt DEF Same, WriteTmp, diskVars
  <2>2. stage'[k] = "rename" /\ job'[k] = job[k] /\ stage[k] = "write"
    BY <1>3, GoToAt DEF WriteTmp
  <2>3. KeyInv(k)'
    BY <1>1, <1>3, <2>2 DEF WriteTmp, KeyInv, BarrierClosed, CacheOnDisk, WriterKnown,
       DeleteCaptured, AckedIsHeld, IsPending, diskVars
  <2> QED
    BY <2>1, <2>3, OneKey
<1>4. CASE WriteTmp(k, ok) /\ ~ok
  <2>1. \A x \in Keys : pending'[x].val = pending[x].val
    BY <1>4, KeepEntryAt DEF WriteTmp
  <2>2. \A x \in Keys \ {k} : Same(x)
    BY <1>4, <2>1, SettleAt DEF Same, WriteTmp, diskVars
  <2>3. stage'[k] = "idle" /\ saved'[k] = NothingSaved /\ stage[k] = "write"
    BY <1>4, SettleAt DEF WriteTmp
  <2>4. KeyInv(k)'
    BY <1>1, <1>4, <2>1, <2>3, SettledKeeps
       DEF WriteTmp, KeyInv, BarrierClosed, CacheOnDisk, WriterKnown, AckedIsHeld,
           IsPending, diskVars
  <2> QED
    BY <2>2, <2>4, OneKey
<1>5. CASE Publish(k, ok) /\ ok
  <2>1. /\ disk'[k] = Written(k) /\ \A x \in Keys \ {k} : disk'[x] = disk[x]
        /\ UNCHANGED <<memVars, stable, saved, acked>>
    BY <1>5 DEF Publish, TypeOK
  <2>2. stage'[k] = "sync" /\ job'[k] = job[k] /\ stage[k] = "rename"
    BY <1>5, GoToAt DEF Publish
  <2>3. \A x \in Keys \ {k} : Same(x)
    BY <1>5, <2>1, GoToAt DEF Same, Publish, memVars
  <2>4. BarrierClosed(k)' /\ CacheOnDisk(k)'
    BY <1>1, <2>1, <2>2 DEF KeyInv, BarrierClosed, CacheOnDisk, memVars
  <2>5. Written(k)' = Written(k)
    BY <2>1, <2>2 DEF Written, memVars
  <2>6. WriterKnown(k)' /\ DeleteCaptured(k)' /\ AckedIsHeld(k)'
    BY <1>1, <2>1, <2>2, <2>5
       DEF KeyInv, WriterKnown, DeleteCaptured, AckedIsHeld, IsPending, memVars
  <2> QED
    BY <2>3, <2>4, <2>6, OneKey DEF KeyInv
<1>6. CASE Publish(k, ok) /\ ~ok
  <2>1. Uncertified(k) /\ stage[k] = "rename" /\ stable' = stable
    BY <1>6 DEF Publish
  <2>2. \A x \in Keys \ {k} : disk'[x] = disk[x]
    BY <1>6 DEF Publish, TypeOK
  <2>3. \A x \in Keys \ {k} : Same(x)
    BY <2>1, <2>2, UncertifiedAt DEF Same
  <2>4. KeyInv(k)'
    BY <1>1, <2>1, UncertifiedKeeps
  <2> QED
    BY <2>3, <2>4, OneKey
<1>7. CASE SyncDir(k, ok) /\ ok
  <2>1. Certified(k) /\ stage[k] = "sync" /\ stable' = disk /\ disk' = disk
    BY <1>7 DEF SyncDir
  <2>2. \A x \in Keys \ {k} : Same(x)
    BY <2>1, CertifiedAt DEF Same
  <2>3. disk[k] = Written(k)
    BY <1>1, <2>1 DEF KeyInv, WriterKnown
  <2>4. IsPending(k)' => k \in Debounced /\ acked'[k] = pending'[k].val
    <3>1. CASE job[k].kind = "flush"
      BY <2>1, <3>1, CertifiedAt DEF IsPending, NoEntry
    <3>2. CASE job[k].kind # "flush"
      <4>1. k \in Critical
        BY <1>1, <2>1, <3>2 DEF KeyInv, WriterKnown
      <4> QED
        BY <1>1, <2>1, <3>2, <4>1, CertifiedAt, StoreAssumption
           DEF KeyInv, WriterKnown, IsPending
    <3> QED
      BY <3>1, <3>2
  <2>5. acked'[k] # Unknown => k \notin uncertain' /\ disk'[k] = acked'[k]
    BY <1>1, <1>2, <2>1, <2>3, CertifiedAt DEF KeyInv, WriterKnown, AckedIsHeld
  <2> QED
    BY <2>1, <2>2, <2>3, <2>4, <2>5, CertifiedAt, SettledKeeps, OneKey
<1>8. CASE SyncDir(k, ok) /\ ~ok
  <2>1. Uncertified(k) /\ stage[k] = "sync" /\ UNCHANGED diskVars
    BY <1>8 DEF SyncDir, diskVars
  <2>2. \A x \in Keys \ {k} : Same(x)
    BY <2>1, UncertifiedAt DEF Same, diskVars
  <2>3. KeyInv(k)'
    BY <1>1, <2>1, UncertifiedKeeps
  <2> QED
    BY <2>2, <2>3, OneKey
<1> QED
  BY <1>3, <1>4, <1>5, <1>6, <1>7, <1>8

(* get(). *)
LEMMA GetKeeps ==
  ASSUME TypeOK, DurableInv, NEW k \in Keys,
         GetHits(k) \/ GetMisses(k) \/ \E ok \in BOOLEAN : ReadFile(k, ok)
  PROVE  DurableInv'
<1>1. KeyInv(k)
  BY DEF DurableInv
<1>2. CASE GetHits(k)
  <2>1. \A x \in Keys \ {k} : Same(x)
    BY <1>2, SettleAt DEF Same, GetHits, memVars, diskVars
  <2>2. stage[k] = "idle" /\ stage'[k] = "idle" /\ saved'[k] = NothingSaved
    BY <1>2, SettleAt DEF GetHits, Starts
  <2>3. KeyInv(k)'
    BY <1>1, <1>2, <2>2, SettledKeeps
       DEF GetHits, KeyInv, BarrierClosed, CacheOnDisk, WriterKnown, AckedIsHeld,
           IsPending, memVars, diskVars
  <2> QED
    BY <2>1, <2>3, OneKey
<1>3. CASE GetMisses(k)
  <2>1. \A x \in Keys \ {k} : Same(x)
    BY <1>3, GoToAt DEF Same, GetMisses, memVars, diskVars
  <2>2. stage[k] = "idle" /\ stage'[k] = "read"
    BY <1>3, GoToAt DEF GetMisses, Starts
  <2>3. KeyInv(k)'
    BY <1>1, <1>3, <2>2 DEF GetMisses, KeyInv, BarrierClosed, CacheOnDisk, WriterKnown,
       DeleteCaptured, AckedIsHeld, IsPending, memVars, diskVars
  <2> QED
    BY <2>1, <2>3, OneKey
<1>4. ASSUME NEW ok \in BOOLEAN, ReadFile(k, ok) PROVE DurableInv'
  <2>1. stage[k] = "read" /\ stage'[k] = "idle" /\ saved'[k] = NothingSaved
    BY <1>4, SettleAt DEF ReadFile
  <2>2. \/ k \notin uncertain /\ durable'[k] = disk[k]
           /\ \A x \in Keys \ {k} : durable'[x] \in {durable[x], NoVal}
        \/ durable' = durable
    BY <1>4, RememberAt DEF ReadFile
  <2>3. \A x \in Keys \ {k} : Same(x)
    BY <1>4, <2>2, SettleAt DEF Same, ReadFile, diskVars
  <2>4. KeyInv(k)'
    BY <1>1, <1>4, <2>1, <2>2, SettledKeeps
       DEF ReadFile, KeyInv, BarrierClosed, CacheOnDisk, WriterKnown, AckedIsHeld,
           IsPending, diskVars
  <2> QED
    BY <2>3, <2>4, OneKey
<1> QED
  BY <1>2, <1>3, <1>4

(* delete(). *)
LEMMA DeleteKeeps ==
  ASSUME TypeOK, DurableInv, NEW k \in Keys, DeleteStarts(k) \/ DeleteStep(k)
  PROVE  DurableInv'
<1>1. KeyInv(k)
  BY DEF DurableInv
<1>2. CASE DeleteStarts(k)
  <2>1. /\ saved'[k] = [entry |-> pending[k], durable |-> durable[k],
                        uncertain |-> k \in uncertain]
        /\ pending'[k] = NoEntry /\ durable'[k] = NoVal
        /\ \A x \in Keys \ {k} :
             pending'[x] = pending[x] /\ durable'[x] = durable[x] /\ saved'[x] = saved[x]
        /\ UNCHANGED <<uncertain, diskVars, acked>>
    BY <1>2 DEF DeleteStarts, TypeOK
  <2>2. stage[k] = "idle" /\ stage'[k] = "unlink"
    BY <1>2, GoToAt DEF DeleteStarts, Starts
  <2>3. \A x \in Keys \ {k} : Same(x)
    BY <1>2, <2>1, GoToAt DEF Same, DeleteStarts, diskVars
  <2>4. BarrierClosed(k)' /\ CacheOnDisk(k)' /\ WriterKnown(k)'
    BY <1>1, <2>1, <2>2
       DEF KeyInv, BarrierClosed, CacheOnDisk, WriterKnown, IsPending, NoEntry, diskVars
  <2>5. saved'[k].uncertain <=> k \in uncertain
    <3>1. CASE k \in uncertain
      <4>1. (k \in uncertain) = TRUE
        BY <3>1
      <4>2. saved'[k] = [entry |-> pending[k], durable |-> durable[k], uncertain |-> TRUE]
        BY <2>1, <4>1, Zenon
      <4> QED
        BY <3>1, <4>2
    <3>2. CASE k \notin uncertain
      <4>1. (k \in uncertain) = FALSE
        BY <3>2
      <4>2. saved'[k] = [entry |-> pending[k], durable |-> durable[k], uncertain |-> FALSE]
        BY <2>1, <4>1, Zenon
      <4> QED
        BY <3>2, <4>2
    <3> QED
      BY <3>1, <3>2
  <2>6. saved'[k].entry = pending[k] /\ saved'[k].durable = durable[k]
    BY <2>1
  <2>7. DeleteCaptured(k)'
    BY <1>1, <2>1, <2>2, <2>5, <2>6
       DEF KeyInv, CacheOnDisk, DeleteCaptured, AckedIsHeld, IsPending, NoEntry, diskVars
  <2>8. AckedIsHeld(k)'
    BY <1>1, <2>1, <2>2, <2>6 DEF KeyInv, AckedIsHeld, IsPending, NoEntry, diskVars
  <2> QED
    BY <2>3, <2>4, <2>7, <2>8, OneKey DEF KeyInv
<1>3. CASE UnlinkFails(k) \/ AbsentSyncFails(k)
  <2>1. /\ Restore(k) /\ stage[k] \in {"unlink", "absentSync"}
        /\ UNCHANGED <<uncertain, diskVars, acked>>
    BY <1>3 DEF UnlinkFails, AbsentSyncFails
  <2>2. /\ stage'[k] = "idle" /\ saved'[k] = NothingSaved
        /\ \A x \in Keys \ {k} :
             job'[x] = job[x] /\ stage'[x] = stage[x] /\ saved'[x] = saved[x]
    BY <1>3, SettleAt DEF UnlinkFails, AbsentSyncFails
  <2>3. \A x \in Keys \ {k} : Same(x)
    BY <2>1, <2>2, RestoreAt DEF Same, diskVars
  <2>4. durable[k] = NoVal /\ pending[k].val = NoVal
    BY <1>1, <2>1 DEF KeyInv, CacheOnDisk, DeleteCaptured, IsPending
  <2>5. durable'[k] # NoVal => k \notin uncertain' /\ disk'[k] = durable'[k]
    BY <1>1, <2>1, <2>4, RestoreAt DEF KeyInv, DeleteCaptured, diskVars
  <2>6. IsPending(k)' => k \in Debounced /\ acked'[k] = pending'[k].val
    BY <1>1, <2>1, <2>4, RestoreAt DEF KeyInv, WriterKnown, DeleteCaptured, IsPending
  <2>7. acked'[k] # Unknown =>
          IsPending(k)' \/ (k \notin uncertain' /\ disk'[k] = acked'[k])
    BY <1>1, <2>1, <2>4, RestoreAt DEF KeyInv, AckedIsHeld, IsPending, diskVars
  <2>8. k \notin uncertain' => stable'[k] = disk'[k]
    BY <1>1, <2>1 DEF KeyInv, BarrierClosed, diskVars
  <2> QED
    BY <2>2, <2>3, <2>5, <2>6, <2>7, <2>8, SettledKeeps, OneKey
<1>4. CASE UnlinkUncertain(k)
  <2>1. \A x \in Keys \ {k} : Same(x)
    BY <1>4, GoToAt DEF Same, UnlinkUncertain, memVars, diskVars
  <2>2. stage[k] = "unlink" /\ stage'[k] = "absentSync"
    BY <1>4, GoToAt DEF UnlinkUncertain
  <2>3. KeyInv(k)'
    BY <1>1, <1>4, <2>2 DEF UnlinkUncertain, KeyInv, BarrierClosed, CacheOnDisk,
       WriterKnown, DeleteCaptured, AckedIsHeld, IsPending, memVars, diskVars
  <2> QED
    BY <2>1, <2>3, OneKey
<1>5. CASE Unlinked(k)
  <2>1. /\ disk'[k] = NoVal /\ \A x \in Keys \ {k} : disk'[x] = disk[x]
        /\ UNCHANGED <<memVars, stable, saved, acked>>
    BY <1>5 DEF Unlinked, TypeOK
  <2>2. \A x \in Keys \ {k} : Same(x)
    BY <1>5, <2>1, GoToAt DEF Same, Unlinked, memVars
  <2>3. stage[k] = "unlink" /\ stage'[k] = "unlinkSync"
    BY <1>5, GoToAt DEF Unlinked
  <2>4. KeyInv(k)'
    BY <1>1, <2>1, <2>3 DEF KeyInv, BarrierClosed, CacheOnDisk,
       WriterKnown, DeleteCaptured, AckedIsHeld, IsPending, memVars
  <2> QED
    BY <2>2, <2>4, OneKey
<1>6. CASE UnlinkAbsent(k) \/ DeleteSynced(k)
  <2>1. /\ stage[k] \in {"unlink", "unlinkSync", "absentSync"} /\ disk[k] = NoVal
        /\ pending' = pending /\ durable' = durable /\ disk' = disk
        /\ stable'[k] = disk[k] /\ k \notin uncertain'
        /\ acked'[k] = NoVal /\ \A x \in Keys \ {k} : acked'[x] = acked[x]
        /\ \A x \in Keys \ {k} :
             (x \in uncertain' <=> x \in uncertain) /\ stable'[x] \in {stable[x], disk[x]}
    BY <1>1, <1>6 DEF UnlinkAbsent, DeleteSynced, Acknowledge, TypeOK, memVars, diskVars,
       KeyInv, BarrierClosed, DeleteCaptured
  <2>2. /\ stage'[k] = "idle" /\ saved'[k] = NothingSaved
        /\ \A x \in Keys \ {k} :
             job'[x] = job[x] /\ stage'[x] = stage[x] /\ saved'[x] = saved[x]
    BY <1>6, SettleAt DEF UnlinkAbsent, DeleteSynced
  <2>3. \A x \in Keys \ {k} : Same(x)
    BY <2>1, <2>2 DEF Same
  <2>4. durable[k] = NoVal /\ pending[k].val = NoVal
    BY <1>1, <2>1 DEF KeyInv, CacheOnDisk, DeleteCaptured, IsPending
  <2>5. KeyInv(k)'
    BY <2>1, <2>2, <2>4, SettledKeeps DEF IsPending
  <2> QED
    BY <2>3, <2>5, OneKey
<1>7. CASE UnlinkSyncFails(k)
  <2>1. /\ stage[k] = "unlinkSync" /\ UNCHANGED <<pending, durable, diskVars>>
        /\ k \in uncertain' /\ acked'[k] = Unknown
        /\ \A x \in Keys \ {k} : (x \in uncertain' <=> x \in uncertain) /\ acked'[x] = acked[x]
    BY <1>7 DEF UnlinkSyncFails, Acknowledge, TypeOK
  <2>2. /\ stage'[k] = "idle" /\ saved'[k] = NothingSaved
        /\ \A x \in Keys \ {k} :
             job'[x] = job[x] /\ stage'[x] = stage[x] /\ saved'[x] = saved[x]
    BY <1>7, SettleAt DEF UnlinkSyncFails
  <2>3. \A x \in Keys \ {k} : Same(x)
    BY <2>1, <2>2 DEF Same, diskVars
  <2>4. durable[k] = NoVal /\ pending[k].val = NoVal
    BY <1>1, <2>1 DEF KeyInv, CacheOnDisk, DeleteCaptured, IsPending
  <2>5. KeyInv(k)'
    BY <2>1, <2>2, <2>4, SettledKeeps DEF IsPending
  <2> QED
    BY <2>3, <2>5, OneKey
<1> QED
  BY <1>2, <1>3, <1>4, <1>5, <1>6, <1>7 DEF DeleteStep

(* A power loss leaves what is on stable storage, and every content that   *)
(* is still claimed was there; the death of the process alone would not    *)
(* mend what a failed barrier had left open, so it is excluded.            *)
LEMMA CrashKeeps ==
  ASSUME TypeOK, DurableInv, ~ProcessCrashes, Crash
  PROVE  DurableInv'
<1> SUFFICES ASSUME NEW k \in Keys PROVE KeyInv(k)'
  BY DEF DurableInv
<1>1. KeyInv(k)
  BY DEF DurableInv
<1>2. /\ stage'[k] = "idle" /\ saved'[k] = NothingSaved
      /\ pending'[k] = NoEntry /\ durable'[k] = NoVal /\ uncertain' = {}
      /\ disk'[k] = stable[k] /\ stable'[k] = stable[k]
      /\ acked'[k] = IF \/ IsPending(k) \/ saved[k].entry.val # NoVal
                        \/ stage[k] \in {"sync", "unlinkSync"}
                     THEN Unknown ELSE acked[k]
  BY DEF Crash, LosesMemory
<1>3. acked'[k] # Unknown => disk'[k] = acked'[k]
  BY <1>1, <1>2 DEF KeyInv, BarrierClosed, AckedIsHeld
<1> QED
  BY <1>2, <1>3, SettledKeeps DEF IsPending, NoEntry

LEMMA NextKeeps ==
  ASSUME TypeOK, DurableInv, ~ProcessCrashes \/ crashes' = crashes, [Next]_vars
  PROVE  DurableInv'
<1>1. ASSUME \A x \in Keys : Same(x) PROVE DurableInv'
  BY <1>1, SameKeeps DEF DurableInv
<1>2. ASSUME NEW k \in Keys, ChainStep(k) PROVE DurableInv'
  BY <1>2, SetKeeps, WriteKeeps, GetKeeps, DeleteKeeps DEF ChainStep, DeleteStep
<1>3. ASSUME NEW k \in Keys, NEW kind, NEW val, Admit(k, kind, val) PROVE DurableInv'
  BY <1>1, <1>3 DEF Admit, Same, memVars, diskVars
<1>4. ASSUME NEW k \in Keys, TimerFires(k) PROVE DurableInv'
  <2>1. \A x \in Keys : pending'[x].val = pending[x].val
    BY <1>4 DEF TimerFires, TypeOK, Entries
  <2> QED
    BY <1>1, <1>4, <2>1 DEF TimerFires, Same, diskVars
<1>5. ASSUME NEW k \in Keys, Writeback(k) PROVE DurableInv'
  <2>1. \A x \in Keys : stable'[x] \in {stable[x], disk[x]}
    BY <1>5 DEF Writeback, TypeOK
  <2> QED
    BY <1>1, <1>5, <2>1 DEF Writeback, Same, memVars, chainVars
<1>6. ASSUME NEW f \in Flushers, CallFlush(f) PROVE DurableInv'
  <2>1. \A x \in Keys : pending'[x].val = pending[x].val
    BY <1>6 DEF CallFlush, TypeOK, Entries
  <2> QED
    BY <1>1, <1>6, <2>1 DEF CallFlush, Same, diskVars, chainVars
<1>7. ASSUME NEW f \in Flushers, FlushStep(f) PROVE DurableInv'
  <2>1. UNCHANGED <<memVars, diskVars, job, stage, saved, acked>>
    BY <1>7 DEF FlushStep, BarrierQuiet, BarrierDrains, PassDrained, chainVars
  <2> QED
    BY <1>1, <2>1 DEF Same, memVars, diskVars
<1>8. CASE UNCHANGED vars
  BY <1>1, <1>8 DEF vars, memVars, diskVars, chainVars, Same
<1>9. CASE Crash
  <2>1. crashes' # crashes
    BY <1>9 DEF Crash, LosesMemory, TypeOK
  <2> QED
    BY <1>9, <2>1, CrashKeeps
<1> QED
  BY <1>2, <1>3, <1>4, <1>5, <1>6, <1>7, <1>8, <1>9 DEF Next, CallSet, CallGet, CallDelete

LEMMA InitDurable == Init => DurableInv
<1> SUFFICES ASSUME Init, NEW k \in Keys PROVE KeyInv(k)
  BY DEF DurableInv
<1>1. BarrierClosed(k) /\ CacheOnDisk(k) /\ DeleteCaptured(k)
  BY DEF Init, BarrierClosed, CacheOnDisk, DeleteCaptured
<1>2. WriterKnown(k) /\ AckedIsHeld(k)
  BY DEF Init, WriterKnown, AckedIsHeld, IsPending, NoEntry, NothingSaved
<1> QED
  BY <1>1, <1>2 DEF KeyInv

THEOREM Durability ==
  ASSUME ~ProcessCrashes
  PROVE  Spec => []DurableInv
<1>1. TypeOK /\ DurableInv /\ [Next]_vars => DurableInv'
  BY NextKeeps
<1>2. Spec => []TypeOK
  BY TypeCorrect
<1> QED
  BY <1>1, <1>2, InitDurable, PTL DEF Spec

(* The cache only certifies what a power loss would leave. *)
THEOREM CacheIsStable ==
  ASSUME ~ProcessCrashes
  PROVE  Spec => []CertifiedIsStable
<1>1. DurableInv => CertifiedIsStable
  BY DEF DurableInv, KeyInv, BarrierClosed, CacheOnDisk, CertifiedIsStable
<1> QED
  BY <1>1, Durability, PTL

(* A get() answers what was last acknowledged for the key. *)
THEOREM ReadYourWrites ==
  ASSUME ~ProcessCrashes
  PROVE  Spec => []ReadsLastAcknowledged
<1>1. DurableInv => ReadsLastAcknowledged
  <2> SUFFICES ASSUME DurableInv, NEW k \in Keys, Idle(k), acked[k] # Unknown
               PROVE  View(k) = acked[k]
    BY DEF ReadsLastAcknowledged
  <2>1. KeyInv(k)
    BY DEF DurableInv
  <2>2. CASE IsPending(k)
    BY <2>1, <2>2 DEF KeyInv, AckedIsHeld, View, InMemory
  <2>3. CASE ~IsPending(k)
    BY <2>1, <2>3 DEF KeyInv, CacheOnDisk, AckedIsHeld, View, InMemory, Idle
  <2> QED
    BY <2>2, <2>3
<1> QED
  BY <1>1, Durability, PTL

(* What was acknowledged and is not queued survives a power loss. *)
THEOREM AcknowledgedIsDurable ==
  ASSUME ~ProcessCrashes
  PROVE  Spec => []AcknowledgedSurvives
<1>1. DurableInv => AcknowledgedSurvives
  BY DEF DurableInv, KeyInv, BarrierClosed, AckedIsHeld, AcknowledgedSurvives, Idle
<1> QED
  BY <1>1, Durability, PTL
-----------------------------------------------------------------------------
(* Chains as sequences *)

LEMMA Appended ==
  ASSUME NEW w \in Seq(Requests), NEW r
  PROVE  /\ DOMAIN Append(w, r) = DOMAIN w \cup {Len(w) + 1}
         /\ Len(w) + 1 \notin DOMAIN w
         /\ \A i \in DOMAIN w : Append(w, r)[i] = w[i]
         /\ Append(w, r)[Len(w) + 1] = r
OBVIOUS

LEMMA Shifted ==
  ASSUME NEW w \in Seq(Requests), w # <<>>
  PROVE  /\ 1 \in DOMAIN w /\ Head(w) = w[1]
         /\ \A i \in DOMAIN Tail(w) : i + 1 \in DOMAIN w /\ Tail(w)[i] = w[i + 1]
         /\ \A i \in DOMAIN w \ {1} : i - 1 \in DOMAIN Tail(w) /\ Tail(w)[i - 1] = w[i]
OBVIOUS

Busy(k) == stage[k] # "idle"

(* How a chain goes on: the next operation starts, and settles at once or  *)
(* awaits something; or the running one does.                              *)
StartSettles(k) == \E kind : Starts(k, kind) /\ \E ok \in BOOLEAN : Settle(k, Request(k), ok)

StartGoes(k) == \E kind : Starts(k, kind) /\ \E at : at # "idle" /\ GoTo(k, Request(k), at)

RunSettles(k) ==
  Busy(k) /\ waiting' = waiting /\ \E ok \in BOOLEAN : Settle(k, job[k], ok)

RunGoes(k) ==
  Busy(k) /\ waiting' = waiting /\ \E at : at # "idle" /\ GoTo(k, job[k], at)

LEMMA ChainForms ==
  ASSUME NEW k \in Keys, ChainStep(k)
  PROVE  /\ StartSettles(k) \/ StartGoes(k) \/ RunSettles(k) \/ RunGoes(k)
         /\ calls' = calls
<1>1. ASSUME \/ SetSkips(k) \/ SetDebounced(k) \/ FlushSkips(k) \/ GetHits(k)
      PROVE  StartSettles(k) /\ calls' = calls
  BY <1>1 DEF SetSkips, SetDebounced, FlushSkips, GetHits, StartSettles
<1>2. ASSUME \/ SetCritical(k) \/ FlushWrites(k) \/ GetMisses(k) \/ DeleteStarts(k)
      PROVE  StartGoes(k) /\ calls' = calls
  BY <1>2 DEF SetCritical, FlushWrites, GetMisses, DeleteStarts, StartGoes
<1>3. ASSUME DeleteStep(k) PROVE (RunSettles(k) \/ RunGoes(k)) /\ calls' = calls
  BY <1>3 DEF DeleteStep, UnlinkFails, UnlinkAbsent, UnlinkUncertain, Unlinked, DeleteSynced,
     UnlinkSyncFails, AbsentSyncFails, RunSettles, RunGoes, Busy
<1>4. ASSUME NEW ok \in BOOLEAN,
             WriteTmp(k, ok) \/ Publish(k, ok) \/ SyncDir(k, ok) \/ ReadFile(k, ok)
      PROVE  (RunSettles(k) \/ RunGoes(k)) /\ calls' = calls
  BY <1>4 DEF WriteTmp, Publish, SyncDir, ReadFile, Certified, Uncertified,
     RunSettles, RunGoes, Busy
<1> QED
  BY <1>1, <1>2, <1>3, <1>4 DEF ChainStep, DeleteStep

(* Another key's chain. *)
SameChain(x) ==
  /\ pending'[x] = pending[x]
  /\ job'[x] = job[x] /\ stage'[x] = stage[x] /\ saved'[x] = saved[x]
  /\ waiting'[x] = waiting[x]

LEMMA OtherChains ==
  ASSUME TypeOK, NEW k \in Keys, ChainStep(k), NEW x \in Keys \ {k}
  PROVE  SameChain(x)
<1>1. waiting'[x] = waiting[x]
  BY ChainForms DEF StartSettles, StartGoes, RunSettles, RunGoes, Starts, TypeOK
<1>2. job'[x] = job[x] /\ stage'[x] = stage[x]
  BY ChainForms, SettleAt, GoToAt DEF StartSettles, StartGoes, RunSettles, RunGoes
<1>3. saved'[x] = saved[x]
  <2>1. CASE StartSettles(k) \/ RunSettles(k)
    BY <2>1, SettleAt DEF StartSettles, RunSettles
  <2>2. CASE SetCritical(k) \/ FlushWrites(k) \/ GetMisses(k) \/ DeleteStarts(k)
    BY <2>2 DEF SetCritical, FlushWrites, GetMisses, DeleteStarts, TypeOK
  <2>3. ASSUME DeleteStep(k) PROVE saved'[x] = saved[x]
    BY <2>3, SettleAt DEF DeleteStep, UnlinkFails, UnlinkAbsent, UnlinkUncertain, Unlinked,
       DeleteSynced, UnlinkSyncFails, AbsentSyncFails
  <2>4. ASSUME NEW ok \in BOOLEAN,
               WriteTmp(k, ok) \/ Publish(k, ok) \/ SyncDir(k, ok) \/ ReadFile(k, ok)
        PROVE  saved'[x] = saved[x]
    BY <2>4, SettleAt DEF WriteTmp, Publish, SyncDir, ReadFile, Certified, Uncertified
  <2>5. CASE SetSkips(k) \/ SetDebounced(k) \/ FlushSkips(k) \/ GetHits(k)
    BY <2>5, SettleAt DEF SetSkips, SetDebounced, FlushSkips, GetHits
  <2> QED
    BY <2>2, <2>3, <2>4, <2>5 DEF ChainStep, DeleteStep
<1>4. pending'[x] = pending[x]
  <2>1. ASSUME DeleteStep(k) PROVE pending'[x] = pending[x]
    BY <2>1, RestoreAt DEF DeleteStep, UnlinkFails, UnlinkAbsent, UnlinkUncertain, Unlinked,
       DeleteSynced, UnlinkSyncFails, AbsentSyncFails, memVars
  <2>2. ASSUME NEW ok \in BOOLEAN,
               WriteTmp(k, ok) \/ Publish(k, ok) \/ SyncDir(k, ok) \/ ReadFile(k, ok)
        PROVE  pending'[x] = pending[x]
    BY <2>2 DEF WriteTmp, Publish, SyncDir, ReadFile, Certified, Uncertified, KeepEntry,
       memVars, TypeOK
  <2>3. CASE \/ SetSkips(k) \/ SetDebounced(k) \/ FlushSkips(k) \/ GetHits(k)
             \/ SetCritical(k) \/ FlushWrites(k) \/ GetMisses(k) \/ DeleteStarts(k)
    BY <2>3 DEF SetSkips, SetDebounced, FlushSkips, GetHits, SetCritical, FlushWrites,
       GetMisses, DeleteStarts, memVars, TypeOK
  <2> QED
    BY <2>1, <2>2, <2>3 DEF ChainStep, DeleteStep
<1> QED
  BY <1>1, <1>2, <1>3, <1>4 DEF SameChain
-----------------------------------------------------------------------------
(* Debounced writes and their timers *)

(* Which operation is at which await, and that a flush has what it writes. *)
JobKnown(k) ==
  /\ stage[k] \in {"write", "rename", "sync"} => job[k].kind \in {"set", "flush"}
  /\ stage[k] = "read" => job[k].kind = "get"
  /\ stage[k] \in {"unlink", "unlinkSync", "absentSync"} => job[k].kind = "delete"
  /\ Busy(k) /\ job[k].kind = "flush" => IsPending(k)
  /\ ~Busy(k) \/ job[k].kind # "delete" => saved[k] = NothingSaved

(* A timer that fired has left its own flushOne() on the chain, and no     *)
(* other flushOne() takes its place; only a queued entry has a timer, and  *)
(* a queued entry without one is being flushed or has missed a flush.      *)
TimerKnown(k) ==
  /\ pending[k].timer = "fired" => FlushQueued(k, Timer)
  /\ pending[k].timer # "off" => IsPending(k)
  /\ IsPending(k) /\ pending[k].timer = "off" =>
       (Busy(k) /\ job[k].kind = "flush") \/ pending[k].missed

TimersInv == \A k \in Keys : JobKnown(k) /\ TimerKnown(k)

(* A step that leaves what is said of x alone. *)
SameTimer(x) ==
  /\ pending'[x].val = pending[x].val /\ pending'[x].timer = pending[x].timer
  /\ pending'[x].missed = pending[x].missed
  /\ job'[x] = job[x] /\ stage'[x] = stage[x] /\ saved'[x] = saved[x]
  /\ FlushQueued(x, Timer) => FlushQueued(x, Timer)'

LEMMA SameTimerKeeps ==
  ASSUME NEW x \in Keys, JobKnown(x), TimerKnown(x), SameTimer(x)
  PROVE  JobKnown(x)' /\ TimerKnown(x)'
<1>1. JobKnown(x)'
  BY DEF SameTimer, JobKnown, Busy, IsPending
<1>2. TimerKnown(x)'
  BY DEF SameTimer, TimerKnown, Busy, IsPending
<1> QED
  BY <1>1, <1>2

LEMMA SameChainSameTimer ==
  ASSUME NEW x \in Keys, SameChain(x) PROVE SameTimer(x)
BY DEF SameChain, SameTimer, FlushQueued

(* A request that joins a chain leaves the others there. *)
LEMMA QueueGrows ==
  ASSUME TypeOK, NEW x \in Keys, NEW r,
         waiting'[x] = waiting[x] \/ waiting'[x] = Append(waiting[x], r)
  PROVE  FlushQueued(x, Timer) => FlushQueued(x, Timer)'
<1>1. waiting[x] \in Seq(Requests)
  BY DEF TypeOK
<1> QED
  BY <1>1, Appended DEF FlushQueued

(* What an operation leaves behind it on its chain. *)
LEMMA QueueShrinks ==
  ASSUME TypeOK, NEW k \in Keys, NEW kind, Starts(k, kind), FlushQueued(k, Timer),
         ~(Request(k).kind = "flush" /\ Request(k).by = Timer)
  PROVE  FlushQueued(k, Timer)'
<1>1. waiting[k] \in Seq(Requests) /\ waiting[k] # <<>> /\ waiting'[k] = Tail(waiting[k])
  BY DEF TypeOK, Starts
<1>2. PICK i \in DOMAIN waiting[k] : waiting[k][i].kind = "flush" /\ waiting[k][i].by = Timer
  BY DEF FlushQueued
<1>3. i # 1
  BY <1>1, <1>2, Shifted DEF Request
<1>4. i - 1 \in DOMAIN Tail(waiting[k]) /\ Tail(waiting[k])[i - 1] = waiting[k][i]
  BY <1>1, <1>3, Shifted
<1> QED
  BY <1>1, <1>2, <1>4 DEF FlushQueued

(* An operation that settles at its start. *)
LEMMA StartSettlesTimers ==
  ASSUME TypeOK, NEW k \in Keys, JobKnown(k), TimerKnown(k),
         SetSkips(k) \/ SetDebounced(k) \/ FlushSkips(k) \/ GetHits(k)
  PROVE  JobKnown(k)' /\ TimerKnown(k)'
<1>1. stage'[k] = "idle" /\ job'[k] = NoRequest /\ saved'[k] = NothingSaved
  BY DEF SetSkips, SetDebounced, FlushSkips, GetHits, Settle, TypeOK
<1>2. JobKnown(k)'
  BY <1>1 DEF JobKnown, Busy, NoRequest
<1>3. stage[k] = "idle" /\ pending[k] \in Entries
  BY DEF SetSkips, SetDebounced, FlushSkips, GetHits, Starts, TypeOK
<1>4. CASE SetSkips(k)
  <2>1. /\ pending'[k].val = pending[k].val /\ pending'[k].timer = pending[k].timer
    BY <1>3, <1>4 DEF SetSkips, TypeOK, Entries
  <2>2. FlushQueued(k, Timer) => FlushQueued(k, Timer)'
    BY <1>4, QueueShrinks DEF SetSkips, Starts, Request
  <2>3. IsPending(k) => pending[k].timer # "off"
    BY <1>4 DEF SetSkips, Skips
  <2> QED
    BY <1>2, <2>1, <2>2, <2>3 DEF TimerKnown, IsPending
<1>5. CASE SetDebounced(k)
  <2>1. pending'[k].timer = "armed" /\ pending'[k].val = Request(k).val
    BY <1>5 DEF SetDebounced, TypeOK
  <2>2. Request(k) \in Requests /\ Request(k).kind = "set"
    BY <1>5, StartsTypes, TypeParts DEF SetDebounced, Starts, Request
  <2>3. Request(k).val # NoVal
    BY <2>2, StoreAssumption DEF Requests
  <2> QED
    BY <1>2, <2>1, <2>3 DEF TimerKnown, IsPending
<1>6. CASE FlushSkips(k)
  <2>1. pending'[k] = pending[k]
    BY <1>6 DEF FlushSkips, memVars
  <2>2. Timer \notin pending[k].failedFor
    BY <1>3, StoreAssumption DEF Entries
  <2>3. IsPending(k) /\ FlushQueued(k, Timer) => FlushQueued(k, Timer)'
    BY <1>6, <2>2, QueueShrinks DEF FlushSkips
  <2> QED
    BY <1>2, <1>3, <2>1, <2>3 DEF TimerKnown, IsPending, Busy
<1>7. CASE GetHits(k)
  <2>1. pending'[k] = pending[k]
    BY <1>7 DEF GetHits, memVars
  <2>2. FlushQueued(k, Timer) => FlushQueued(k, Timer)'
    BY <1>7, QueueShrinks DEF GetHits, Starts, Request
  <2> QED
    BY <1>2, <1>3, <2>1, <2>2 DEF TimerKnown, IsPending, Busy
<1> QED
  BY <1>4, <1>5, <1>6, <1>7

(* An operation that has something to await. *)
LEMMA StartGoesTimers ==
  ASSUME TypeOK, NEW k \in Keys, JobKnown(k), TimerKnown(k),
         SetCritical(k) \/ FlushWrites(k) \/ GetMisses(k) \/ DeleteStarts(k)
  PROVE  JobKnown(k)' /\ TimerKnown(k)'
<1>1. /\ stage[k] = "idle" /\ pending[k] \in Entries
  BY DEF SetCritical, FlushWrites, GetMisses, DeleteStarts, Starts, TypeOK
<1>2. saved[k] = NothingSaved
  BY <1>1 DEF JobKnown, Busy
<1>3. CASE SetCritical(k)
  <2>1. stage'[k] = "write" /\ job'[k].kind = "set" /\ pending'[k] = pending[k]
    BY <1>3, GoToAt DEF SetCritical, Starts, Request, memVars
  <2>2. FlushQueued(k, Timer) => FlushQueued(k, Timer)'
    BY <1>3, QueueShrinks DEF SetCritical, Starts, Request
  <2>3. saved'[k] = saved[k]
    BY <1>3 DEF SetCritical
  <2> QED
    BY <1>1, <1>2, <2>1, <2>2, <2>3 DEF JobKnown, TimerKnown, IsPending, Busy
<1>4. CASE FlushWrites(k)
  <2>1. /\ stage'[k] = "write" /\ job'[k].kind = "flush" /\ IsPending(k)
        /\ saved'[k] = saved[k]
    BY <1>4, GoToAt DEF FlushWrites, Starts, Request
  <2>2. pending'[k].val = pending[k].val /\ pending'[k].timer = "off"
    BY <1>1, <1>4 DEF FlushWrites, TypeOK, Entries
  <2> QED
    BY <1>1, <1>2, <2>1, <2>2 DEF JobKnown, TimerKnown, IsPending, Busy
<1>5. CASE GetMisses(k)
  <2>1. stage'[k] = "read" /\ job'[k].kind = "get" /\ pending'[k] = pending[k]
    BY <1>5, GoToAt DEF GetMisses, Starts, Request, memVars
  <2>2. FlushQueued(k, Timer) => FlushQueued(k, Timer)'
    BY <1>5, QueueShrinks DEF GetMisses, Starts, Request
  <2>3. saved'[k] = saved[k]
    BY <1>5 DEF GetMisses
  <2> QED
    BY <1>1, <1>2, <2>1, <2>2, <2>3 DEF JobKnown, TimerKnown, IsPending, Busy
<1>6. CASE DeleteStarts(k)
  <2>1. stage'[k] = "unlink" /\ job'[k].kind = "delete"
    BY <1>6, GoToAt DEF DeleteStarts, Starts, Request
  <2>2. pending'[k] = NoEntry
    BY <1>6 DEF DeleteStarts, TypeOK
  <2> QED
    BY <2>1, <2>2 DEF JobKnown, TimerKnown, IsPending, Busy, NoEntry
<1> QED
  BY <1>3, <1>4, <1>5, <1>6

(* A running operation. *)
LEMMA RunsTimers ==
  ASSUME TypeOK, NEW k \in Keys, JobKnown(k), TimerKnown(k), waiting' = waiting,
         \/ DeleteStep(k)
         \/ \E ok \in BOOLEAN :
              WriteTmp(k, ok) \/ Publish(k, ok) \/ SyncDir(k, ok) \/ ReadFile(k, ok)
  PROVE  JobKnown(k)' /\ TimerKnown(k)'
<1>1. FlushQueued(k, Timer)' = FlushQueued(k, Timer)
  BY DEF FlushQueued
<1>2. pending[k] \in Entries /\ saved[k] \in Saved
  BY DEF TypeOK
<1>3. ASSUME NEW ok \in BOOLEAN, Settle(k, job[k], ok)
      PROVE  JobKnown(k)' /\ stage'[k] = "idle" /\ job'[k] = NoRequest
  BY <1>3 DEF Settle, TypeOK, JobKnown, Busy, NoRequest
<1>4. ASSUME pending'[k] = pending[k],
             \E at : at \in {"rename", "sync"} /\ stage[k] \in {"write", "rename"}
                       /\ GoTo(k, job[k], at) /\ saved' = saved
      PROVE  JobKnown(k)' /\ TimerKnown(k)'
  <2>1. stage'[k] \in {"rename", "sync"} /\ job'[k] = job[k] /\ saved'[k] = saved[k]
    BY <1>4, GoToAt
  <2> QED
    BY <1>1, <1>4, <2>1 DEF JobKnown, TimerKnown, IsPending, Busy
<1>5. ASSUME pending'[k] = pending[k],
             \E at : at \in {"unlinkSync", "absentSync"} /\ stage[k] = "unlink"
                       /\ GoTo(k, job[k], at) /\ saved' = saved
      PROVE  JobKnown(k)' /\ TimerKnown(k)'
  <2>1. stage'[k] \in {"unlinkSync", "absentSync"} /\ job'[k] = job[k] /\ saved'[k] = saved[k]
    BY <1>5, GoToAt
  <2> QED
    BY <1>1, <1>5, <2>1 DEF JobKnown, TimerKnown, IsPending, Busy
<1>6. ASSUME pending'[k] = pending[k], job[k].kind # "flush",
             \E ok \in BOOLEAN : Settle(k, job[k], ok)
      PROVE  JobKnown(k)' /\ TimerKnown(k)'
  BY <1>1, <1>3, <1>6 DEF TimerKnown, IsPending
<1>7. ASSUME Settle(k, job[k], FALSE), KeepEntry(k), stage[k] \in {"write", "rename", "sync"}
      PROVE  JobKnown(k)' /\ TimerKnown(k)'
  <2>1. CASE job[k].kind = "flush"
    <3>1. /\ pending'[k].val = pending[k].val /\ pending'[k].timer = pending[k].timer
          /\ pending'[k].missed = TRUE
      BY <1>2, <1>7, <2>1 DEF KeepEntry, TypeOK, Entries
    <3> QED
      BY <1>1, <1>3, <1>7, <3>1 DEF TimerKnown, IsPending
  <2>2. CASE job[k].kind # "flush"
    BY <1>6, <1>7, <2>2 DEF KeepEntry
  <2> QED
    BY <2>1, <2>2
<1>8. ASSUME Settle(k, job[k], FALSE), Restore(k), stage[k] \in {"unlink", "absentSync"}
      PROVE  JobKnown(k)' /\ TimerKnown(k)'
  <2>1. job[k].kind = "delete"
    BY <1>8 DEF JobKnown
  <2>2. CASE saved[k].entry.val # NoVal
    <3>1. saved[k].entry \in Entries
      BY <1>2 DEF Saved
    <3>2. pending'[k].timer = "armed" /\ pending'[k].val = saved[k].entry.val
      BY <1>8, <2>2, <3>1 DEF Restore, TypeOK, Entries
    <3> QED
      BY <1>3, <1>8, <2>2, <3>2 DEF TimerKnown, IsPending
  <2>3. CASE saved[k].entry.val = NoVal
    BY <1>6, <1>8, <2>1, <2>3 DEF Restore
  <2> QED
    BY <2>2, <2>3
<1>9. CASE DeleteStep(k)
  <2>1. CASE UnlinkFails(k) \/ AbsentSyncFails(k)
    BY <1>8, <2>1 DEF UnlinkFails, AbsentSyncFails
  <2>2. CASE UnlinkAbsent(k) \/ DeleteSynced(k) \/ UnlinkSyncFails(k)
    BY <1>6, <2>2 DEF UnlinkAbsent, DeleteSynced, UnlinkSyncFails, JobKnown, memVars
  <2>3. CASE UnlinkUncertain(k) \/ Unlinked(k)
    BY <1>5, <2>3 DEF UnlinkUncertain, Unlinked, memVars
  <2> QED
    BY <1>9, <2>1, <2>2, <2>3 DEF DeleteStep
<1>10. ASSUME NEW ok \in BOOLEAN, WriteTmp(k, ok) PROVE JobKnown(k)' /\ TimerKnown(k)'
  BY <1>4, <1>7, <1>10 DEF WriteTmp
<1>11. ASSUME NEW ok \in BOOLEAN, Publish(k, ok) PROVE JobKnown(k)' /\ TimerKnown(k)'
  BY <1>4, <1>7, <1>11 DEF Publish, Uncertified, memVars
<1>12. ASSUME NEW ok \in BOOLEAN, SyncDir(k, ok) PROVE JobKnown(k)' /\ TimerKnown(k)'
  <2>1. CASE Uncertified(k)
    BY <1>7, <1>12, <2>1 DEF SyncDir, Uncertified
  <2>2. CASE Certified(k)
    <3>1. CASE job[k].kind = "flush"
      <4>1. pending'[k] = NoEntry
        BY <2>2, <3>1 DEF Certified, TypeOK
      <4>2. JobKnown(k)'
        BY <1>3, <2>2 DEF Certified
      <4> QED
        BY <4>1, <4>2 DEF TimerKnown, IsPending, NoEntry
    <3>2. CASE job[k].kind # "flush"
      BY <1>6, <2>2, <3>2 DEF Certified
    <3> QED
      BY <3>1, <3>2
  <2> QED
    BY <1>12, <2>1, <2>2 DEF SyncDir
<1>13. ASSUME NEW ok \in BOOLEAN, ReadFile(k, ok) PROVE JobKnown(k)' /\ TimerKnown(k)'
  BY <1>6, <1>13 DEF ReadFile, JobKnown
<1> QED
  BY <1>9, <1>10, <1>11, <1>12, <1>13

LEMMA NextTimers == TypeOK /\ TimersInv /\ [Next]_vars => TimersInv'
<1> SUFFICES ASSUME TypeOK, TimersInv, [Next]_vars, NEW x \in Keys
             PROVE  JobKnown(x)' /\ TimerKnown(x)'
  BY DEF TimersInv
<1>1. JobKnown(x) /\ TimerKnown(x) /\ pending[x] \in Entries
  BY DEF TimersInv, TypeOK
<1>2. ASSUME SameTimer(x) PROVE JobKnown(x)' /\ TimerKnown(x)'
  BY <1>1, <1>2, SameTimerKeeps
<1>3. ASSUME NEW k \in Keys, ChainStep(k) PROVE JobKnown(x)' /\ TimerKnown(x)'
  <2>1. CASE x # k
    BY <1>2, <1>3, <2>1, OtherChains, SameChainSameTimer
  <2>2. CASE x = k
    <3>1. ASSUME NEW ok \in BOOLEAN,
                 WriteTmp(k, ok) \/ Publish(k, ok) \/ SyncDir(k, ok) \/ ReadFile(k, ok)
          PROVE  waiting' = waiting
      BY <3>1 DEF WriteTmp, Publish, SyncDir, ReadFile
    <3>2. ASSUME DeleteStep(k) PROVE waiting' = waiting
      BY <3>2 DEF DeleteStep, UnlinkFails, UnlinkAbsent, UnlinkUncertain, Unlinked,
         DeleteSynced, UnlinkSyncFails, AbsentSyncFails
    <3> QED
      BY <1>1, <1>3, <2>2, <3>1, <3>2, StartSettlesTimers, StartGoesTimers, RunsTimers
         DEF ChainStep, DeleteStep
  <2> QED
    BY <2>1, <2>2
<1>4. ASSUME NEW k \in Keys, NEW kind, NEW val, Admit(k, kind, val)
      PROVE  JobKnown(x)' /\ TimerKnown(x)'
  <2>1. waiting'[x] = waiting[x]
          \/ \E r : waiting'[x] = Append(waiting[x], r)
    BY <1>4 DEF Admit, TypeOK
  <2> QED
    BY <1>2, <1>4, <2>1, QueueGrows DEF Admit, SameTimer, memVars
<1>5. ASSUME NEW k \in Keys, TimerFires(k) PROVE JobKnown(x)' /\ TimerKnown(x)'
  <2> DEFINE r == [kind |-> "flush", val |-> NoVal, id |-> 0, by |-> Timer]
  <2>1. CASE x # k
    <3>1. waiting'[x] = waiting[x] /\ pending'[x] = pending[x]
      BY <1>5, <2>1 DEF TimerFires, TypeOK
    <3> QED
      BY <1>2, <1>5, <3>1, QueueGrows DEF TimerFires, SameTimer
  <2>2. CASE x = k
    <3>1. waiting[x] \in Seq(Requests) /\ waiting'[x] = Append(waiting[x], r)
      BY <1>5, <2>2 DEF TimerFires, TypeOK
    <3>2. r.kind = "flush" /\ r.by = Timer
      OBVIOUS
    <3> HIDE DEF r
    <3>3. FlushQueued(x, Timer)'
      BY <3>1, <3>2, Appended DEF FlushQueued
    <3>4. pending'[x].timer = "fired" /\ pending'[x].val = pending[x].val
      BY <1>1, <1>5, <2>2 DEF TimerFires, TypeOK, Entries
    <3>5. IsPending(x)
      BY <1>1, <1>5, <2>2 DEF TimerFires, TimerKnown
    <3>6. job'[x] = job[x] /\ stage'[x] = stage[x] /\ saved'[x] = saved[x]
      BY <1>5 DEF TimerFires
    <3> QED
      BY <1>1, <3>3, <3>4, <3>5, <3>6 DEF JobKnown, TimerKnown, IsPending, Busy
  <2> QED
    BY <2>1, <2>2
<1>6. ASSUME NEW k \in Keys, Writeback(k) PROVE JobKnown(x)' /\ TimerKnown(x)'
  BY <1>2, <1>6, SameChainSameTimer DEF Writeback, SameChain, memVars, chainVars
<1>7. ASSUME NEW f \in Flushers, CallFlush(f) PROVE JobKnown(x)' /\ TimerKnown(x)'
  <2>1. /\ pending'[x].val = pending[x].val /\ pending'[x].timer = pending[x].timer
        /\ pending'[x].missed = pending[x].missed
    BY <1>1, <1>7 DEF CallFlush, Entries
  <2> QED
    BY <1>2, <1>7, <2>1 DEF CallFlush, SameTimer, FlushQueued, chainVars
<1>8. ASSUME NEW f \in Flushers, FlushStep(f) PROVE JobKnown(x)' /\ TimerKnown(x)'
  <2>1. waiting'[x] = waiting[x] \/ \E r : waiting'[x] = Append(waiting[x], r)
    BY <1>8 DEF FlushStep, BarrierQuiet, BarrierDrains, PassDrained, chainVars
  <2>2. UNCHANGED <<pending, job, stage, saved>>
    BY <1>8 DEF FlushStep, BarrierQuiet, BarrierDrains, PassDrained, chainVars, memVars
  <2> QED
    BY <1>2, <2>1, <2>2, QueueGrows DEF SameTimer
<1>9. CASE Crash
  <2>1. /\ stage'[x] = "idle" /\ job'[x] = NoRequest /\ saved'[x] = NothingSaved
        /\ pending'[x] = NoEntry
    BY <1>9 DEF Crash, LosesMemory
  <2> QED
    BY <2>1 DEF JobKnown, TimerKnown, IsPending, Busy, NoRequest, NoEntry
<1>10. CASE UNCHANGED vars
  BY <1>2, <1>10, SameChainSameTimer DEF vars, SameChain, memVars, chainVars
<1> QED
  BY <1>3, <1>4, <1>5, <1>6, <1>7, <1>8, <1>9, <1>10 DEF Next, CallSet, CallGet, CallDelete

LEMMA InitTimers == Init => TimersInv
<1> SUFFICES ASSUME Init, NEW k \in Keys PROVE JobKnown(k) /\ TimerKnown(k)
  BY DEF TimersInv
<1>1. stage[k] = "idle" /\ job[k] = NoRequest /\ saved[k] = NothingSaved /\ pending[k] = NoEntry
  BY DEF Init
<1> QED
  BY <1>1 DEF JobKnown, TimerKnown, IsPending, Busy, NoRequest, NoEntry

LEMMA Timers == Spec => []TimersInv
<1> QED
  BY InitTimers, NextTimers, TypeCorrect, PTL DEF Spec

(* A queued write is never forgotten: its timer runs, its flush is on the  *)
(* chain, or a flush of it has failed and is known to have.                *)
THEOREM WritesAreRemembered == Spec => []NoForgottenWrite
<1>1. TypeOK /\ TimersInv => NoForgottenWrite
  <2> SUFFICES ASSUME TypeOK, TimersInv, NEW k \in Keys, IsPending(k)
               PROVE  \/ pending[k].timer = "armed"
                      \/ pending[k].timer = "fired"
                           /\ \E w \in Flushers \cup {Timer} : FlushQueued(k, w)
                      \/ job[k].kind = "flush" /\ stage[k] # "idle"
                      \/ pending[k].missed
    BY DEF NoForgottenWrite
  <2>1. TimerKnown(k) /\ pending[k].timer \in {"off", "armed", "fired"}
    BY DEF TimersInv, TypeOK, Entries
  <2> QED
    BY <2>1 DEF TimerKnown, Busy
<1> QED
  BY <1>1, Timers, TypeCorrect, PTL
-----------------------------------------------------------------------------
(* What flush() waits for: the operations that are tracked. *)

Tracked(r) == r.kind # "flush"

(* The requests of a chain: the running one in place 0, then the queue. *)
Places(k) == (IF Busy(k) THEN {0} ELSE {}) \cup DOMAIN waiting[k]
At(k, i) == IF i = 0 THEN job[k] ELSE waiting[k][i]

(* Every tracked request is admitted, under an id of its own. *)
IdsInv ==
  /\ \A k \in Keys : \A i \in Places(k) :
       IF Tracked(At(k, i)) THEN At(k, i).id \in admitted ELSE At(k, i).id = 0
  /\ \A k, l \in Keys : \A i \in Places(k), j \in Places(l) :
       Tracked(At(k, i)) /\ At(k, i).id = At(l, j).id => k = l /\ i = j
  /\ \A id \in admitted : id \in 1..calls

LEMMA PlacesAreNumbers ==
  ASSUME TypeOK, NEW k \in Keys
  PROVE  /\ Places(k) \subseteq Nat /\ 0 \notin DOMAIN waiting[k]
         /\ waiting[k] \in Seq(Requests)
<1>1. waiting[k] \in Seq(Requests)
  BY DEF TypeOK
<1> QED
  BY <1>1 DEF Places

(* Requests move up, and at most the one called `gone` leaves. *)
LEMMA MovedUp ==
  ASSUME TypeOK, TypeOK', IdsInv, calls' = calls,
         NEW d \in [Keys -> {0, 1}], NEW gone \in Nat,
         \A k \in Keys : \A i \in Places(k)' :
           /\ i + d[k] \in Places(k) /\ At(k, i)' = At(k, i + d[k])
           /\ Tracked(At(k, i))' => At(k, i)'.id # gone,
         admitted' = admitted \/ admitted' = admitted \ {gone}
  PROVE  IdsInv'
<1>1. \A k \in Keys : Places(k)' \subseteq Nat
  BY PlacesAreNumbers DEF Places, TypeOK, Busy
<1>2. \A k \in Keys : \A i \in Places(k)' : Tracked(At(k, i))' = Tracked(At(k, i + d[k]))
  BY DEF Tracked
<1>3. ASSUME NEW k \in Keys, NEW i \in Places(k)'
      PROVE  IF Tracked(At(k, i))' THEN At(k, i)'.id \in admitted' ELSE At(k, i)'.id = 0
  <2>1. IF Tracked(At(k, i + d[k])) THEN At(k, i + d[k]).id \in admitted
                                    ELSE At(k, i + d[k]).id = 0
    BY <1>3 DEF IdsInv
  <2> QED
    BY <1>2, <1>3, <2>1
<1>4. ASSUME NEW k \in Keys, NEW l \in Keys, NEW i \in Places(k)', NEW j \in Places(l)',
             Tracked(At(k, i))', At(k, i)'.id = At(l, j)'.id
      PROVE  k = l /\ i = j
  <2>1. k = l /\ i + d[k] = j + d[l]
    <3>1. /\ i + d[k] \in Places(k) /\ j + d[l] \in Places(l)
          /\ Tracked(At(k, i + d[k])) /\ At(k, i + d[k]).id = At(l, j + d[l]).id
      BY <1>2, <1>4
    <3> QED
      BY <3>1 DEF IdsInv
  <2>2. i \in Nat /\ j \in Nat /\ d[k] \in Nat
    BY <1>1
  <2> QED
    BY <2>1, <2>2
<1>5. \A id \in admitted' : id \in (1..calls)'
  BY DEF IdsInv
<1> QED
  BY <1>3, <1>4, <1>5 DEF IdsInv

(* A step of a chain. *)
LEMMA ChainIds ==
  ASSUME TypeOK, TypeOK', IdsInv, NEW k \in Keys, ChainStep(k)
  PROVE  IdsInv'
<1>1. calls' = calls
  BY ChainForms
<1>2. \A x \in Keys \ {k} : Places(x)' = Places(x) /\ \A i : At(x, i)' = At(x, i)
  BY OtherChains DEF SameChain, Places, At, Busy
<1>3. \A x \in Keys : Places(x) \subseteq Nat
  BY PlacesAreNumbers
<1>4. waiting[k] \in Seq(Requests) /\ 0 \notin DOMAIN waiting[k]
  BY PlacesAreNumbers
<1>5. CASE StartSettles(k) \/ StartGoes(k)
  <2> DEFINE d == [x \in Keys |-> IF x = k THEN 1 ELSE 0]
             gone == Request(k).id
  <2>1. /\ stage[k] = "idle" /\ waiting[k] # <<>> /\ Request(k) = waiting[k][1]
        /\ waiting'[k] = Tail(waiting[k])
    BY <1>4, <1>5, Shifted DEF StartSettles, StartGoes, Starts, Request, TypeOK
  <2>2. 1 \in Places(k) /\ At(k, 1) = Request(k) /\ Request(k) \in Requests
    BY <1>4, <2>1, Shifted DEF Places, At
  <2>3. gone \in Nat
    BY <2>2 DEF Requests
  <2>4. CASE StartSettles(k)
    <3>1. stage'[k] = "idle" /\ admitted' = admitted \ {gone}
      <4>1. stage'[k] = "idle"
        BY <2>4, SettleAt DEF StartSettles
      <4>2. admitted' = admitted \ {gone}
        BY <2>4 DEF StartSettles, Settle
      <4> QED
        BY <4>1, <4>2
    <3>2. Places(k)' = DOMAIN Tail(waiting[k])
      BY <2>1, <3>1 DEF Places, Busy
    <3>3. ASSUME NEW i \in Places(k)'
          PROVE  /\ i + 1 \in Places(k) /\ At(k, i)' = At(k, i + 1) /\ i + 1 # 1
      <4>1. i \in Nat \ {0} /\ i + 1 \in DOMAIN waiting[k] /\ Tail(waiting[k])[i] = waiting[k][i + 1]
        BY <1>4, <2>1, <3>2, Shifted
      <4> QED
        BY <2>1, <4>1 DEF Places, At
    <3>4. ASSUME NEW x \in Keys, NEW i \in Places(x)'
          PROVE  /\ i + d[x] \in Places(x) /\ At(x, i)' = At(x, i + d[x])
                 /\ Tracked(At(x, i))' => At(x, i)'.id # gone
      <4>1. i + d[x] \in Places(x) /\ At(x, i)' = At(x, i + d[x]) /\ (x = k => i + d[x] # 1)
        BY <1>2, <1>3, <3>3
      <4>2. Tracked(At(x, i))' => At(x, i + d[x]).id # gone
        BY <2>2, <4>1 DEF IdsInv, Tracked
      <4> QED
        BY <4>1, <4>2
    <3>5. d \in [Keys -> {0, 1}]
      OBVIOUS
    <3> HIDE DEF d, gone
    <3> QED
      BY <1>1, <2>3, <3>1, <3>4, <3>5, MovedUp
  <2>5. CASE StartGoes(k)
    <3>1. stage'[k] # "idle" /\ job'[k] = Request(k) /\ admitted' = admitted
      <4>1. stage'[k] # "idle" /\ job'[k] = Request(k)
        BY <2>5, GoToAt DEF StartGoes
      <4>2. admitted' = admitted
        BY <2>5 DEF StartGoes, GoTo
      <4> QED
        BY <4>1, <4>2
    <3>2. Places(k)' = {0} \cup DOMAIN Tail(waiting[k])
      BY <2>1, <3>1 DEF Places, Busy
    <3>3. ASSUME NEW i \in Places(k)'
          PROVE  /\ i + 1 \in Places(k) /\ At(k, i)' = At(k, i + 1)
      <4>1. CASE i = 0
        BY <2>2, <3>1, <4>1 DEF At
      <4>2. CASE i # 0
        <5>1. i \in Nat \ {0} /\ i + 1 \in DOMAIN waiting[k] /\ Tail(waiting[k])[i] = waiting[k][i + 1]
          BY <1>4, <2>1, <3>2, <4>2, Shifted
        <5> QED
          BY <2>1, <5>1 DEF Places, At
      <4> QED
        BY <4>1, <4>2
    <3>4. ASSUME NEW x \in Keys, NEW i \in Places(x)'
          PROVE  /\ i + d[x] \in Places(x) /\ At(x, i)' = At(x, i + d[x])
                 /\ Tracked(At(x, i))' => At(x, i)'.id # 0
      <4>1. i + d[x] \in Places(x) /\ At(x, i)' = At(x, i + d[x])
        BY <1>2, <1>3, <3>3
      <4>2. Tracked(At(x, i + d[x])) => At(x, i + d[x]).id \in 1..calls
        BY <4>1 DEF IdsInv
      <4>3. calls \in Nat
        BY DEF TypeOK
      <4> QED
        BY <4>1, <4>2, <4>3 DEF Tracked
    <3>5. d \in [Keys -> {0, 1}]
      OBVIOUS
    <3> HIDE DEF d
    <3> QED
      BY <1>1, <3>1, <3>4, <3>5, MovedUp
  <2> QED
    BY <1>5, <2>4, <2>5
<1>6. CASE RunSettles(k) \/ RunGoes(k)
  <2> DEFINE d == [x \in Keys |-> 0]
             gone == job[k].id
  <2>1. Busy(k) /\ waiting' = waiting /\ 0 \in Places(k) /\ At(k, 0) = job[k]
    BY <1>6 DEF RunSettles, RunGoes, Places, At
  <2>2. job[k] \in Requests
    BY DEF TypeOK
  <2>3. gone \in Nat
    BY <2>2 DEF Requests
  <2>4. CASE RunSettles(k)
    <3>1. stage'[k] = "idle" /\ admitted' = admitted \ {gone}
      <4>1. stage'[k] = "idle"
        BY <2>4, SettleAt DEF RunSettles
      <4>2. admitted' = admitted \ {gone}
        BY <2>4 DEF RunSettles, Settle
      <4> QED
        BY <4>1, <4>2
    <3>2. Places(k)' = DOMAIN waiting[k]
      BY <2>1, <3>1 DEF Places, Busy
    <3>3. ASSUME NEW i \in Places(k)'
          PROVE  /\ i \in Places(k) /\ At(k, i)' = At(k, i) /\ i # 0
      BY <1>4, <2>1, <3>2 DEF Places, At
    <3>4. ASSUME NEW x \in Keys, NEW i \in Places(x)'
          PROVE  /\ i + d[x] \in Places(x) /\ At(x, i)' = At(x, i + d[x])
                 /\ Tracked(At(x, i))' => At(x, i)'.id # gone
      <4>1. i \in Nat /\ i + d[x] = i
        BY <1>2, <1>3, <3>3
      <4>2. i \in Places(x) /\ At(x, i)' = At(x, i) /\ (x = k => i # 0)
        BY <1>2, <3>3
      <4>3. Tracked(At(x, i))' => At(x, i).id # gone
        BY <2>1, <4>2 DEF IdsInv, Tracked
      <4> QED
        BY <4>1, <4>2, <4>3
    <3>5. d \in [Keys -> {0, 1}]
      OBVIOUS
    <3> HIDE DEF d, gone
    <3> QED
      BY <1>1, <2>3, <3>1, <3>4, <3>5, MovedUp
  <2>5. CASE RunGoes(k)
    <3>1. stage'[k] # "idle" /\ job'[k] = job[k] /\ admitted' = admitted
      <4>1. stage'[k] # "idle" /\ job'[k] = job[k]
        BY <2>5, GoToAt DEF RunGoes
      <4>2. admitted' = admitted
        BY <2>5 DEF RunGoes, GoTo
      <4> QED
        BY <4>1, <4>2
    <3>2. ASSUME NEW x \in Keys, NEW i \in Places(x)'
          PROVE  /\ i + d[x] \in Places(x) /\ At(x, i)' = At(x, i + d[x])
                 /\ Tracked(At(x, i))' => At(x, i)'.id # 0
      <4>1. i \in Places(x) /\ At(x, i)' = At(x, i)
        BY <1>2, <2>1, <3>1 DEF Places, At, Busy
      <4>2. i + d[x] = i
        BY <1>3, <4>1
      <4>3. Tracked(At(x, i)) => At(x, i).id \in 1..calls
        BY <4>1 DEF IdsInv
      <4>4. calls \in Nat
        BY DEF TypeOK
      <4> QED
        BY <4>1, <4>2, <4>3, <4>4 DEF Tracked
    <3>3. d \in [Keys -> {0, 1}]
      OBVIOUS
    <3> HIDE DEF d
    <3> QED
      BY <1>1, <3>1, <3>2, <3>3, MovedUp
  <2> QED
    BY <1>6, <2>4, <2>5
<1> QED
  BY <1>5, <1>6, ChainForms

(* Nothing but flushOne() calls joins the chains. *)
LEMMA FlushesJoin ==
  ASSUME TypeOK, TypeOK', IdsInv, admitted' = admitted, calls <= calls',
         \A k \in Keys : \A i \in Places(k)' :
           \/ i \in Places(k) /\ At(k, i)' = At(k, i)
           \/ ~Tracked(At(k, i))' /\ At(k, i)'.id = 0
  PROVE  IdsInv'
<1>1. calls \in Nat /\ calls' \in Nat /\ \A id \in admitted : id \in 1..calls /\ id # 0
  BY DEF TypeOK, IdsInv
<1>2. ASSUME NEW k \in Keys, NEW i \in Places(k)'
      PROVE  IF Tracked(At(k, i))' THEN At(k, i)'.id \in admitted' ELSE At(k, i)'.id = 0
  <2>1. CASE i \in Places(k) /\ At(k, i)' = At(k, i)
    BY <2>1 DEF IdsInv, Tracked
  <2>2. CASE ~(i \in Places(k) /\ At(k, i)' = At(k, i))
    BY <1>2, <2>2
  <2> QED
    BY <2>1, <2>2
<1>3. ASSUME NEW k \in Keys, NEW l \in Keys, NEW i \in Places(k)', NEW j \in Places(l)',
             Tracked(At(k, i))', At(k, i)'.id = At(l, j)'.id
      PROVE  k = l /\ i = j
  <2>1. At(k, i)'.id # 0
    BY <1>1, <1>2, <1>3
  <2>2. /\ i \in Places(k) /\ At(k, i)' = At(k, i)
        /\ j \in Places(l) /\ At(l, j)' = At(l, j)
    BY <1>3, <2>1
  <2> QED
    BY <1>3, <2>2 DEF IdsInv, Tracked
<1>4. \A id \in admitted' : id \in (1..calls)'
  BY <1>1
<1> QED
  BY <1>2, <1>3, <1>4 DEF IdsInv

(* Operations are admitted, at most one per key, under fresh ids. *)
LEMMA RequestsJoin ==
  ASSUME TypeOK, IdsInv, NEW F \in SUBSET Keys, NEW n \in Nat, NEW r,
         \A k \in F : Tracked(r[k]) /\ r[k].id \in (calls + 1)..(calls + n),
         \A k, l \in F : r[k].id = r[l].id => k = l,
         \A k \in F : waiting'[k] = Append(waiting[k], r[k]),
         \A k \in Keys \ F : waiting'[k] = waiting[k],
         job' = job, stage' = stage, calls' = calls + n,
         admitted' = admitted \cup ((calls + 1)..(calls + n))
  PROVE  IdsInv'
<1>1. calls \in Nat /\ \A id \in admitted : id \in 1..calls
  BY DEF TypeOK, IdsInv
<1>2. ASSUME NEW k \in Keys, NEW i \in Places(k)'
      PROVE  \/ i \in Places(k) /\ At(k, i)' = At(k, i)
             \/ k \in F /\ i = Len(waiting[k]) + 1 /\ At(k, i)' = r[k]
  <2>1. waiting[k] \in Seq(Requests) /\ 0 \notin DOMAIN waiting[k]
    BY PlacesAreNumbers
  <2>2. CASE k \notin F
    BY <1>2, <2>2 DEF Places, At, Busy
  <2>3. CASE k \in F
    <3>1. /\ DOMAIN Append(waiting[k], r[k]) = DOMAIN waiting[k] \cup {Len(waiting[k]) + 1}
          /\ Len(waiting[k]) + 1 # 0
          /\ \A j \in DOMAIN waiting[k] : Append(waiting[k], r[k])[j] = waiting[k][j]
          /\ Append(waiting[k], r[k])[Len(waiting[k]) + 1] = r[k]
      BY <2>1, Appended
    <3>2. CASE i \in Places(k)
      BY <2>1, <2>3, <3>1, <3>2 DEF Places, At, Busy
    <3>3. CASE i \notin Places(k)
      BY <1>2, <2>3, <3>1, <3>3 DEF Places, At, Busy
    <3> QED
      BY <3>2, <3>3
  <2> QED
    BY <2>2, <2>3
<1>3. ASSUME NEW k \in Keys, NEW i \in Places(k)
      PROVE  IF Tracked(At(k, i)) THEN At(k, i).id \in admitted /\ At(k, i).id \in 1..calls
                                  ELSE At(k, i).id = 0
  BY <1>1 DEF IdsInv
<1>4. ASSUME NEW k \in Keys, NEW i \in Places(k)'
      PROVE  IF Tracked(At(k, i))' THEN At(k, i)'.id \in admitted' ELSE At(k, i)'.id = 0
  BY <1>2, <1>3 DEF Tracked
<1>5. ASSUME NEW k \in Keys, NEW l \in Keys, NEW i \in Places(k)', NEW j \in Places(l)',
             Tracked(At(k, i))', At(k, i)'.id = At(l, j)'.id
      PROVE  k = l /\ i = j
  <2>1. CASE /\ i \in Places(k) /\ At(k, i)' = At(k, i)
             /\ j \in Places(l) /\ At(l, j)' = At(l, j)
    BY <1>5, <2>1 DEF IdsInv, Tracked
  <2>2. CASE /\ k \in F /\ i = Len(waiting[k]) + 1 /\ At(k, i)' = r[k]
             /\ l \in F /\ j = Len(waiting[l]) + 1 /\ At(l, j)' = r[l]
    BY <1>5, <2>2
  <2>3. ASSUME NEW x \in Keys, NEW m \in Places(x), NEW y \in F, At(x, m).id = r[y].id
        PROVE  FALSE
    BY <1>1, <1>3, <2>3
  <2>4. k \in F /\ At(k, i)' = r[k] /\ j \in Places(l) /\ At(l, j)' = At(l, j) => FALSE
    BY <1>5, <2>3
  <2>5. l \in F /\ At(l, j)' = r[l] /\ i \in Places(k) /\ At(k, i)' = At(k, i) => FALSE
    BY <1>5, <2>3
  <2> QED
    BY <1>2, <1>5, <2>1, <2>2, <2>4, <2>5
<1>6. \A id \in admitted' : id \in (1..calls)'
  BY <1>1
<1> QED
  BY <1>4, <1>5, <1>6 DEF IdsInv

LEMMA AdmitIds ==
  ASSUME TypeOK, IdsInv, NEW k0 \in Keys, NEW kind \in {"set", "get", "delete"},
         NEW val, Admit(k0, kind, val)
  PROVE  IdsInv'
<1>1. PICK r : r = [k \in {k0} |->
                      [kind |-> kind, val |-> val, id |-> calls + 1, by |-> Timer]]
  OBVIOUS
<1>2. calls \in Nat
  BY DEF TypeOK
<1>3. Tracked(r[k0]) /\ r[k0].id = calls + 1
  BY <1>1 DEF Tracked
<1>4. (calls + 1)..(calls + 1) = {calls + 1}
  BY <1>2
<1>5. /\ waiting'[k0] = Append(waiting[k0], r[k0])
      /\ \A k \in Keys \ {k0} : waiting'[k] = waiting[k]
      /\ job' = job /\ stage' = stage /\ calls' = calls + 1
      /\ admitted' = admitted \cup {calls + 1}
  BY <1>1 DEF Admit, TypeOK
<1>6. PICK F, n : F = {k0} /\ n = 1
  OBVIOUS
<1>7. /\ F \in SUBSET Keys /\ n \in Nat
      /\ \A k \in F : Tracked(r[k]) /\ r[k].id \in (calls + 1)..(calls + n)
      /\ \A k, l \in F : r[k].id = r[l].id => k = l
      /\ \A k \in F : waiting'[k] = Append(waiting[k], r[k])
      /\ \A k \in Keys \ F : waiting'[k] = waiting[k]
      /\ job' = job /\ stage' = stage /\ calls' = calls + n
      /\ admitted' = admitted \cup ((calls + 1)..(calls + n))
  BY <1>3, <1>4, <1>5, <1>6
<1> QED
  BY <1>7, RequestsJoin

LEMMA NextIds == TypeOK /\ IdsInv /\ [Next]_vars => IdsInv'
<1> SUFFICES ASSUME TypeOK, IdsInv, [Next]_vars PROVE IdsInv'
  OBVIOUS
<1>1. TypeOK' /\ calls \in Nat
  BY NextTypes DEF TypeOK
<1>2. ASSUME UNCHANGED <<job, stage, waiting, admitted>>, calls' \in {calls, calls + 1}
      PROVE  IdsInv'
  <2>1. \A k \in Keys : Places(k)' = Places(k) /\ \A i : At(k, i)' = At(k, i)
    BY <1>2 DEF Places, At, Busy
  <2> QED
    BY <1>1, <1>2, <2>1, FlushesJoin
<1>3. ASSUME UNCHANGED <<job, stage, admitted, calls>>, NEW r, ~Tracked(r), r.id = 0,
             \A k \in Keys : waiting'[k] \in {waiting[k], Append(waiting[k], r)}
      PROVE  IdsInv'
  <2>1. ASSUME NEW k \in Keys, NEW i \in Places(k)'
        PROVE  \/ i \in Places(k) /\ At(k, i)' = At(k, i)
               \/ ~Tracked(At(k, i))' /\ At(k, i)'.id = 0
    <3>1. waiting[k] \in Seq(Requests) /\ 0 \notin DOMAIN waiting[k]
      BY PlacesAreNumbers
    <3>2. /\ DOMAIN Append(waiting[k], r) = DOMAIN waiting[k] \cup {Len(waiting[k]) + 1}
          /\ Len(waiting[k]) + 1 # 0
          /\ \A n \in DOMAIN waiting[k] : Append(waiting[k], r)[n] = waiting[k][n]
          /\ Append(waiting[k], r)[Len(waiting[k]) + 1] = r
      BY <3>1, Appended
    <3>3. CASE i \in Places(k)
      BY <1>3, <3>1, <3>2, <3>3 DEF Places, At, Busy
    <3>4. CASE i \notin Places(k)
      <4>1. waiting'[k] = Append(waiting[k], r) /\ i = Len(waiting[k]) + 1
        BY <1>3, <2>1, <3>2, <3>4 DEF Places, Busy
      <4>2. At(k, i)' = r
        BY <3>2, <4>1 DEF At
      <4> QED
        BY <1>3, <4>2 DEF Tracked
    <3> QED
      BY <3>3, <3>4
  <2> QED
    BY <1>1, <1>3, <2>1, FlushesJoin
<1>4. ASSUME NEW k \in Keys, ChainStep(k) PROVE IdsInv'
  BY <1>1, <1>4, ChainIds
<1>5. ASSUME NEW k \in Keys, (\E v \in Vals : CallSet(k, v)) \/ CallGet(k) \/ CallDelete(k)
      PROVE  IdsInv'
  BY <1>5, AdmitIds DEF CallSet, CallGet, CallDelete
<1>6. ASSUME NEW k \in Keys, TimerFires(k) PROVE IdsInv'
  <2> DEFINE r == [kind |-> "flush", val |-> NoVal, id |-> 0, by |-> Timer]
  <2>1. ~Tracked(r) /\ r.id = 0
    BY DEF Tracked
  <2>2. \A x \in Keys : waiting'[x] \in {waiting[x], Append(waiting[x], r)}
    BY <1>6 DEF TimerFires, TypeOK
  <2> HIDE DEF r
  <2> QED
    BY <1>3, <1>6, <2>1, <2>2 DEF TimerFires
<1>7. ASSUME NEW f \in Flushers, BarrierDrains(f) PROVE IdsInv'
  <2> DEFINE r == [kind |-> "flush", val |-> NoVal, id |-> 0, by |-> f]
  <2>1. ~Tracked(r) /\ r.id = 0
    BY DEF Tracked
  <2>2. \A x \in Keys : waiting'[x] \in {waiting[x], Append(waiting[x], r)}
    BY <1>7 DEF BarrierDrains
  <2> HIDE DEF r
  <2> QED
    BY <1>3, <1>7, <2>1, <2>2 DEF BarrierDrains
<1>8. ASSUME NEW k \in Keys, Writeback(k) PROVE IdsInv'
  BY <1>2, <1>8 DEF Writeback, chainVars
<1>9. ASSUME NEW f \in Flushers, CallFlush(f) \/ BarrierQuiet(f) \/ PassDrained(f)
      PROVE  IdsInv'
  BY <1>2, <1>9 DEF CallFlush, BarrierQuiet, PassDrained, chainVars
<1>10. CASE Crash
  <2>1. \A k \in Keys : Places(k)' = {}
    BY <1>10 DEF Crash, LosesMemory, Places, Busy
  <2>2. admitted' = {}
    BY <1>10 DEF Crash, LosesMemory
  <2> QED
    BY <2>1, <2>2 DEF IdsInv
<1>11. CASE UNCHANGED vars
  BY <1>2, <1>11 DEF vars, chainVars
<1> QED
  BY <1>4, <1>5, <1>6, <1>7, <1>8, <1>9, <1>10, <1>11 DEF Next, FlushStep

LEMMA InitIds == Init => IdsInv
<1> SUFFICES ASSUME Init PROVE IdsInv
  OBVIOUS
<1>1. \A k \in Keys : Places(k) = {}
  BY DEF Init, Places, Busy
<1> QED
  BY <1>1 DEF Init, IdsInv

(* A flush remembers the failures that make it pass over an entry: it has  *)
(* recorded them, or still waits for the delete that would restore one.    *)
HeardOf(k, f) ==
  /\ f \in pending[k].failedFor => errors[f]
  /\ f \in saved[k].entry.failedFor => errors[f] \/ job[k].id \in outstanding[f]

HeardInv == \A k \in Keys, f \in Flushers : HeardOf(k, f)

LEMMA SettleHears ==
  ASSUME TypeOK, NEW k \in Keys, NEW r, NEW ok \in BOOLEAN, Settle(k, r, ok), NEW f \in Flushers
  PROVE  /\ saved'[k].entry.failedFor = {}
         /\ errors[f] => errors'[f]
         /\ ~ok /\ r.id \in outstanding[f] => errors'[f]
         /\ ~ok /\ r.kind = "flush" /\ r.by = f => errors'[f]
         /\ outstanding'[f] = outstanding[f] \ {r.id}
<1>1. saved'[k] = NothingSaved
  BY SettleAt
<1>2. errors'[f] = (errors[f] \/ (~ok /\ (r.id \in outstanding[f] \/ (r.kind = "flush" /\ r.by = f))))
  BY DEF Settle
<1>3. outstanding'[f] = outstanding[f] \ {r.id}
  BY DEF Settle
<1>4. saved'[k].entry.failedFor = {}
  BY <1>1 DEF NothingSaved, NoEntry
<1>5. /\ errors[f] => errors'[f]
      /\ ~ok /\ r.id \in outstanding[f] => errors'[f]
      /\ ~ok /\ r.kind = "flush" /\ r.by = f => errors'[f]
  BY <1>2, Zenon
<1> QED
  BY <1>3, <1>4, <1>5

LEMMA GoToHears ==
  ASSUME NEW k \in Keys, NEW r, NEW at, GoTo(k, r, at)
  PROVE  UNCHANGED <<errors, outstanding>>
BY DEF GoTo, flushVars

(* The other keys: nobody's delete settles but its own. *)
LEMMA OthersHear ==
  ASSUME TypeOK, TimersInv, IdsInv, NEW k \in Keys, ChainStep(k),
         NEW x \in Keys \ {k}, NEW f \in Flushers, HeardOf(x, f)
  PROVE  HeardOf(x, f)'
<1>1. SameChain(x)
  BY OtherChains
<1>2. /\ errors[f] => errors'[f]
      /\ \/ outstanding'[f] = outstanding[f]
         \/ outstanding'[f] = outstanding[f] \ {Request(k).id} /\ ~Busy(k) /\ waiting[k] # <<>>
         \/ outstanding'[f] = outstanding[f] \ {job[k].id} /\ Busy(k)
  <2>1. CASE StartSettles(k)
    BY <2>1, SettleHears DEF StartSettles, Starts, Busy
  <2>2. CASE RunSettles(k)
    BY <2>2, SettleHears DEF RunSettles
  <2>3. CASE StartGoes(k) \/ RunGoes(k)
    BY <2>3, GoToHears DEF StartGoes, RunGoes
  <2> QED
    BY <2>1, <2>2, <2>3, ChainForms
<1>3. ASSUME f \in saved[x].entry.failedFor
      PROVE  job[x].id \in outstanding[f] => job[x].id \in outstanding'[f]
  <2>1. Busy(x) /\ job[x].kind = "delete"
    <3>1. JobKnown(x) /\ NothingSaved.entry.failedFor = {}
      BY DEF TimersInv, NothingSaved, NoEntry
    <3> QED
      BY <1>3, <3>1 DEF JobKnown
  <2>2. 0 \in Places(x) /\ At(x, 0) = job[x] /\ Tracked(job[x])
    BY <2>1 DEF Places, At, Tracked
  <2>3. Busy(k) => 0 \in Places(k) /\ At(k, 0) = job[k]
    BY DEF Places, At
  <2>4. waiting[k] # <<>> => 1 \in Places(k) /\ At(k, 1) = Request(k)
    BY PlacesAreNumbers, Shifted DEF Places, At, Request
  <2>5. /\ Busy(k) => job[x].id # job[k].id
        /\ waiting[k] # <<>> => job[x].id # Request(k).id
    BY <2>2, <2>3, <2>4 DEF IdsInv
  <2> QED
    BY <1>2, <2>5
<1> QED
  BY <1>1, <1>2, <1>3 DEF SameChain, HeardOf

(* The key itself. *)
LEMMA ItselfHears ==
  ASSUME TypeOK, TimersInv, NEW k \in Keys, ChainStep(k), NEW f \in Flushers, HeardOf(k, f)
  PROVE  HeardOf(k, f)'
<1>1. pending[k] \in Entries /\ saved[k] \in Saved /\ JobKnown(k)
  BY DEF TypeOK, TimersInv
<1>2. ASSUME NEW r, NEW ok \in BOOLEAN, Settle(k, r, ok),
             pending'[k].failedFor \subseteq pending[k].failedFor
      PROVE  HeardOf(k, f)'
  BY <1>2, SettleHears DEF HeardOf
<1>3. ASSUME NEW r, NEW at, GoTo(k, r, at),
             pending'[k].failedFor = pending[k].failedFor,
             saved'[k] = saved[k], r = job[k] \/ saved[k] = NothingSaved
      PROVE  HeardOf(k, f)'
  <2>1. job'[k] = job[k] \/ saved[k].entry.failedFor = {}
    BY <1>3, GoToAt DEF NothingSaved, NoEntry
  <2>2. errors' = errors /\ outstanding' = outstanding
    BY <1>3, GoToHears
  <2> QED
    BY <1>3, <2>1, <2>2 DEF HeardOf
<1>4. ASSUME Settle(k, job[k], FALSE), KeepEntry(k) PROVE HeardOf(k, f)'
  <2>1. CASE job[k].kind = "flush"
    <3>1. pending'[k].failedFor = pending[k].failedFor \cup ({job[k].by} \cap Flushers)
      BY <1>1, <1>4, <2>1 DEF KeepEntry, TypeOK, Entries
    <3> QED
      BY <1>4, <2>1, <3>1, SettleHears DEF HeardOf
  <2>2. CASE job[k].kind # "flush"
    BY <1>2, <1>4, <2>2 DEF KeepEntry
  <2> QED
    BY <2>1, <2>2
<1>5. ASSUME Settle(k, job[k], FALSE), Restore(k) PROVE HeardOf(k, f)'
  <2>1. saved[k].entry \in Entries
    BY <1>1 DEF Saved
  <2>2. \/ pending'[k].failedFor = saved[k].entry.failedFor
        \/ pending'[k] = pending[k]
    BY <1>5, <2>1 DEF Restore, TypeOK, Entries
  <2> QED
    BY <1>5, <2>2, SettleHears DEF HeardOf
<1>6. CASE SetSkips(k) \/ SetDebounced(k) \/ FlushSkips(k) \/ GetHits(k)
  <2>1. pending'[k].failedFor \subseteq pending[k].failedFor
    <3>1. CASE SetSkips(k)
      BY <1>1, <3>1 DEF SetSkips, TypeOK, Entries
    <3>2. CASE SetDebounced(k)
      BY <3>2 DEF SetDebounced, TypeOK
    <3>3. CASE FlushSkips(k) \/ GetHits(k)
      BY <3>3 DEF FlushSkips, GetHits, memVars
    <3> QED
      BY <1>6, <3>1, <3>2, <3>3
  <2>2. \E ok \in BOOLEAN : Settle(k, Request(k), ok)
    BY <1>6 DEF SetSkips, SetDebounced, FlushSkips, GetHits
  <2> QED
    BY <1>2, <2>1, <2>2
<1>7. CASE SetCritical(k) \/ FlushWrites(k) \/ GetMisses(k)
  <2>1. pending'[k].failedFor = pending[k].failedFor /\ saved'[k] = saved[k]
    BY <1>1, <1>7 DEF SetCritical, FlushWrites, GetMisses, TypeOK, Entries, memVars
  <2>2. saved[k] = NothingSaved
    BY <1>1, <1>7 DEF SetCritical, FlushWrites, GetMisses, Starts, JobKnown, Busy
  <2>3. \E at : GoTo(k, Request(k), at)
    BY <1>7 DEF SetCritical, FlushWrites, GetMisses
  <2> QED
    BY <1>3, <2>1, <2>2, <2>3
<1>8. CASE DeleteStarts(k)
  <2>1. pending'[k] = NoEntry /\ saved'[k].entry = pending[k]
    BY <1>8 DEF DeleteStarts, TypeOK
  <2>2. errors' = errors
    BY <1>8, GoToHears DEF DeleteStarts
  <2> QED
    BY <2>1, <2>2 DEF HeardOf, NoEntry
<1>9. ASSUME NEW ok \in BOOLEAN, WriteTmp(k, ok) \/ Publish(k, ok)
      PROVE  HeardOf(k, f)'
  BY <1>3, <1>4, <1>9 DEF WriteTmp, Publish, Uncertified, memVars
<1>10. ASSUME NEW ok \in BOOLEAN, SyncDir(k, ok) PROVE HeardOf(k, f)'
  <2>1. CASE Uncertified(k)
    BY <1>4, <2>1 DEF Uncertified
  <2>2. CASE Certified(k)
    <3>1. pending'[k].failedFor \subseteq pending[k].failedFor
      BY <2>2, CertifiedAt DEF NoEntry
    <3> QED
      BY <1>2, <2>2, <3>1 DEF Certified
  <2> QED
    BY <1>10, <2>1, <2>2 DEF SyncDir
<1>11. ASSUME NEW ok \in BOOLEAN, ReadFile(k, ok) PROVE HeardOf(k, f)'
  BY <1>2, <1>11 DEF ReadFile
<1>12. CASE UnlinkFails(k) \/ AbsentSyncFails(k)
  BY <1>5, <1>12 DEF UnlinkFails, AbsentSyncFails
<1>13. CASE UnlinkAbsent(k) \/ DeleteSynced(k) \/ UnlinkSyncFails(k)
  BY <1>2, <1>13 DEF UnlinkAbsent, DeleteSynced, UnlinkSyncFails, memVars
<1>14. CASE UnlinkUncertain(k) \/ Unlinked(k)
  BY <1>3, <1>14 DEF UnlinkUncertain, Unlinked, memVars
<1> QED
  BY <1>6, <1>7, <1>8, <1>9, <1>10, <1>11, <1>12, <1>13, <1>14 DEF ChainStep

(* A flush that starts, or starts a pass, waits for every delete that runs.*)
LEMMA DeletesAdmitted ==
  ASSUME TimersInv, IdsInv, NEW k \in Keys, saved[k].entry.failedFor # {}
  PROVE  job[k].id \in admitted
<1>1. Busy(k) /\ job[k].kind = "delete"
  BY DEF TimersInv, JobKnown, NothingSaved, NoEntry
<1>2. 0 \in Places(k) /\ At(k, 0) = job[k] /\ Tracked(job[k])
  BY <1>1 DEF Places, At, Tracked
<1> QED
  BY <1>2 DEF IdsInv

LEMMA NextHeard == TypeOK /\ TimersInv /\ IdsInv /\ HeardInv /\ [Next]_vars => HeardInv'
<1> SUFFICES ASSUME TypeOK, TimersInv, IdsInv, HeardInv, [Next]_vars,
                    NEW x \in Keys, NEW g \in Flushers
             PROVE  HeardOf(x, g)'
  BY DEF HeardInv
<1>1. HeardOf(x, g) /\ pending[x] \in Entries
  BY DEF HeardInv, TypeOK
<1>2. ASSUME UNCHANGED <<job, saved, errors>>, pending'[x].failedFor = pending[x].failedFor,
             \/ outstanding'[g] = outstanding[g]
             \/ outstanding'[g] = admitted
      PROVE  HeardOf(x, g)'
  BY <1>1, <1>2, DeletesAdmitted DEF HeardOf
<1>3. ASSUME NEW k \in Keys, ChainStep(k) PROVE HeardOf(x, g)'
  BY <1>1, <1>3, OthersHear, ItselfHears
<1>4. ASSUME NEW k \in Keys, NEW kind, NEW val, Admit(k, kind, val) PROVE HeardOf(x, g)'
  BY <1>2, <1>4 DEF Admit, memVars, flushVars
<1>5. ASSUME NEW k \in Keys, TimerFires(k) PROVE HeardOf(x, g)'
  <2>1. pending'[x].failedFor = pending[x].failedFor
    BY <1>1, <1>5 DEF TimerFires, TypeOK, Entries
  <2> QED
    BY <1>2, <1>5, <2>1 DEF TimerFires, flushVars
<1>6. ASSUME NEW k \in Keys, Writeback(k) PROVE HeardOf(x, g)'
  BY <1>2, <1>6 DEF Writeback, memVars, chainVars, flushVars
<1>7. ASSUME NEW f \in Flushers, CallFlush(f) PROVE HeardOf(x, g)'
  <2>1. pending'[x].failedFor = pending[x].failedFor \ {f}
    BY <1>1, <1>7 DEF CallFlush, Entries
  <2>2. /\ errors' = [errors EXCEPT ![f] = FALSE] /\ job' = job /\ saved' = saved
        /\ outstanding' = [outstanding EXCEPT ![f] = admitted]
    BY <1>7 DEF CallFlush, chainVars
  <2>3. CASE g = f
    BY <2>1, <2>2, <2>3, DeletesAdmitted DEF HeardOf, TypeOK
  <2>4. CASE g # f
    BY <1>1, <2>1, <2>2, <2>4 DEF HeardOf, TypeOK
  <2> QED
    BY <2>3, <2>4
<1>8. ASSUME NEW f \in Flushers, FlushStep(f) PROVE HeardOf(x, g)'
  <2>1. UNCHANGED <<pending, job, saved, errors>>
    BY <1>8 DEF FlushStep, BarrierQuiet, BarrierDrains, PassDrained, chainVars, memVars
  <2>2. outstanding'[g] = outstanding[g] \/ outstanding'[g] = admitted
    BY <1>8 DEF FlushStep, BarrierQuiet, BarrierDrains, PassDrained, NextPass, FlushEnds, TypeOK
  <2> QED
    BY <1>2, <2>1, <2>2
<1>9. CASE Crash
  <2>1. pending'[x] = NoEntry /\ saved'[x] = NothingSaved
    BY <1>9 DEF Crash, LosesMemory
  <2> QED
    BY <2>1 DEF HeardOf, NothingSaved, NoEntry
<1>10. CASE UNCHANGED vars
  BY <1>2, <1>10 DEF vars, memVars, chainVars, flushVars
<1> QED
  BY <1>3, <1>4, <1>5, <1>6, <1>7, <1>8, <1>9, <1>10 DEF Next, CallSet, CallGet, CallDelete

LEMMA InitHeard == Init => HeardInv
<1> SUFFICES ASSUME Init, NEW k \in Keys, NEW f \in Flushers PROVE HeardOf(k, f)
  BY DEF HeardInv
<1>1. pending[k] = NoEntry /\ saved[k] = NothingSaved
  BY DEF Init
<1> QED
  BY <1>1 DEF HeardOf, NothingSaved, NoEntry

(* What a flush() waits for and what it has heard of. *)
LEMMA FlushInvariant == Spec => [](TimersInv /\ IdsInv /\ HeardInv)
<1>1. Init => TypeOK /\ TimersInv /\ IdsInv /\ HeardInv
  BY InitTypes, InitTimers, InitIds, InitHeard
<1>2. TypeOK /\ TimersInv /\ IdsInv /\ HeardInv /\ [Next]_vars
        => TypeOK' /\ TimersInv' /\ IdsInv' /\ HeardInv'
  BY NextTypes, NextTimers, NextIds, NextHeard
<1> QED
  BY <1>1, <1>2, PTL DEF Spec

(* A flush that ends without a failure found every chain at rest and every *)
(* queue empty.                                                            *)
LEMMA ResolvesAtRest ==
  ASSUME TypeOK, TimersInv, IdsInv, HeardInv, NEW f \in Flushers, FlushEnds(f),
         flusher'[f] = "resolved", NEW k \in Keys
  PROVE  Idle(k) /\ ~IsPending(k)
<1>1. ~errors[f] /\ Eligible(f) = {} /\ admitted = {}
  BY DEF FlushEnds, TypeOK
<1>2. ~IsPending(k)
  BY <1>1 DEF Eligible, HeardInv, HeardOf
<1>3. Idle(k)
  <2>1. SUFFICES ASSUME Busy(k) PROVE FALSE
    BY DEF Busy, Idle
  <2>2. 0 \in Places(k) /\ At(k, 0) = job[k]
    BY <2>1 DEF Places, At
  <2>3. job[k].kind = "flush"
    BY <1>1, <2>2 DEF IdsInv, Tracked
  <2> QED
    BY <1>2, <2>1, <2>3 DEF TimersInv, JobKnown
<1> QED
  BY <1>2, <1>3

LEMMA Resolves ==
  ASSUME TypeOK, [Next]_vars, NEW f \in Flushers,
         flusher[f] # "resolved", flusher'[f] = "resolved"
  PROVE  FlushEnds(f) /\ UNCHANGED <<memVars, diskVars, chainVars, acked>>
<1>1. ASSUME NEW g \in Flushers, FlushStep(g)
      PROVE  FlushEnds(f) /\ UNCHANGED <<memVars, diskVars, chainVars, acked>>
  <2>1. FlushEnds(g) \/ flusher' \in {[flusher EXCEPT ![g] = to] : to \in {"barrier", "drain"}}
    BY <1>1 DEF FlushStep, BarrierQuiet, BarrierDrains, PassDrained, NextPass
  <2>2. g = f /\ FlushEnds(g)
    BY <2>1 DEF TypeOK, FlushEnds
  <2>3. flusher'[g] # "drain"
    BY <2>2
  <2>4. ~BarrierDrains(g)
    BY <2>3 DEF BarrierDrains, TypeOK
  <2>5. UNCHANGED <<memVars, diskVars, chainVars, acked>>
    BY <1>1, <2>4 DEF FlushStep, BarrierQuiet, PassDrained
  <2> QED
    BY <2>2, <2>5
<1>2. ASSUME NEW x \in Keys, ChainStep(x) PROVE flusher' = flusher
  <2>1. StartSettles(x) \/ StartGoes(x) \/ RunSettles(x) \/ RunGoes(x)
    BY <1>2, ChainForms
  <2> QED
    BY <2>1 DEF StartSettles, StartGoes, RunSettles, RunGoes, Settle, GoTo, flushVars
<1>3. ASSUME NEW x \in Keys,
             \/ \E v \in Vals : CallSet(x, v)
             \/ CallGet(x) \/ CallDelete(x) \/ TimerFires(x) \/ Writeback(x)
      PROVE  flusher' = flusher
  BY <1>3 DEF CallSet, CallGet, CallDelete, Admit, TimerFires, Writeback, flushVars
<1>4. ASSUME NEW g \in Flushers, CallFlush(g) PROVE flusher'[f] # "resolved"
  BY <1>4 DEF CallFlush, TypeOK
<1>5. CASE Crash
  BY <1>5 DEF Crash, LosesMemory
<1>6. CASE UNCHANGED vars
  BY <1>6 DEF vars, flushVars
<1> QED
  BY <1>1, <1>2, <1>3, <1>4, <1>5, <1>6 DEF Next

(* A flush() that resolves leaves every acknowledged content on stable     *)
(* storage, unless processes die without the machine.                      *)
THEOREM FlushIsDurable ==
  ASSUME ~ProcessCrashes
  PROVE  Spec => FlushResolvesDurable
<1>1. ASSUME TypeOK, TimersInv, IdsInv, HeardInv, DurableInv, [Next]_vars,
             NEW f \in Flushers, flusher[f] # "resolved", flusher'[f] = "resolved",
             NEW k \in Keys, acked'[k] # Unknown
      PROVE  stable'[k] = acked'[k]
  <2>1. FlushEnds(f) /\ UNCHANGED <<stable, acked>>
    BY <1>1, Resolves DEF diskVars
  <2>2. Idle(k) /\ ~IsPending(k)
    BY <1>1, <2>1, ResolvesAtRest
  <2> QED
    BY <1>1, <2>1, <2>2 DEF DurableInv, KeyInv, BarrierClosed, AckedIsHeld, Idle
<1>2. ASSUME TypeOK, TimersInv, IdsInv, HeardInv, DurableInv, [Next]_vars
      PROVE  [\A f \in Flushers :
                flusher[f] # "resolved" /\ flusher'[f] = "resolved" =>
                  \A k \in Keys : acked'[k] # Unknown => stable'[k] = acked'[k]]_vars
  BY <1>1, <1>2
<1> QED
  BY <1>2, TypeCorrect, FlushInvariant, Durability, PTL DEF FlushResolvesDurable, Spec

-----------------------------------------------------------------------------
(* The enumerating calls *)

StoreInv == TypeOK /\ TimersInv /\ IdsInv /\ HeardInv /\ DurableInv

(* Without a crash nothing is asked of how processes die. *)
LEMMA StoreKeeps ==
  ASSUME StoreInv, [Next]_vars, crashes' = crashes
  PROVE  StoreInv'
BY NextTypes, NextTimers, NextIds, NextHeard, NextKeeps DEF StoreInv

(* The deletes of deletePrefix() join their chains together. *)
LEMMA DeletesJoin ==
  ASSUME StoreInv, AdmitsDeletes, listed \in SUBSET Keys, sweep.store \in SUBSET Keys
  PROVE  /\ StoreInv'
         /\ UNCHANGED <<memVars, diskVars, job, stage, saved, flushVars, acked>>
         /\ \A k \in Found : \E r :
              /\ waiting'[k] = Append(waiting[k], r)
              /\ r.kind = "delete" /\ r.id \in deleting'
<1> USE DEF StoreInv
<1>1. PICK F, n : F = Found /\ n = Cardinality(Found)
  OBVIOUS
<1>2. F \in SUBSET Keys /\ n \in Nat
  <2>1. F \in SUBSET Keys
    BY <1>1 DEF Found
  <2>2. IsFiniteSet(F)
    BY <2>1, SweepAssumption, FS_Subset
  <2> QED
    BY <1>1, <2>1, <2>2, FS_CardinalityType
<1>3. PICK id \in [F -> (calls + 1)..(calls + n)] :
        /\ \A k, l \in F : id[k] = id[l] => k = l
        /\ waiting' = [k \in Keys |->
             IF k \in F
             THEN Append(waiting[k], [kind |-> "delete", val |-> NoVal, id |-> id[k], by |-> Timer])
             ELSE waiting[k]]
  BY <1>1 DEF AdmitsDeletes
<1>4. PICK r : r = [k \in F |-> [kind |-> "delete", val |-> NoVal, id |-> id[k], by |-> Timer]]
  OBVIOUS
<1>5. \A k \in F : r[k].kind = "delete" /\ Tracked(r[k]) /\ r[k].id = id[k]
  BY <1>4 DEF Tracked
<1>6. /\ UNCHANGED <<memVars, diskVars, job, stage, saved, flushVars, crashes, acked>>
      /\ deleting' = (calls + 1)..(calls + n) /\ admitted' = admitted \cup deleting'
      /\ calls' = calls + n
  BY <1>1 DEF AdmitsDeletes
<1>7. /\ \A k \in F : waiting'[k] = Append(waiting[k], r[k])
      /\ \A k \in Keys \ F : waiting'[k] = waiting[k]
  BY <1>2, <1>3, <1>4
<1>8. calls \in Nat
  BY DEF TypeOK
<1>9. \A k \in F : r[k] \in Requests
  BY <1>2, <1>3, <1>4, <1>8 DEF Requests
<1>10. TypeOK'
  <2>1. waiting' \in [Keys -> Seq(Requests)]
    <3>1. waiting \in [Keys -> Seq(Requests)] /\ DOMAIN waiting' = Keys
      BY <1>3 DEF TypeOK
    <3>2. ASSUME NEW k \in Keys PROVE waiting'[k] \in Seq(Requests)
      <4>1. waiting[k] \in Seq(Requests)
        BY <3>1
      <4>2. CASE k \in F
        <5>1. waiting'[k] = Append(waiting[k], r[k]) /\ r[k] \in Requests
          BY <1>7, <1>9, <4>2
        <5> QED
          BY <4>1, <5>1
      <4>3. CASE k \notin F
        BY <1>7, <4>1, <4>3
      <4> QED
        BY <4>2, <4>3
    <3>3. waiting' = [k \in Keys |-> waiting'[k]]
      BY <1>3
    <3> QED
      BY <3>2, <3>3
  <2>2. calls + n \in Nat /\ (calls + 1)..(calls + n) \subseteq Nat /\ admitted \subseteq Nat
    BY <1>2, <1>8 DEF TypeOK
  <2>3. admitted' \subseteq Nat /\ calls' \in Nat
    BY <1>6, <2>2
  <2> QED
    BY <1>6, <2>1, <2>3 DEF TypeOK, memVars, diskVars, flushVars
<1>11. TimersInv'
  <2>1. ASSUME NEW x \in Keys PROVE SameTimer(x)
    <3>1. FlushQueued(x, Timer) => FlushQueued(x, Timer)'
      BY <1>7, QueueGrows
    <3> QED
      BY <1>6, <3>1 DEF SameTimer, memVars
  <2> QED
    BY <2>1, SameTimerKeeps DEF TimersInv
<1>12. IdsInv'
  <2>1. \A k \in F : Tracked(r[k]) /\ r[k].id \in (calls + 1)..(calls + n)
    BY <1>3, <1>5
  <2>2. \A k, l \in F : r[k].id = r[l].id => k = l
    BY <1>3, <1>5
  <2> QED
    BY <1>2, <1>6, <1>7, <2>1, <2>2, RequestsJoin
<1>13. HeardInv'
  BY <1>6 DEF HeardInv, HeardOf, memVars, flushVars
<1>14. DurableInv'
  <2>1. \A x \in Keys : Same(x)
    BY <1>6 DEF Same, memVars, diskVars
  <2> QED
    BY <2>1, SameKeeps DEF DurableInv
<1>15. \A k \in Found : \E q :
         waiting'[k] = Append(waiting[k], q) /\ q.kind = "delete" /\ q.id \in deleting'
  <2> SUFFICES ASSUME NEW k \in F
               PROVE  /\ waiting'[k] = Append(waiting[k], r[k])
                      /\ r[k].kind = "delete" /\ r[k].id \in deleting'
    BY <1>1
  <2>1. id[k] \in (calls + 1)..(calls + n)
    BY <1>3
  <2> QED
    BY <1>5, <1>6, <1>7, <2>1
<1> QED
  BY <1>6, <1>10, <1>11, <1>12, <1>13, <1>14, <1>15

LEMMA SweepStoreStep ==
  ASSUME StoreSteps \/ SweepFlushed \/ (\E ok \in BOOLEAN : ReadsDirectory(ok)) \/ Answers
           \/ DeletesSettle \/ (\E store, deletes : CallSweep(store, deletes))
           \/ UNCHANGED <<vars, sweepVars>>
  PROVE  [Next]_vars /\ crashes' = crashes
<1>1. CASE StoreSteps
  BY <1>1 DEF StoreSteps
<1>2. CASE \E store, deletes : CallSweep(store, deletes)
  BY <1>2, SweepAssumption DEF CallSweep, CallFlush, Next
<1>3. CASE \/ SweepFlushed \/ (\E ok \in BOOLEAN : ReadsDirectory(ok)) \/ Answers
           \/ DeletesSettle \/ UNCHANGED <<vars, sweepVars>>
  BY <1>3 DEF SweepFlushed, ReadsDirectory, Answers, DeletesSettle, vars
<1> QED
  BY <1>1, <1>2, <1>3

(* What a step of the store does to a key's file and entry. *)
KeyStep(k) ==
  /\ disk'[k] = NoVal /\ disk[k] # NoVal => OnChain(k, "delete")
  /\ disk'[k] # NoVal /\ disk[k] = NoVal => OnChain(k, "set") \/ IsPending(k)
  /\ pending'[k].val # NoVal /\ ~IsPending(k) => OnChain(k, "set") \/ saved[k].entry.val # NoVal
  /\ saved'[k].entry.val # NoVal => IsPending(k) \/ saved[k].entry.val # NoVal

LEMMA HeadOnChain ==
  ASSUME TypeOK, NEW k \in Keys, NEW kind, Starts(k, kind)
  PROVE  OnChain(k, kind)
<1>1. waiting[k] \in Seq(Requests) /\ waiting[k] # <<>> /\ Head(waiting[k]).kind = kind
  BY DEF TypeOK, Starts
<1> QED
  BY <1>1, Shifted DEF OnChain

LEMMA KeySteps ==
  ASSUME StoreInv, [Next]_vars, crashes' = crashes, NEW k \in Keys
  PROVE  KeyStep(k)
<1> USE DEF StoreInv
<1>1. JobKnown(k) /\ KeyInv(k)
  BY DEF TimersInv, DurableInv
<1>2. ASSUME disk'[k] = disk[k], pending'[k].val \in {pending[k].val, NoVal},
             saved'[k] \in {saved[k], NothingSaved}
      PROVE  KeyStep(k)
  BY <1>2 DEF KeyStep, IsPending, NothingSaved, NoEntry
<1>3. ASSUME NEW x \in Keys \ {k}, ChainStep(x) PROVE KeyStep(k)
  <2>1. SameChain(k)
    BY <1>3, OtherChains
  <2>2. disk'[k] = disk[k]
    <3>1. ASSUME NEW ok \in BOOLEAN,
                 WriteTmp(x, ok) \/ Publish(x, ok) \/ SyncDir(x, ok) \/ ReadFile(x, ok)
          PROVE  disk'[k] = disk[k]
      BY <3>1 DEF WriteTmp, Publish, SyncDir, ReadFile, diskVars, TypeOK
    <3>2. ASSUME DeleteStep(x) PROVE disk'[k] = disk[k]
      BY <3>2 DEF DeleteStep, UnlinkFails, UnlinkAbsent, UnlinkUncertain, Unlinked,
         DeleteSynced, UnlinkSyncFails, AbsentSyncFails, diskVars, TypeOK
    <3>3. CASE \/ SetSkips(x) \/ SetDebounced(x) \/ FlushSkips(x) \/ GetHits(x)
               \/ SetCritical(x) \/ FlushWrites(x) \/ GetMisses(x) \/ DeleteStarts(x)
      BY <3>3 DEF SetSkips, SetDebounced, FlushSkips, GetHits, SetCritical, FlushWrites,
         GetMisses, DeleteStarts, diskVars
    <3> QED
      BY <1>3, <3>1, <3>2, <3>3 DEF ChainStep, DeleteStep
  <2> QED
    BY <1>2, <2>1, <2>2 DEF SameChain
<1>4. CASE SetSkips(k) \/ FlushSkips(k) \/ GetHits(k) \/ SetCritical(k) \/ FlushWrites(k) \/ GetMisses(k)
  <2>1. disk' = disk
    BY <1>4 DEF SetSkips, FlushSkips, GetHits, SetCritical, FlushWrites, GetMisses, diskVars
  <2>2. pending'[k].val = pending[k].val
    <3>1. pending \in [Keys -> Entries]
      BY DEF TypeOK
    <3>2. CASE SetSkips(k) \/ FlushWrites(k)
      BY <3>1, <3>2 DEF SetSkips, FlushWrites, Entries
    <3>3. CASE FlushSkips(k) \/ GetHits(k) \/ SetCritical(k) \/ GetMisses(k)
      BY <3>3 DEF FlushSkips, GetHits, SetCritical, GetMisses, memVars
    <3> QED
      BY <1>4, <3>2, <3>3
  <2>3. saved'[k] \in {saved[k], NothingSaved}
    BY <1>4, SettleAt DEF SetSkips, FlushSkips, GetHits, SetCritical, FlushWrites, GetMisses
  <2> QED
    BY <1>2, <2>1, <2>2, <2>3
<1>5. CASE SetDebounced(k)
  <2>1. disk' = disk /\ saved'[k] = NothingSaved /\ OnChain(k, "set")
    BY <1>5, SettleAt, HeadOnChain DEF SetDebounced, diskVars
  <2> QED
    BY <2>1 DEF KeyStep, NothingSaved, NoEntry
<1>6. CASE DeleteStarts(k)
  <2>1. disk' = disk /\ saved'[k].entry = pending[k] /\ pending'[k] = NoEntry
    BY <1>6 DEF DeleteStarts, TypeOK, diskVars
  <2> QED
    BY <2>1 DEF KeyStep, IsPending, NoEntry
<1>7. ASSUME NEW ok \in BOOLEAN, WriteTmp(k, ok) \/ SyncDir(k, ok) \/ ReadFile(k, ok)
      PROVE  KeyStep(k)
  <2>1. disk' = disk
    BY <1>7 DEF WriteTmp, SyncDir, ReadFile, diskVars
  <2>2. saved'[k] \in {saved[k], NothingSaved}
    BY <1>7, SettleAt DEF WriteTmp, SyncDir, ReadFile, Certified, Uncertified
  <2>3. pending'[k].val \in {pending[k].val, NoVal}
    <3>1. CASE WriteTmp(k, ok)
      BY <3>1, KeepEntryAt DEF WriteTmp
    <3>2. CASE SyncDir(k, ok)
      BY <3>2, CertifiedAt, UncertifiedAt DEF SyncDir, NoEntry
    <3>3. CASE ReadFile(k, ok)
      BY <3>3 DEF ReadFile
    <3> QED
      BY <1>7, <3>1, <3>2, <3>3
  <2> QED
    BY <1>2, <2>1, <2>2, <2>3
<1>8. ASSUME NEW ok \in BOOLEAN, Publish(k, ok) PROVE KeyStep(k)
  <2>1. disk'[k] \in {disk[k], Written(k)}
    BY <1>8 DEF Publish, TypeOK
  <2>2. /\ saved'[k] \in {saved[k], NothingSaved}
        /\ pending'[k].val = pending[k].val
    BY <1>8, UncertifiedAt DEF Publish, memVars
  <2>3. Busy(k) /\ job[k].kind \in {"set", "flush"} /\ job[k] \in Requests
    BY <1>1, <1>8 DEF Publish, JobKnown, Busy, TypeOK
  <2>4. CASE job[k].kind = "set"
    <3>1. Written(k) # NoVal
      BY <2>3, <2>4, StoreAssumption DEF Written, Requests
    <3>2. OnChain(k, "set")
      BY <2>3, <2>4 DEF OnChain, Busy
    <3> QED
      BY <2>1, <2>2, <3>1, <3>2 DEF KeyStep, IsPending, NothingSaved, NoEntry
  <2>5. CASE job[k].kind = "flush"
    <3>1. IsPending(k) /\ Written(k) # NoVal
      BY <1>1, <2>3, <2>5 DEF JobKnown, Written, IsPending
    <3> QED
      BY <2>1, <2>2, <3>1 DEF KeyStep, IsPending, NothingSaved, NoEntry
  <2> QED
    BY <2>3, <2>4, <2>5
<1>9. CASE UnlinkFails(k) \/ AbsentSyncFails(k)
  <2>1. /\ disk' = disk /\ saved'[k] = NothingSaved
        /\ \/ pending'[k].val = pending[k].val
           \/ saved[k].entry.val # NoVal
    BY <1>9, SettleAt, RestoreAt DEF UnlinkFails, AbsentSyncFails, diskVars
  <2> QED
    BY <2>1 DEF KeyStep, IsPending, NothingSaved, NoEntry
<1>10. CASE UnlinkAbsent(k) \/ DeleteSynced(k) \/ UnlinkSyncFails(k) \/ UnlinkUncertain(k)
  <2>1. disk' = disk /\ pending' = pending
    BY <1>10 DEF UnlinkAbsent, DeleteSynced, UnlinkSyncFails, UnlinkUncertain, diskVars, memVars
  <2>2. saved'[k] \in {saved[k], NothingSaved}
    BY <1>10, SettleAt DEF UnlinkAbsent, DeleteSynced, UnlinkSyncFails, UnlinkUncertain
  <2> QED
    BY <1>2, <2>1, <2>2
<1>11. CASE Unlinked(k)
  <2>1. disk'[k] = NoVal /\ pending' = pending /\ saved' = saved
    BY <1>11 DEF Unlinked, TypeOK, memVars
  <2>2. OnChain(k, "delete")
    BY <1>1, <1>11 DEF Unlinked, JobKnown, OnChain
  <2> QED
    BY <2>1, <2>2 DEF KeyStep, IsPending
<1>12. ASSUME NEW x \in Keys, NEW kind, NEW val, Admit(x, kind, val) PROVE KeyStep(k)
  BY <1>2, <1>12 DEF Admit, memVars, diskVars
<1>13. ASSUME NEW x \in Keys, TimerFires(x) PROVE KeyStep(k)
  <2>1. pending'[k].val = pending[k].val
    BY <1>13 DEF TimerFires, TypeOK, Entries
  <2> QED
    BY <1>2, <1>13, <2>1 DEF TimerFires, diskVars
<1>14. ASSUME NEW x \in Keys, Writeback(x) PROVE KeyStep(k)
  BY <1>2, <1>14 DEF Writeback, memVars, chainVars
<1>15. ASSUME NEW f \in Flushers, CallFlush(f) PROVE KeyStep(k)
  <2>1. pending'[k].val = pending[k].val
    BY <1>15 DEF CallFlush, TypeOK, Entries
  <2> QED
    BY <1>2, <1>15, <2>1 DEF CallFlush, diskVars, chainVars
<1>16. ASSUME NEW f \in Flushers, FlushStep(f) PROVE KeyStep(k)
  <2>1. UNCHANGED <<pending, disk, saved>>
    BY <1>16 DEF FlushStep, BarrierQuiet, BarrierDrains, PassDrained, memVars, diskVars, chainVars
  <2> QED
    BY <1>2, <2>1
<1>17. CASE UNCHANGED vars
  BY <1>2, <1>17 DEF vars, memVars, diskVars, chainVars
<1>18. ~Crash
  BY DEF Crash, LosesMemory, TypeOK
<1>19. ASSUME NEW x \in Keys, ChainStep(x) PROVE KeyStep(k)
  BY <1>3, <1>4, <1>5, <1>6, <1>7, <1>8, <1>9, <1>10, <1>11, <1>19 DEF ChainStep
<1> QED
  BY <1>12, <1>13, <1>14, <1>15, <1>16, <1>17, <1>18, <1>19 DEF Next, CallSet, CallGet, CallDelete

(* A request stays on its chain until it settles. *)
LEMMA PlacesPersist ==
  ASSUME TypeOK, [Next]_vars, crashes' = crashes, NEW k \in Keys, NEW i \in Places(k)
  PROVE  \/ \E j \in Places(k)' : At(k, j)' = At(k, i)
         \/ ChainStep(k) /\ StartSettles(k) /\ At(k, i) = Request(k)
         \/ ChainStep(k) /\ RunSettles(k) /\ At(k, i) = job[k]
<1>1. waiting[k] \in Seq(Requests) /\ 0 \notin DOMAIN waiting[k]
  BY PlacesAreNumbers
<1>2. ASSUME job'[k] = job[k], stage'[k] = stage[k],
             waiting'[k] = waiting[k] \/ \E r : waiting'[k] = Append(waiting[k], r)
      PROVE  \E j \in Places(k)' : At(k, j)' = At(k, i)
  <2>1. i \in Places(k)' /\ At(k, i)' = At(k, i)
    BY <1>1, <1>2, Appended DEF Places, At, Busy
  <2> QED
    BY <2>1
<1>3. ASSUME NEW x \in Keys \ {k}, ChainStep(x)
      PROVE  \E j \in Places(k)' : At(k, j)' = At(k, i)
  BY <1>2, <1>3, OtherChains DEF SameChain
<1>4. ASSUME StartSettles(k) \/ StartGoes(k), i # 1
      PROVE  \E j \in Places(k)' : At(k, j)' = At(k, i)
  <2>1. stage[k] = "idle" /\ waiting[k] # <<>> /\ waiting'[k] = Tail(waiting[k])
    BY <1>1, <1>4 DEF StartSettles, StartGoes, Starts, TypeOK
  <2>2. i \in DOMAIN waiting[k] \ {1}
    BY <1>4, <2>1 DEF Places, Busy
  <2>3. i - 1 \in DOMAIN waiting'[k] /\ waiting'[k][i - 1] = waiting[k][i] /\ i - 1 # 0 /\ i # 0
    BY <1>1, <2>1, <2>2, Shifted
  <2>4. PICK j : j = i - 1
    OBVIOUS
  <2>5. j \in Places(k)' /\ At(k, j)' = At(k, i)
    BY <2>3, <2>4 DEF Places, At
  <2> QED
    BY <2>5
<1>5. ASSUME StartSettles(k) \/ StartGoes(k), i = 1
      PROVE  At(k, i) = Request(k)
  BY <1>1, <1>5, Shifted DEF StartSettles, StartGoes, Starts, Request, At
<1>6. ASSUME StartGoes(k), i = 1 PROVE \E j \in Places(k)' : At(k, j)' = At(k, i)
  <2>1. 0 \in Places(k)' /\ At(k, 0)' = Request(k)
    BY <1>6, GoToAt DEF StartGoes, Places, At, Busy
  <2> QED
    BY <1>5, <1>6, <2>1
<1>7. ASSUME RunSettles(k), i # 0 PROVE \E j \in Places(k)' : At(k, j)' = At(k, i)
  <2>1. i \in Places(k)' /\ At(k, i)' = At(k, i)
    BY <1>7 DEF RunSettles, Places, At
  <2> QED
    BY <2>1
<1>8. ASSUME RunGoes(k) PROVE \E j \in Places(k)' : At(k, j)' = At(k, i)
  <2>1. job'[k] = job[k] /\ stage'[k] # "idle"
    BY <1>8, GoToAt DEF RunGoes
  <2>2. i \in Places(k)' /\ At(k, i)' = At(k, i)
    BY <1>8, <2>1 DEF RunGoes, Places, At, Busy
  <2> QED
    BY <2>2
<1>9. CASE ChainStep(k)
  <2>1. RunSettles(k) /\ i = 0 => At(k, i) = job[k]
    BY DEF At
  <2> QED
    BY <1>4, <1>5, <1>6, <1>7, <1>8, <1>9, <2>1, ChainForms
<1>10. ASSUME NEW x \in Keys, NEW kind, NEW val, Admit(x, kind, val)
       PROVE  \E j \in Places(k)' : At(k, j)' = At(k, i)
  BY <1>2, <1>10 DEF Admit, TypeOK
<1>11. ASSUME NEW x \in Keys, TimerFires(x) \/ Writeback(x)
       PROVE  \E j \in Places(k)' : At(k, j)' = At(k, i)
  <2>1. CASE TimerFires(x)
    <3>1. waiting'[k] = waiting[k] \/ \E r : waiting'[k] = Append(waiting[k], r)
      BY <2>1 DEF TimerFires, TypeOK
    <3> QED
      BY <1>2, <2>1, <3>1 DEF TimerFires
  <2>2. CASE Writeback(x)
    BY <1>2, <2>2 DEF Writeback, chainVars
  <2> QED
    BY <1>11, <2>1, <2>2
<1>12. ASSUME NEW f \in Flushers, CallFlush(f) \/ FlushStep(f)
       PROVE  \E j \in Places(k)' : At(k, j)' = At(k, i)
  <2>1. CASE BarrierDrains(f)
    <3>1. waiting'[k] = waiting[k] \/ \E r : waiting'[k] = Append(waiting[k], r)
      BY <2>1 DEF BarrierDrains
    <3> QED
      BY <1>2, <2>1, <3>1 DEF BarrierDrains
  <2>2. CASE CallFlush(f) \/ BarrierQuiet(f) \/ PassDrained(f)
    <3>1. UNCHANGED chainVars
      BY <2>2 DEF CallFlush, BarrierQuiet, PassDrained
    <3> QED
      BY <1>2, <3>1 DEF chainVars
  <2> QED
    BY <1>12, <2>1, <2>2 DEF FlushStep
<1>13. CASE UNCHANGED vars
  BY <1>2, <1>13 DEF vars, chainVars
<1>14. ~Crash
  BY DEF Crash, LosesMemory, TypeOK
<1> QED
  BY <1>3, <1>9, <1>10, <1>11, <1>12, <1>13, <1>14 DEF Next, CallSet, CallGet, CallDelete

-----------------------------------------------------------------------------
(* What an enumerating call knows, from its call to its answer *)

SweepOK ==
  /\ sweep \in [at : {"idle", "flush", "readdir", "listed", "delete", "resolved", "rejected"},
                deletes : BOOLEAN, store : SUBSET Keys, failed : BOOLEAN]
  /\ listed \subseteq Keys

(* The histories have seen the present state. *)
Observed ==
  Sweeping => \A k \in Keys :
    /\ MayBeHeld(k) => k \in sometime
    /\ k \in throughout => Held(k)
    /\ Disturbs(k) => k \in disturbed

Flushed ==
  \/ sweep.at = "flush" /\ flusher[Sweeper] = "resolved"
  \/ sweep.at \in {"readdir", "listed", "delete"}

(* Once the flush has resolved, what was held all along is in its file,    *)
(* and only a key set meanwhile is queued, or may be queued again.         *)
FlushSound ==
  Flushed => \A k \in Keys :
    /\ k \in throughout => disk[k] # NoVal
    /\ k \notin disturbed => ~IsPending(k) /\ saved[k].entry.val = NoVal

(* A key the listing lacks had no file, and only a set() makes one. *)
ListSound ==
  /\ sweep.at \in {"listed", "delete"} =>
       \A k \in sweep.store \ listed : k \notin throughout /\ (k \in disturbed \/ disk[k] = NoVal)
  /\ sweep.at = "listed" => listed \subseteq sometime

Deletes(k) == \E i \in Places(k) : At(k, i).kind = "delete" /\ At(k, i).id \in deleting

(* The call's delete of a key it found is on the key's chain until it      *)
(* fails, which the call hears, or the file is gone.                       *)
DeletesSound ==
  sweep.at = "delete" => \A k \in listed :
    sweep.failed \/ k \in disturbed \/ disk[k] = NoVal \/ Deletes(k)

SweepInv ==
  StoreInv /\ SweepOK /\ Observed /\ FlushSound /\ ListSound /\ ListingIsExact /\ DeletesSound

sweepAll == <<vars, sweepVars>>

LEMMA SweepTypes == SweepOK /\ [SweepNext]_sweepAll => SweepOK'
<1> SUFFICES ASSUME SweepOK, [SweepNext]_sweepAll PROVE SweepOK'
  OBVIOUS
<1> USE DEF SweepOK
<1>1. CASE StoreSteps
  BY <1>1 DEF StoreSteps, HearsOfDeletes
<1>2. ASSUME NEW store \in {Critical, Debounced}, NEW deletes \in BOOLEAN, CallSweep(store, deletes)
      PROVE  SweepOK'
  BY <1>2 DEF CallSweep, Keys
<1>3. CASE SweepFlushed
  BY <1>3 DEF SweepFlushed
<1>4. ASSUME NEW ok \in BOOLEAN, ReadsDirectory(ok) PROVE SweepOK'
  BY <1>4 DEF ReadsDirectory
<1>5. CASE Answers \/ AdmitsDeletes
  BY <1>5 DEF Answers, AdmitsDeletes, Found
<1>6. CASE DeletesSettle
  BY <1>6 DEF DeletesSettle
<1>7. CASE UNCHANGED sweepAll
  BY <1>7 DEF sweepAll, sweepVars
<1> QED
  BY <1>1, <1>2, <1>3, <1>4, <1>5, <1>6, <1>7 DEF SweepNext, SweepStep

LEMMA SweepStores == StoreInv /\ SweepOK /\ [SweepNext]_sweepAll => StoreInv'
<1>1. CASE AdmitsDeletes
  BY <1>1, DeletesJoin DEF SweepOK
<1>2. CASE ~AdmitsDeletes
  BY <1>2, StoreKeeps, SweepStoreStep DEF SweepNext, SweepStep, sweepAll
<1> QED
  BY <1>1, <1>2

(* What a step of the store may do to a call under way. *)
LEMMA StoreHeard ==
  ASSUME SweepInv, StoreSteps
  PROVE  /\ [Next]_vars /\ crashes' = crashes
         /\ sweep'.at = sweep.at /\ sweep'.deletes = sweep.deletes
         /\ sweep'.store = sweep.store /\ listed' = listed
         /\ sweep.failed => sweep'.failed
         /\ deleting' = deleting \cap admitted'
         /\ throughout' \subseteq throughout
         /\ sometime \subseteq sometime' /\ disturbed \subseteq disturbed'
<1>1. [Next]_vars /\ crashes' = crashes /\ listed' = listed
  BY DEF StoreSteps
<1>2. HearsOfDeletes /\ SweepOK
  BY DEF StoreSteps, SweepInv
<1>3. /\ sweep'.at = sweep.at /\ sweep'.deletes = sweep.deletes /\ sweep'.store = sweep.store
      /\ sweep.failed => sweep'.failed
      /\ deleting' = deleting \cap admitted'
  BY <1>2 DEF HearsOfDeletes, SweepOK
<1>4. throughout' \subseteq throughout /\ sometime \subseteq sometime' /\ disturbed \subseteq disturbed'
  BY DEF StoreSteps, Observes
<1> QED
  BY <1>1, <1>3, <1>4

LEMMA ObservedStep == SweepInv /\ [SweepNext]_sweepAll => Observed'
<1> SUFFICES ASSUME SweepInv, [SweepNext]_sweepAll PROVE Observed'
  OBVIOUS
<1>1. ASSUME throughout' \subseteq {k \in Keys : Held(k)'},
             {k \in Keys : MayBeHeld(k)'} \subseteq sometime',
             {k \in Keys : Disturbs(k)'} \subseteq disturbed'
      PROVE  Observed'
  BY <1>1 DEF Observed
<1>2. ASSUME UNCHANGED <<vars, throughout, sometime, disturbed>>, Sweeping' => Sweeping
      PROVE  Observed'
  <2>1. UNCHANGED <<acked, job, stage, waiting>>
    BY <1>2 DEF vars, chainVars
  <2>2. SUFFICES ASSUME Sweeping' PROVE Observed'
    BY DEF Observed
  <2>3. Observed /\ Sweeping
    BY <1>2, <2>2 DEF SweepInv
  <2> QED
    BY <1>2, <2>1, <2>3 DEF Observed, MayBeHeld, Held, Disturbs, OnChain
<1>3. CASE StoreSteps
  <2>1. CASE Sweeping
    BY <1>1, <1>3, <2>1 DEF StoreSteps, Observes
  <2>2. CASE ~Sweeping
    BY <1>3, <2>2, StoreHeard DEF Observed, Sweeping
  <2> QED
    BY <2>1, <2>2
<1>4. CASE AdmitsDeletes
  BY <1>1, <1>4 DEF AdmitsDeletes, Observes
<1>5. ASSUME NEW store, NEW deletes, CallSweep(store, deletes) PROVE Observed'
  BY <1>1, <1>5 DEF CallSweep
<1>6. CASE SweepFlushed
  BY <1>2, <1>6 DEF SweepFlushed, Sweeping
<1>7. ASSUME NEW ok \in BOOLEAN, ReadsDirectory(ok) PROVE Observed'
  BY <1>2, <1>7 DEF ReadsDirectory, Sweeping
<1>8. CASE Answers
  <2>1. ~Sweeping'
    BY <1>8 DEF Answers, Sweeping, SweepInv, SweepOK
  <2> QED
    BY <2>1 DEF Observed
<1>9. CASE DeletesSettle
  <2>1. ~Sweeping'
    BY <1>9 DEF DeletesSettle, Sweeping, SweepInv, SweepOK
  <2> QED
    BY <2>1 DEF Observed
<1>10. CASE UNCHANGED sweepAll
  BY <1>2, <1>10 DEF sweepAll, sweepVars, Sweeping
<1> QED
  BY <1>3, <1>4, <1>5, <1>6, <1>7, <1>8, <1>9, <1>10 DEF SweepNext, SweepStep

(* A flush that resolves finds every held key in its file. *)
LEMMA HeldIsFiled ==
  ASSUME StoreInv, NEW k \in Keys, Idle(k), ~IsPending(k)
  PROVE  /\ Held(k) => disk[k] # NoVal
         /\ saved[k].entry.val = NoVal
<1>1. AckedIsHeld(k) /\ JobKnown(k)
  BY DEF StoreInv, DurableInv, KeyInv, TimersInv
<1>2. Held(k) => disk[k] # NoVal
  BY <1>1, StoreAssumption DEF Held, AckedIsHeld, Idle
<1>3. saved[k] = NothingSaved
  BY <1>1 DEF JobKnown, Busy, Idle
<1> QED
  BY <1>2, <1>3 DEF NothingSaved, NoEntry

(* After the flush no key is held and then absent, and none is queued, but *)
(* for those a delete or a set() of somebody else is for.                  *)
LEMMA FlushedStep ==
  ASSUME SweepInv, StoreSteps, Flushed, NEW k \in Keys
  PROVE  /\ k \in throughout => disk'[k] # NoVal
         /\ k \notin disturbed => ~IsPending(k)' /\ saved'[k].entry.val = NoVal
         /\ k \notin disturbed /\ disk[k] = NoVal => disk'[k] = NoVal
<1>1. KeyStep(k)
  BY StoreHeard, KeySteps DEF SweepInv
<1>2. Sweeping
  BY DEF Flushed, Sweeping
<1>3. /\ k \in throughout => Held(k) /\ disk[k] # NoVal
      /\ k \notin disturbed => ~OnChain(k, "set") /\ ~IsPending(k) /\ saved[k].entry.val = NoVal
  BY <1>2 DEF SweepInv, Observed, Disturbs, FlushSound
<1> QED
  BY <1>1, <1>3 DEF KeyStep, Held, IsPending

LEMMA FlushSoundStep == SweepInv /\ [SweepNext]_sweepAll => FlushSound'
<1> SUFFICES ASSUME SweepInv, [SweepNext]_sweepAll, Flushed', NEW k \in Keys
             PROVE  /\ k \in throughout' => disk'[k] # NoVal
                    /\ k \notin disturbed' => ~IsPending(k)' /\ saved'[k].entry.val = NoVal
  BY DEF FlushSound
<1>1. ASSUME Flushed, UNCHANGED <<pending, disk, saved>>,
             throughout' \subseteq throughout, disturbed \subseteq disturbed'
      PROVE  /\ k \in throughout' => disk'[k] # NoVal
             /\ k \notin disturbed' => ~IsPending(k)' /\ saved'[k].entry.val = NoVal
  BY <1>1 DEF SweepInv, FlushSound, IsPending
<1>2. ASSUME UNCHANGED <<vars, throughout, disturbed>>, Flushed
      PROVE  /\ k \in throughout' => disk'[k] # NoVal
             /\ k \notin disturbed' => ~IsPending(k)' /\ saved'[k].entry.val = NoVal
  BY <1>1, <1>2 DEF vars, memVars, diskVars, chainVars
<1>3. CASE StoreSteps
  <2>1. CASE Flushed
    BY <1>3, <2>1, FlushedStep, StoreHeard
  <2>2. CASE ~Flushed
    <3>1. sweep.at = "flush" /\ flusher[Sweeper] # "resolved" /\ flusher'[Sweeper] = "resolved"
      BY <1>3, <2>2, StoreHeard DEF Flushed
    <3>2. FlushEnds(Sweeper) /\ UNCHANGED <<pending, disk, saved>>
      BY <1>3, <3>1, StoreHeard, Resolves, SweepAssumption
         DEF SweepInv, StoreInv, memVars, diskVars, chainVars
    <3>3. Idle(k) /\ ~IsPending(k)
      BY <3>1, <3>2, ResolvesAtRest, SweepAssumption DEF SweepInv, StoreInv
    <3>4. k \in throughout => Held(k)
      BY <3>1 DEF SweepInv, Observed, Sweeping
    <3>5. throughout' \subseteq throughout
      BY <1>3, StoreHeard
    <3> QED
      BY <3>2, <3>3, <3>4, <3>5, HeldIsFiled DEF SweepInv, IsPending
  <2> QED
    BY <2>1, <2>2
<1>4. CASE AdmitsDeletes
  BY <1>1, <1>4 DEF AdmitsDeletes, Observes, Flushed, memVars, diskVars
<1>5. ASSUME NEW store, NEW deletes, CallSweep(store, deletes) PROVE FALSE
  <2>1. sweep'.at = "flush"
    BY <1>5 DEF CallSweep
  <2>2. flusher'[Sweeper] = "barrier"
    BY <1>5, SweepAssumption DEF CallSweep, CallFlush, SweepInv, StoreInv, TypeOK
  <2> QED
    BY <2>1, <2>2 DEF Flushed
<1>6. CASE SweepFlushed
  BY <1>2, <1>6 DEF SweepFlushed, Flushed, SweepInv, SweepOK
<1>7. ASSUME NEW ok \in BOOLEAN, ReadsDirectory(ok)
      PROVE  /\ k \in throughout' => disk'[k] # NoVal
             /\ k \notin disturbed' => ~IsPending(k)' /\ saved'[k].entry.val = NoVal
  BY <1>2, <1>7 DEF ReadsDirectory, Flushed
<1>8. CASE Answers \/ DeletesSettle
  BY <1>2, <1>8 DEF Answers, DeletesSettle, Flushed
<1>9. CASE UNCHANGED sweepAll
  BY <1>2, <1>9 DEF sweepAll, sweepVars, Flushed, vars, flushVars
<1> QED
  BY <1>3, <1>4, <1>5, <1>6, <1>7, <1>8, <1>9 DEF SweepNext, SweepStep

(* A file of a key that may not be held is one a critical set() is about   *)
(* to certify.                                                             *)
LEMMA FiledMayBeHeld ==
  ASSUME StoreInv, NEW k \in Keys, disk[k] # NoVal \/ IsPending(k)
  PROVE  MayBeHeld(k)
<1>1. AckedIsHeld(k) /\ WriterKnown(k) /\ DeleteCaptured(k)
  BY DEF StoreInv, DurableInv, KeyInv
<1>2. SUFFICES ASSUME acked[k] = NoVal PROVE OnChain(k, "set")
  BY DEF MayBeHeld
<1>3. ~IsPending(k) /\ disk[k] # NoVal
  BY <1>1, <1>2 DEF AckedIsHeld, IsPending
<1>4. stage[k] = "sync" /\ job[k].kind = "set"
  BY <1>1, <1>2, <1>3, StoreAssumption DEF AckedIsHeld, WriterKnown, DeleteCaptured
<1> QED
  BY <1>4 DEF OnChain

LEMMA ListSoundStep == SweepInv /\ [SweepNext]_sweepAll => ListSound'
<1> SUFFICES ASSUME SweepInv, [SweepNext]_sweepAll PROVE ListSound'
  OBVIOUS
<1>1. ASSUME sweep'.at \notin {"listed", "delete"} PROVE ListSound'
  BY <1>1 DEF ListSound
<1>2. CASE StoreSteps
  <2>1. SUFFICES ASSUME sweep.at \in {"listed", "delete"} PROVE ListSound'
    BY <1>1, <1>2, StoreHeard
  <2>2. Flushed
    BY <2>1 DEF Flushed
  <2>3. /\ sweep'.at = sweep.at /\ sweep'.store = sweep.store /\ listed' = listed
        /\ throughout' \subseteq throughout
        /\ sometime \subseteq sometime' /\ disturbed \subseteq disturbed'
    BY <1>2, StoreHeard
  <2>4. \A k \in sweep.store : k \notin disturbed /\ disk[k] = NoVal => disk'[k] = NoVal
    BY <1>2, <2>2, FlushedStep DEF SweepInv, SweepOK
  <2> QED
    BY <2>1, <2>3, <2>4 DEF ListSound, SweepInv
<1>3. CASE AdmitsDeletes
  <2>1. /\ sweep.at = "listed" /\ sweep'.at = "delete" /\ sweep'.store = sweep.store
        /\ listed \subseteq listed' /\ disk' = disk
        /\ throughout' \subseteq throughout /\ disturbed \subseteq disturbed'
    BY <1>3 DEF AdmitsDeletes, Found, Observes, diskVars, SweepInv, SweepOK
  <2> QED
    BY <2>1 DEF ListSound, SweepInv
<1>4. ASSUME NEW store, NEW deletes, CallSweep(store, deletes) PROVE ListSound'
  BY <1>1, <1>4 DEF CallSweep
<1>5. CASE SweepFlushed
  BY <1>1, <1>5 DEF SweepFlushed, SweepInv, SweepOK
<1>6. ASSUME NEW ok \in BOOLEAN, ReadsDirectory(ok) PROVE ListSound'
  <2>1. SUFFICES ASSUME ok PROVE ListSound'
    BY <1>1, <1>6 DEF ReadsDirectory, SweepInv, SweepOK
  <2>2. /\ sweep.at = "readdir" /\ listed' = {k \in sweep.store : disk[k] # NoVal}
        /\ sweep'.store = sweep.store /\ sweep.store \subseteq Keys /\ sweep'.at = "listed"
        /\ UNCHANGED <<disk, throughout, sometime, disturbed>>
    BY <1>6, <2>1 DEF ReadsDirectory, SweepInv, SweepOK, vars, diskVars
  <2>3. \A k \in Keys : disk[k] = NoVal => k \notin throughout
    BY <2>2 DEF SweepInv, FlushSound, Flushed
  <2>4. \A k \in Keys : disk[k] # NoVal => k \in sometime
    BY <2>2, FiledMayBeHeld DEF SweepInv, Observed, Sweeping
  <2> QED
    BY <2>2, <2>3, <2>4 DEF ListSound
<1>7. CASE Answers \/ DeletesSettle
  BY <1>1, <1>7 DEF Answers, DeletesSettle, SweepInv, SweepOK
<1>8. CASE UNCHANGED sweepAll
  BY <1>8 DEF sweepAll, sweepVars, vars, diskVars, ListSound, SweepInv
<1> QED
  BY <1>2, <1>3, <1>4, <1>5, <1>6, <1>7, <1>8 DEF SweepNext, SweepStep

LEMMA FoundIsExact ==
  ASSUME SweepInv, sweep.at = "listed"
  PROVE  throughout \cap sweep.store \subseteq Found /\ Found \subseteq sometime
<1>1. \A k \in sweep.store : IsPending(k) => k \in sometime
  BY FiledMayBeHeld DEF SweepInv, SweepOK, Observed, Sweeping
<1> QED
  BY <1>1 DEF SweepInv, ListSound, Found

LEMMA ListingStep == SweepInv /\ [SweepNext]_sweepAll => ListingIsExact'
<1> SUFFICES ASSUME SweepInv, [SweepNext]_sweepAll PROVE ListingIsExact'
  OBVIOUS
<1>1. ASSUME sweep'.at \notin {"delete", "resolved"} PROVE ListingIsExact'
  BY <1>1 DEF ListingIsExact
<1>2. CASE StoreSteps
  BY <1>2, StoreHeard DEF SweepInv, ListingIsExact
<1>3. CASE AdmitsDeletes \/ Answers
  <2>1. /\ sweep.at = "listed" /\ listed' = Found /\ sweep'.store = sweep.store
        /\ throughout' \subseteq throughout /\ sometime \subseteq sometime'
    BY <1>3 DEF AdmitsDeletes, Answers, Observes, SweepInv, SweepOK
  <2> QED
    BY <2>1, FoundIsExact DEF ListingIsExact
<1>4. ASSUME NEW store, NEW deletes, CallSweep(store, deletes) PROVE ListingIsExact'
  BY <1>1, <1>4 DEF CallSweep
<1>5. CASE SweepFlushed
  BY <1>1, <1>5 DEF SweepFlushed, SweepInv, SweepOK
<1>6. ASSUME NEW ok \in BOOLEAN, ReadsDirectory(ok) PROVE ListingIsExact'
  BY <1>1, <1>6 DEF ReadsDirectory, SweepInv, SweepOK
<1>7. CASE DeletesSettle
  <2>1. /\ sweep.at = "delete" /\ sweep'.store = sweep.store
        /\ UNCHANGED <<listed, throughout, sometime>>
    BY <1>7 DEF DeletesSettle, SweepInv, SweepOK
  <2> QED
    BY <2>1 DEF ListingIsExact, SweepInv
<1>8. CASE UNCHANGED sweepAll
  BY <1>8 DEF sweepAll, sweepVars, ListingIsExact, SweepInv
<1> QED
  BY <1>2, <1>3, <1>4, <1>5, <1>6, <1>7, <1>8 DEF SweepNext, SweepStep

(* A delete that was waiting starts with an await, never by settling, ... *)
LEMMA DeletesAwait ==
  ASSUME TypeOK, NEW k \in Keys, ChainStep(k), StartSettles(k)
  PROVE  Request(k).kind # "delete"
<1>1. stage[k] = "idle" /\ stage'[k] = "idle"
  BY SettleAt DEF StartSettles, Starts
<1>2. ~DeleteStarts(k)
  BY <1>1, GoToAt DEF DeleteStarts
<1>3. \A ok \in BOOLEAN : ~(WriteTmp(k, ok) \/ Publish(k, ok) \/ SyncDir(k, ok) \/ ReadFile(k, ok))
  BY <1>1 DEF WriteTmp, Publish, SyncDir, ReadFile
<1>4. ~DeleteStep(k)
  BY <1>1 DEF DeleteStep, UnlinkFails, UnlinkAbsent, UnlinkUncertain, Unlinked,
     DeleteSynced, UnlinkSyncFails, AbsentSyncFails
<1>5. \E kind \in {"set", "flush", "get"} : Starts(k, kind)
  BY <1>2, <1>3, <1>4 DEF ChainStep, DeleteStep, SetSkips, SetCritical, SetDebounced,
     FlushSkips, FlushWrites, GetHits, GetMisses
<1> QED
  BY <1>5 DEF Starts, Request

(* ... and one that runs fails, or leaves no file. *)
LEMMA DeletesEnd ==
  ASSUME StoreInv, NEW k \in Keys, ChainStep(k), RunSettles(k), job[k].kind = "delete"
  PROVE  \/ UnlinkFails(k) \/ UnlinkSyncFails(k) \/ AbsentSyncFails(k)
         \/ disk'[k] = NoVal
<1>1. Busy(k) /\ stage'[k] = "idle" /\ JobKnown(k) /\ DeleteCaptured(k)
  BY SettleAt DEF RunSettles, StoreInv, TimersInv, DurableInv, KeyInv
<1>2. ~UnlinkUncertain(k) /\ ~Unlinked(k)
  BY <1>1, GoToAt DEF UnlinkUncertain, Unlinked, StoreInv
<1>3. DeleteStep(k)
  <2>1. stage[k] \in {"unlink", "unlinkSync", "absentSync"}
    BY <1>1 DEF JobKnown, Busy, StoreInv, TypeOK
  <2>2. \A ok \in BOOLEAN : ~(WriteTmp(k, ok) \/ Publish(k, ok) \/ SyncDir(k, ok) \/ ReadFile(k, ok))
    BY <2>1 DEF WriteTmp, Publish, SyncDir, ReadFile
  <2> QED
    BY <2>1, <2>2 DEF ChainStep, DeleteStep, Starts, SetSkips, SetCritical, SetDebounced,
       FlushSkips, FlushWrites, GetHits, GetMisses, DeleteStarts
<1>4. UnlinkAbsent(k) \/ DeleteSynced(k) => disk'[k] = NoVal
  BY <1>1 DEF UnlinkAbsent, DeleteSynced, DeleteCaptured, diskVars
<1> QED
  BY <1>2, <1>3, <1>4 DEF DeleteStep

LEMMA DeletesSoundStep == SweepInv /\ [SweepNext]_sweepAll => DeletesSound'
<1> SUFFICES ASSUME SweepInv, [SweepNext]_sweepAll PROVE DeletesSound'
  OBVIOUS
<1>1. ASSUME sweep'.at # "delete" PROVE DeletesSound'
  BY <1>1 DEF DeletesSound
<1>2. CASE StoreSteps
  <2>1. SUFFICES ASSUME sweep.at = "delete", NEW k \in listed
                 PROVE  sweep'.failed \/ k \in disturbed' \/ disk'[k] = NoVal \/ Deletes(k)'
    BY <1>2, StoreHeard DEF DeletesSound
  <2>2. k \in Keys /\ StoreInv /\ StoreInv' /\ Flushed
    BY <1>2, <2>1, StoreHeard, StoreKeeps DEF SweepInv, SweepOK, Flushed
  <2>3. sweep.failed \/ k \in disturbed \/ disk[k] = NoVal \/ Deletes(k)
    BY <2>1 DEF SweepInv, DeletesSound
  <2>4. CASE sweep.failed \/ k \in disturbed
    BY <1>2, <2>4, StoreHeard
  <2>5. CASE disk[k] = NoVal /\ k \notin disturbed
    BY <1>2, <2>2, <2>5, FlushedStep
  <2>6. ASSUME Deletes(k)
        PROVE  sweep'.failed \/ disk'[k] = NoVal \/ Deletes(k)'
    <3>1. PICK i \in Places(k) : At(k, i).kind = "delete" /\ At(k, i).id \in deleting
      BY <2>6 DEF Deletes
    <3>2. PICK id : id = At(k, i).id
      OBVIOUS
    <3>3. [Next]_vars /\ crashes' = crashes /\ deleting' = deleting \cap admitted'
      BY <1>2, StoreHeard
    <3>4. ASSUME NEW j \in Places(k)', At(k, j)' = At(k, i) PROVE Deletes(k)'
      <4>1. Tracked(At(k, j))' /\ At(k, j)'.kind = "delete" /\ At(k, j)'.id = id
        BY <3>1, <3>2, <3>4 DEF Tracked
      <4>2. id \in admitted'
        BY <2>2, <4>1 DEF StoreInv, IdsInv
      <4> QED
        BY <3>1, <3>2, <3>3, <4>1, <4>2 DEF Deletes
    <3>5. ~(ChainStep(k) /\ StartSettles(k) /\ At(k, i) = Request(k))
      BY <2>2, <3>1, DeletesAwait DEF StoreInv
    <3>6. ASSUME ChainStep(k), RunSettles(k), At(k, i) = job[k]
          PROVE  sweep'.failed \/ disk'[k] = NoVal
      <4>1. CASE disk'[k] = NoVal
        BY <4>1
      <4>2. CASE UnlinkFails(k) \/ UnlinkSyncFails(k) \/ AbsentSyncFails(k)
        <5>1. DeleteFails(k)
          BY <3>1, <3>6, <4>2 DEF DeleteFails
        <5>2. DeleteSucceeds(k) => disk'[k] = NoVal
          BY <2>2 DEF DeleteSucceeds, UnlinkAbsent, DeleteSynced, diskVars, StoreInv,
             DurableInv, KeyInv, DeleteCaptured
        <5>3. PICK fails \in BOOLEAN :
                /\ ~fails => DeleteSucceeds(k)
                /\ sweep' = [sweep EXCEPT !.failed = @ \/ fails]
          BY <1>2, <2>2, <5>1 DEF StoreSteps, HearsOfDeletes
        <5>4. fails => sweep'.failed
          BY <5>3 DEF SweepInv, SweepOK
        <5> QED
          BY <5>2, <5>3, <5>4
      <4> QED
        BY <2>2, <3>1, <3>6, <4>1, <4>2, DeletesEnd
    <3> QED
      BY <2>2, <3>3, <3>4, <3>5, <3>6, PlacesPersist DEF StoreInv
  <2> QED
    BY <2>3, <2>4, <2>5, <2>6
<1>3. CASE AdmitsDeletes
  <2>1. SUFFICES ASSUME NEW k \in Found PROVE Deletes(k)'
    BY <1>3 DEF DeletesSound, AdmitsDeletes
  <2>2. /\ k \in Keys /\ waiting[k] \in Seq(Requests) /\ 0 \notin DOMAIN waiting[k]
        /\ UNCHANGED <<job, stage>>
    BY <1>3, DeletesJoin, PlacesAreNumbers DEF Found, SweepInv, SweepOK, StoreInv
  <2>3. PICK r : waiting'[k] = Append(waiting[k], r) /\ r.kind = "delete" /\ r.id \in deleting'
    BY <1>3, DeletesJoin DEF SweepInv, SweepOK
  <2>4. PICK i : i = Len(waiting[k]) + 1
    OBVIOUS
  <2>5. i \in Places(k)' /\ At(k, i)' = r
    BY <2>2, <2>3, <2>4, Appended DEF Places, At
  <2> QED
    BY <2>3, <2>5 DEF Deletes
<1>4. ASSUME NEW store, NEW deletes, CallSweep(store, deletes) PROVE DeletesSound'
  BY <1>1, <1>4 DEF CallSweep
<1>5. CASE SweepFlushed
  BY <1>1, <1>5 DEF SweepFlushed, SweepInv, SweepOK
<1>6. ASSUME NEW ok \in BOOLEAN, ReadsDirectory(ok) PROVE DeletesSound'
  BY <1>1, <1>6 DEF ReadsDirectory, SweepInv, SweepOK
<1>7. CASE Answers \/ DeletesSettle
  BY <1>1, <1>7 DEF Answers, DeletesSettle, SweepInv, SweepOK
<1>8. CASE UNCHANGED sweepAll
  <2>1. UNCHANGED <<sweep, listed, deleting, disturbed, disk, job, stage, waiting>>
    BY <1>8 DEF sweepAll, sweepVars, vars, diskVars, chainVars
  <2>2. DeletesSound
    BY DEF SweepInv
  <2> QED
    BY <2>1, <2>2 DEF DeletesSound, Deletes, Places, At, Busy
<1> QED
  BY <1>2, <1>3, <1>4, <1>5, <1>6, <1>7, <1>8 DEF SweepNext, SweepStep

LEMMA SweepInvariant == SweepSpec => []SweepInv
<1>1. SweepInit => SweepInv
  <2> SUFFICES ASSUME SweepInit PROVE SweepInv
    OBVIOUS
  <2>1. StoreInv
    BY InitTypes, InitTimers, InitIds, InitHeard, InitDurable DEF SweepInit, StoreInv
  <2>2. SweepOK /\ sweep.at = "idle"
    BY DEF SweepInit, SweepOK, Keys
  <2> QED
    BY <2>1, <2>2 DEF SweepInv, Observed, Sweeping, FlushSound, Flushed, ListSound,
       ListingIsExact, DeletesSound
<1>2. SweepInv /\ [SweepNext]_sweepAll => SweepInv'
  BY SweepTypes, SweepStores, ObservedStep, FlushSoundStep, ListSoundStep, ListingStep,
     DeletesSoundStep DEF SweepInv
<1> QED
  BY <1>1, <1>2, PTL DEF SweepSpec, sweepAll

(* listKeys() and deletePrefix() show every key that held a value from the *)
(* call on, and none that never did (use-bridge-store.ts, doListKeys).     *)
THEOREM ListingsAreExact == SweepSpec => []ListingIsExact
BY SweepInvariant, PTL DEF SweepInv

(* What deletePrefix() found is gone when it resolves, if nobody set it or *)
(* left it undecided meanwhile (use-bridge-store.ts, deletePrefix).        *)
THEOREM PrefixesAreGone == SweepSpec => PrefixIsGone
<1>1. ASSUME SweepInv, [SweepNext]_sweepAll, sweep.at # "resolved", sweep'.at = "resolved",
             sweep.deletes, NEW k \in sweep.store \ disturbed, Idle(k)
      PROVE  ~IsPending(k) /\ stable[k] = NoVal
  <2>1. Answers \/ DeletesSettle
    <3>1. ~StoreSteps /\ ~AdmitsDeletes
      BY <1>1, StoreHeard DEF AdmitsDeletes, SweepInv, SweepOK
    <3>2. \A store, deletes : ~CallSweep(store, deletes)
      BY <1>1 DEF CallSweep
    <3>3. ~SweepFlushed /\ \A ok \in BOOLEAN : ~ReadsDirectory(ok)
      BY <1>1 DEF SweepFlushed, ReadsDirectory, SweepInv, SweepOK
    <3> QED
      BY <1>1, <3>1, <3>2, <3>3 DEF SweepNext, SweepStep, sweepAll, sweepVars
  <2>2. sweep.at \in {"listed", "delete"} /\ k \in Keys
    BY <1>1, <2>1 DEF Answers, DeletesSettle, SweepInv, SweepOK
  <2>3. k \in listed => sweep.at = "delete" /\ disk[k] = NoVal
    <3>1. CASE Answers
      BY <1>1, <3>1 DEF Answers, Found
    <3>2. CASE DeletesSettle
      <4>1. ~sweep.failed /\ deleting = {} /\ sweep.at = "delete"
        BY <1>1, <3>2 DEF DeletesSettle, SweepInv, SweepOK
      <4> QED
        BY <1>1, <4>1 DEF SweepInv, DeletesSound, Deletes
    <3> QED
      BY <2>1, <3>1, <3>2
  <2>4. disk[k] = NoVal
    BY <1>1, <2>2, <2>3 DEF SweepInv, ListSound
  <2>5. ~IsPending(k) /\ acked[k] # Unknown
    BY <1>1, <2>2 DEF SweepInv, FlushSound, Flushed, Observed, Sweeping, Disturbs
  <2>6. AckedIsHeld(k) /\ BarrierClosed(k)
    BY <1>1, <2>2 DEF SweepInv, StoreInv, DurableInv, KeyInv
  <2> QED
    BY <1>1, <2>4, <2>5, <2>6 DEF AckedIsHeld, BarrierClosed, Idle
<1>2. SweepInv /\ [SweepNext]_sweepAll =>
        [sweep.at # "resolved" /\ sweep'.at = "resolved" /\ sweep.deletes =>
           \A k \in sweep.store \ disturbed :
             Idle(k) => ~IsPending(k) /\ stable[k] = NoVal]_sweepAll
  BY <1>1
<1> QED
  BY <1>2, SweepInvariant, PTL DEF PrefixIsGone, SweepSpec, sweepAll

-----------------------------------------------------------------------------
(* What a flush waits for is still to come *)

(* The tracked operation is on a chain. *)
OnItsWay(id) == \E k \in Keys : \E i \in Places(k) : Tracked(At(k, i)) /\ At(k, i).id = id

(* The flushOne() that the drain of f asked for is on the chain of k. *)
Drains(f, k) == \E i \in Places(k) : At(k, i).kind = "flush" /\ At(k, i).by = f

AdmittedAwaits == \A id \in admitted : OnItsWay(id)

AwaitedInv ==
  /\ AdmittedAwaits
  /\ \A f \in Flushers :
       /\ outstanding[f] \subseteq admitted
       /\ \A k \in draining[f] : Drains(f, k)
       /\ flusher[f] \in {"barrier", "drain"} => passes[f] < MaxPasses

(* Somebody holds the chain of k, or may take it. *)
ChainGoesOn(k) == Busy(k) \/ waiting[k] # <<>>

(* A flush in progress has a pass left to end, and every promise it waits  *)
(* for belongs to an operation whose chain can go on: nothing it waits for *)
(* was settled, forgotten or never queued, and no chain is stuck behind an *)
(* operation that is gone (use-bridge-store.ts, flush and runSerialized).  *)
FlushGoesOn ==
  \A f \in Flushers : flusher[f] \in {"barrier", "drain"} =>
    /\ passes[f] < MaxPasses
    /\ flusher[f] = "barrier" =>
         \A id \in outstanding[f] : \E k \in Keys :
           /\ ChainGoesOn(k)
           /\ \E i \in Places(k) : Tracked(At(k, i)) /\ At(k, i).id = id
    /\ flusher[f] = "drain" => \A k \in draining[f] : ChainGoesOn(k) /\ Drains(f, k)

LEMMA InitAwaited == Init => AwaitedInv
BY StoreAssumption DEF Init, AwaitedInv, AdmittedAwaits

(* How a step of a chain concerns who waits. *)
LEMMA ChainTells ==
  ASSUME NEW k \in Keys, ChainStep(k)
  PROVE  \/ \E r : \E ok \in BOOLEAN : Settle(k, r, ok)
         \/ UNCHANGED <<admitted, flushVars>>
BY ChainForms DEF StartSettles, StartGoes, RunSettles, RunGoes, GoTo

(* A tracked operation stays on its chain until it settles. *)
LEMMA StillOnItsWay ==
  ASSUME TypeOK, [Next]_vars, crashes' = crashes,
         NEW id, OnItsWay(id), id \in admitted'
  PROVE  OnItsWay(id)'
<1>0. PICK k \in Keys : \E i \in Places(k) : Tracked(At(k, i)) /\ At(k, i).id = id
  BY DEF OnItsWay
<1>1. PICK i \in Places(k) : Tracked(At(k, i)) /\ At(k, i).id = id
  BY <1>0
<1>2. ~(StartSettles(k) /\ At(k, i) = Request(k))
  BY <1>1 DEF StartSettles, Settle
<1>3. ~(RunSettles(k) /\ At(k, i) = job[k])
  BY <1>1 DEF RunSettles, Settle
<1>4. PICK j \in Places(k)' : At(k, j)' = At(k, i)
  BY <1>2, <1>3, PlacesPersist
<1> QED
  BY <1>1, <1>4 DEF OnItsWay, Tracked

(* The drain of a flush hears of each of its flushOne() calls. *)
LEMMA StillDrains ==
  ASSUME TypeOK, [Next]_vars, crashes' = crashes,
         NEW f \in Flushers, NEW k \in Keys, Drains(f, k), k \in draining'[f]
  PROVE  Drains(f, k)'
<1>1. PICK i \in Places(k) : At(k, i).kind = "flush" /\ At(k, i).by = f
  BY DEF Drains
<1>2. ~(StartSettles(k) /\ At(k, i) = Request(k))
  BY <1>1 DEF StartSettles, Settle
<1>3. ~(RunSettles(k) /\ At(k, i) = job[k])
  BY <1>1 DEF RunSettles, Settle
<1>4. PICK j \in Places(k)' : At(k, j)' = At(k, i)
  BY <1>2, <1>3, PlacesPersist
<1> QED
  BY <1>1, <1>4 DEF Drains

(* What joins a chain is on it. *)
LEMMA JoinsChain ==
  ASSUME TypeOK, NEW k \in Keys, NEW r, waiting'[k] = Append(waiting[k], r)
  PROVE  \E i \in Places(k)' : At(k, i)' = r
<1>1. waiting[k] \in Seq(Requests)
  BY DEF TypeOK
<1>2. PICK i : i = Len(waiting[k]) + 1
  OBVIOUS
<1>3. i # 0 /\ i \in DOMAIN waiting'[k] /\ waiting'[k][i] = r
  BY <1>1, <1>2, Appended
<1> QED
  BY <1>3 DEF Places, At

LEMMA AdmittedStep ==
  ASSUME TypeOK, AwaitedInv, [Next]_vars, crashes' = crashes
  PROVE  AdmittedAwaits'
<1>1. SUFFICES ASSUME NEW id \in admitted' PROVE OnItsWay(id)'
  BY DEF AdmittedAwaits
<1>2. CASE id \in admitted
  <2>1. OnItsWay(id)
    BY <1>2 DEF AwaitedInv, AdmittedAwaits
  <2> QED
    BY <2>1, StillOnItsWay
<1>3. ASSUME NEW k \in Keys, NEW kind \in {"set", "get", "delete"}, NEW val,
             Admit(k, kind, val), id \notin admitted
      PROVE  OnItsWay(id)'
  <2>1. PICK r : r = [kind |-> kind, val |-> val, id |-> calls + 1, by |-> Timer]
    OBVIOUS
  <2>2. id = calls + 1 /\ waiting'[k] = Append(waiting[k], r)
    BY <1>3, <2>1 DEF Admit, TypeOK
  <2>3. PICK i \in Places(k)' : At(k, i)' = r
    BY <2>2, JoinsChain
  <2>4. Tracked(r) /\ r.id = id
    BY <2>1, <2>2 DEF Tracked
  <2> QED
    BY <2>3, <2>4 DEF OnItsWay, Tracked
<1>4. ASSUME NEW k \in Keys, ChainStep(k) PROVE admitted' \subseteq admitted
  BY <1>4, ChainTells DEF Settle
<1>5. ASSUME NEW k \in Keys, TimerFires(k) \/ Writeback(k) PROVE admitted' = admitted
  BY <1>5 DEF TimerFires, Writeback, chainVars
<1>6. ASSUME NEW f \in Flushers, CallFlush(f) \/ FlushStep(f) PROVE admitted' = admitted
  BY <1>6 DEF CallFlush, FlushStep, BarrierQuiet, BarrierDrains, PassDrained, chainVars
<1>7. CASE UNCHANGED vars
  BY <1>2, <1>7 DEF vars, chainVars
<1>8. ~Crash
  BY DEF Crash, LosesMemory, TypeOK
<1>9. ASSUME NEW k \in Keys, (\E v \in Vals : CallSet(k, v)) \/ CallGet(k) \/ CallDelete(k)
      PROVE  OnItsWay(id)'
  BY <1>2, <1>3, <1>9 DEF CallSet, CallGet, CallDelete
<1> QED
  BY <1>2, <1>4, <1>5, <1>6, <1>7, <1>8, <1>9 DEF Next

(* What the flush f knows. *)
Awaits(f) ==
  /\ outstanding[f] \subseteq admitted
  /\ \A k \in draining[f] : Drains(f, k)
  /\ flusher[f] \in {"barrier", "drain"} => passes[f] < MaxPasses

LEMMA NextPassAwaits ==
  ASSUME TypeOK, NEW g \in Flushers, NextPass(g) \/ FlushEnds(g), NEW f \in Flushers
  PROVE  /\ outstanding'[f] \in {outstanding[f], admitted}
         /\ flusher'[f] \in {"barrier", "drain"} =>
              \/ flusher[f] = flusher'[f] /\ passes'[f] = passes[f]
              \/ passes'[f] < MaxPasses
<1>1. CASE FlushEnds(g)
  <2>1. outstanding' = outstanding /\ passes' = passes
    BY <1>1 DEF FlushEnds
  <2>2. flusher'[f] = flusher[f] \/ flusher'[f] \in {"resolved", "rejected"}
    BY <1>1 DEF FlushEnds, TypeOK
  <2> QED
    BY <2>1, <2>2
<1>2. CASE NextPass(g) /\ passes[g] + 1 < MaxPasses
  <2>1. /\ passes' = [passes EXCEPT ![g] = @ + 1]
        /\ flusher' = [flusher EXCEPT ![g] = "barrier"]
        /\ outstanding' = [outstanding EXCEPT ![g] = admitted]
    BY <1>2 DEF NextPass
  <2> QED
    BY <1>2, <2>1 DEF TypeOK
<1> QED
  BY <1>1, <1>2 DEF NextPass

LEMMA AwaitsStep ==
  ASSUME TypeOK, [Next]_vars, crashes' = crashes, NEW f \in Flushers, Awaits(f)
  PROVE  Awaits(f)'
<1> USE DEF Awaits
<1>1. ASSUME draining'[f] \subseteq draining[f]
      PROVE  \A k \in draining'[f] : Drains(f, k)'
  <2>1. draining[f] \subseteq Keys
    BY DEF TypeOK
  <2> QED
    BY <1>1, <2>1, StillDrains
<1>2. ASSUME outstanding'[f] = outstanding[f], admitted \subseteq admitted',
             draining'[f] = draining[f], flusher'[f] = flusher[f], passes'[f] = passes[f]
      PROVE  Awaits(f)'
  BY <1>1, <1>2
<1>3. ASSUME NEW k \in Keys, NEW r, NEW ok \in BOOLEAN, Settle(k, r, ok)
      PROVE  Awaits(f)'
  <2>1. /\ outstanding'[f] = outstanding[f] \ {r.id} /\ admitted' = admitted \ {r.id}
        /\ draining'[f] \subseteq draining[f]
        /\ flusher' = flusher /\ passes' = passes
    BY <1>3 DEF Settle
  <2> QED
    BY <1>1, <2>1
<1>4. ASSUME NEW k \in Keys, ChainStep(k) PROVE Awaits(f)'
  BY <1>2, <1>3, <1>4, ChainTells DEF flushVars
<1>5. ASSUME NEW k \in Keys, NEW kind, NEW val, Admit(k, kind, val) PROVE Awaits(f)'
  BY <1>2, <1>5 DEF Admit, flushVars
<1>6. ASSUME NEW k \in Keys, TimerFires(k) \/ Writeback(k) PROVE Awaits(f)'
  BY <1>2, <1>6 DEF TimerFires, Writeback, flushVars, chainVars
<1>7. ASSUME NEW g \in Flushers, CallFlush(g) PROVE Awaits(f)'
  <2>1. /\ admitted' = admitted /\ draining' = draining
        /\ outstanding'[f] = IF f = g THEN admitted ELSE outstanding[f]
        /\ flusher'[f] = IF f = g THEN "barrier" ELSE flusher[f]
        /\ passes'[f] = IF f = g THEN 0 ELSE passes[f]
    BY <1>7 DEF CallFlush, TypeOK, chainVars
  <2>2. 0 < MaxPasses
    BY StoreAssumption
  <2> QED
    BY <1>1, <2>1, <2>2
<1>8. ASSUME NEW g \in Flushers, BarrierDrains(g) PROVE Awaits(f)'
  <2>1. /\ admitted' = admitted /\ outstanding' = outstanding /\ passes' = passes
    BY <1>8 DEF BarrierDrains
  <2>2. CASE f # g
    <3>1. draining'[f] = draining[f] /\ flusher'[f] = flusher[f]
      BY <1>8, <2>2 DEF BarrierDrains, TypeOK
    <3> QED
      BY <1>2, <2>1, <3>1
  <2>3. CASE f = g
    <3>1. draining'[f] = Eligible(f) /\ flusher[f] = "barrier"
      BY <1>8, <2>3 DEF BarrierDrains, TypeOK
    <3>2. ASSUME NEW k \in Eligible(f) PROVE Drains(f, k)'
      <4>1. PICK r : r = [kind |-> "flush", val |-> NoVal, id |-> 0, by |-> f]
        OBVIOUS
      <4>2. k \in Keys /\ waiting'[k] = Append(waiting[k], r)
        BY <1>8, <2>3, <3>2, <4>1 DEF BarrierDrains, Eligible
      <4>3. PICK i \in Places(k)' : At(k, i)' = r
        BY <4>2, JoinsChain
      <4> QED
        BY <4>1, <4>3 DEF Drains
    <3> QED
      BY <2>1, <3>1, <3>2
  <2> QED
    BY <2>2, <2>3
<1>9. ASSUME NEW g \in Flushers, BarrierQuiet(g) \/ PassDrained(g) PROVE Awaits(f)'
  <2>1. admitted' = admitted /\ draining' = draining /\ (NextPass(g) \/ FlushEnds(g))
    BY <1>9 DEF BarrierQuiet, PassDrained, chainVars
  <2>2. /\ outstanding'[f] \in {outstanding[f], admitted}
        /\ flusher'[f] \in {"barrier", "drain"} =>
             \/ flusher[f] = flusher'[f] /\ passes'[f] = passes[f]
             \/ passes'[f] < MaxPasses
    BY <2>1, NextPassAwaits
  <2> QED
    BY <1>1, <2>1, <2>2
<1>10. CASE UNCHANGED vars
  BY <1>2, <1>10 DEF vars, flushVars, chainVars
<1>11. ~Crash
  BY DEF Crash, LosesMemory, TypeOK
<1> HIDE DEF Awaits
<1> QED
  BY <1>4, <1>5, <1>6, <1>7, <1>8, <1>9, <1>10, <1>11
     DEF Next, FlushStep, CallSet, CallGet, CallDelete

LEMMA NextAwaited == TypeOK /\ AwaitedInv /\ [Next]_vars => AwaitedInv'
<1> SUFFICES ASSUME TypeOK, AwaitedInv, [Next]_vars PROVE AwaitedInv'
  OBVIOUS
<1>1. CASE Crash
  <2>1. /\ admitted' = {} /\ outstanding' = [f \in Flushers |-> {}]
        /\ draining' = [f \in Flushers |-> {}] /\ flusher' = [f \in Flushers |-> "idle"]
    BY <1>1 DEF Crash, LosesMemory
  <2> QED
    BY <2>1 DEF AwaitedInv, AdmittedAwaits
<1>2. CASE crashes' = crashes
  <2>1. \A f \in Flushers : Awaits(f)
    BY DEF AwaitedInv, Awaits
  <2>2. AdmittedAwaits' /\ \A f \in Flushers : Awaits(f)'
    BY <1>2, <2>1, AdmittedStep, AwaitsStep
  <2> QED
    BY <2>2 DEF AwaitedInv, Awaits
<1>3. ~Crash => crashes' = crashes
  <2>1. ASSUME NEW k \in Keys, ChainStep(k) PROVE crashes' = crashes
    BY <2>1 DEF ChainStep, SetSkips, SetCritical, SetDebounced, FlushSkips, FlushWrites, GetHits,
       GetMisses, DeleteStarts, UnlinkFails, UnlinkAbsent, UnlinkUncertain, Unlinked, DeleteSynced,
       UnlinkSyncFails, AbsentSyncFails, WriteTmp, Publish, SyncDir, ReadFile
  <2>2. ASSUME NEW k \in Keys, (\E v \in Vals : CallSet(k, v)) \/ CallGet(k) \/ CallDelete(k)
        PROVE  crashes' = crashes
    BY <2>2 DEF CallSet, CallGet, CallDelete, Admit
  <2>3. ASSUME NEW k \in Keys, TimerFires(k) \/ Writeback(k) PROVE crashes' = crashes
    BY <2>3 DEF TimerFires, Writeback
  <2>4. ASSUME NEW f \in Flushers, CallFlush(f) \/ FlushStep(f) PROVE crashes' = crashes
    BY <2>4 DEF CallFlush, FlushStep, BarrierQuiet, BarrierDrains, PassDrained
  <2> QED
    BY <2>1, <2>2, <2>3, <2>4 DEF Next, vars
<1> QED
  BY <1>1, <1>2, <1>3

LEMMA ChainsOfPlaces ==
  ASSUME NEW k \in Keys, NEW i \in Places(k)
  PROVE  ChainGoesOn(k)
BY DEF Places, ChainGoesOn

LEMMA AwaitedGoesOn == TypeOK /\ AwaitedInv => FlushGoesOn
<1> SUFFICES ASSUME TypeOK, AwaitedInv PROVE FlushGoesOn
  OBVIOUS
<1>1. \A k \in Keys : Places(k) # {} => ChainGoesOn(k)
  BY ChainsOfPlaces
<1>2. \A id \in admitted : \E k \in Keys :
        ChainGoesOn(k) /\ \E i \in Places(k) : Tracked(At(k, i)) /\ At(k, i).id = id
  BY <1>1 DEF AwaitedInv, AdmittedAwaits, OnItsWay
<1>3. \A f \in Flushers, k \in Keys : Drains(f, k) => ChainGoesOn(k)
  BY <1>1 DEF Drains
<1>4. \A f \in Flushers : draining[f] \subseteq Keys
  BY DEF TypeOK
<1> QED
  BY <1>2, <1>3, <1>4 DEF AwaitedInv, FlushGoesOn

(* A flush never waits for an operation that is gone: while it is in       *)
(* progress it has a pass left to end, and whatever it awaits is on a      *)
(* chain that somebody holds or may take.  That each such operation ends   *)
(* is fairness, which the runs check (FlushSettles).                       *)
THEOREM FlushNeverStalls == Spec => []FlushGoesOn
<1>1. Init => TypeOK /\ AwaitedInv
  BY InitTypes, InitAwaited
<1>2. TypeOK /\ AwaitedInv /\ [Next]_vars => TypeOK' /\ AwaitedInv'
  BY NextTypes, NextAwaited
<1> QED
  BY <1>1, <1>2, AwaitedGoesOn, PTL DEF Spec

-----------------------------------------------------------------------------
(* Enumerating calls go on too *)

(* The call waits for a flush that was called, or for admitted deletes. *)
SweepAwaited ==
  /\ AwaitedInv
  /\ deleting \subseteq admitted
  /\ sweep.at = "flush" => flusher[Sweeper] # "idle"

(* An enumerating call waits for its own flush, which is in progress and   *)
(* goes on or has settled, and deletePrefix() then for deletes each of     *)
(* which is on a chain that somebody holds or may take                     *)
(* (use-bridge-store.ts, doListKeys and deletePrefix).                     *)
SweepGoesOn ==
  /\ FlushGoesOn
  /\ sweep.at = "flush" => flusher[Sweeper] \in {"barrier", "drain", "resolved", "rejected"}
  /\ sweep.at = "delete" => \A id \in deleting : \E k \in Keys :
       /\ ChainGoesOn(k)
       /\ \E i \in Places(k) : Tracked(At(k, i)) /\ At(k, i).id = id

(* Deletes that join their chains disturb nobody else's place. *)
LEMMA PlacesStay ==
  ASSUME TypeOK, AdmitsDeletes, NEW k \in Keys, NEW i \in Places(k)
  PROVE  i \in Places(k)' /\ At(k, i)' = At(k, i)
<1>1. waiting[k] \in Seq(Requests) /\ 0 \notin DOMAIN waiting[k]
  BY PlacesAreNumbers
<1>2. waiting'[k] = waiting[k] \/ \E r : waiting'[k] = Append(waiting[k], r)
  BY DEF AdmitsDeletes
<1>3. job' = job /\ stage' = stage
  BY DEF AdmitsDeletes
<1> QED
  BY <1>1, <1>2, <1>3, Appended DEF Places, At, Busy

(* Every one of the ids given out is that of some key's delete. *)
LEMMA IdsAreUsed ==
  ASSUME NEW F, IsFiniteSet(F), NEW m \in Nat,
         NEW id \in [F -> (m + 1)..(m + Cardinality(F))],
         \A k, l \in F : id[k] = id[l] => k = l,
         NEW n \in (m + 1)..(m + Cardinality(F))
  PROVE  \E k \in F : id[k] = n
<1>1. Cardinality(F) \in Nat
  BY FS_CardinalityType
<1>2. PICK T : T = (m + 1)..(m + Cardinality(F))
  OBVIOUS
<1>3. IsFiniteSet(T) /\ Cardinality(T) = Cardinality(F)
  <2>1. m + 1 \in Int /\ m + Cardinality(F) \in Int
    BY <1>1
  <2>2. /\ IsFiniteSet((m + 1)..(m + Cardinality(F)))
        /\ Cardinality((m + 1)..(m + Cardinality(F))) =
             IF m + 1 > m + Cardinality(F) THEN 0 ELSE (m + Cardinality(F)) - (m + 1) + 1
    BY <2>1, FS_Interval
  <2> QED
    BY <1>1, <1>2, <2>2
<1>4. id \in Injection(F, T)
  BY <1>2 DEF Injection, IsInjective
<1>5. id \in Surjection(F, T)
  BY <1>3, <1>4, FS_Injection
<1> QED
  BY <1>2, <1>5 DEF Surjection

LEMMA DeletesOnTheirWay ==
  ASSUME TypeOK, AdmitsDeletes, NEW n \in deleting', sweep.store \in SUBSET Keys,
         listed \in SUBSET Keys
  PROVE  OnItsWay(n)'
<1>1. PICK F : F = Found
  OBVIOUS
<1>2. F \subseteq Keys /\ IsFiniteSet(F)
  <2>1. F \subseteq Keys
    BY <1>1 DEF Found
  <2> QED
    BY <2>1, SweepAssumption, FS_Subset
<1>3. PICK id \in [F -> (calls + 1)..(calls + Cardinality(F))] :
        /\ \A k, l \in F : id[k] = id[l] => k = l
        /\ waiting' = [k \in Keys |->
             IF k \in F
             THEN Append(waiting[k], [kind |-> "delete", val |-> NoVal, id |-> id[k], by |-> Timer])
             ELSE waiting[k]]
  BY <1>1 DEF AdmitsDeletes
<1>4. n \in (calls + 1)..(calls + Cardinality(F)) /\ calls \in Nat
  BY <1>1 DEF AdmitsDeletes, TypeOK
<1>5. PICK k \in F : id[k] = n
  BY <1>2, <1>3, <1>4, IdsAreUsed
<1>6. PICK r : r = [kind |-> "delete", val |-> NoVal, id |-> n, by |-> Timer]
  OBVIOUS
<1>7. k \in Keys /\ waiting'[k] = Append(waiting[k], r)
  BY <1>2, <1>3, <1>5, <1>6
<1>8. PICK i \in Places(k)' : At(k, i)' = r
  BY <1>7, JoinsChain
<1> QED
  BY <1>6, <1>7, <1>8 DEF OnItsWay, Tracked

LEMMA DeletesAwaited ==
  ASSUME TypeOK, SweepOK, AwaitedInv, AdmitsDeletes
  PROVE  AwaitedInv'
<1>1. admitted' = admitted \cup deleting' /\ UNCHANGED flushVars
  BY DEF AdmitsDeletes
<1>2. ASSUME NEW id \in admitted' PROVE OnItsWay(id)'
  <2>1. CASE id \in admitted
    <3>1. PICK k \in Keys : \E i \in Places(k) : Tracked(At(k, i)) /\ At(k, i).id = id
      BY <2>1 DEF AwaitedInv, AdmittedAwaits, OnItsWay
    <3>2. PICK i \in Places(k) : Tracked(At(k, i)) /\ At(k, i).id = id
      BY <3>1
    <3>3. i \in Places(k)' /\ At(k, i)' = At(k, i)
      BY PlacesStay
    <3> QED
      BY <3>2, <3>3 DEF OnItsWay, Tracked
  <2>2. CASE id \in deleting'
    BY <2>2, DeletesOnTheirWay DEF SweepOK
  <2> QED
    BY <1>1, <1>2, <2>1, <2>2
<1>3. ASSUME NEW f \in Flushers, NEW k \in draining[f] PROVE Drains(f, k)'
  <2>1. k \in Keys /\ Drains(f, k)
    BY <1>3 DEF TypeOK, AwaitedInv
  <2>2. PICK i \in Places(k) : At(k, i).kind = "flush" /\ At(k, i).by = f
    BY <2>1 DEF Drains
  <2>3. i \in Places(k)' /\ At(k, i)' = At(k, i)
    BY <2>1, PlacesStay
  <2> QED
    BY <2>2, <2>3 DEF Drains
<1> QED
  BY <1>1, <1>2, <1>3 DEF AwaitedInv, AdmittedAwaits, flushVars

(* Without a crash a flush that was called stays called. *)
LEMMA CalledStays ==
  ASSUME TypeOK, [Next]_vars, crashes' = crashes, NEW f \in Flushers, flusher[f] # "idle"
  PROVE  flusher'[f] # "idle"
<1>1. ASSUME flusher' = flusher PROVE flusher'[f] # "idle"
  BY <1>1
<1>2. ASSUME NEW k \in Keys, ChainStep(k) PROVE flusher' = flusher
  BY <1>2, ChainTells DEF Settle, flushVars
<1>3. ASSUME NEW k \in Keys, (\E v \in Vals : CallSet(k, v)) \/ CallGet(k) \/ CallDelete(k)
      PROVE  flusher' = flusher
  BY <1>3 DEF CallSet, CallGet, CallDelete, Admit, flushVars
<1>4. ASSUME NEW k \in Keys, TimerFires(k) \/ Writeback(k) PROVE flusher' = flusher
  BY <1>4 DEF TimerFires, Writeback, flushVars
<1>5. ASSUME NEW g \in Flushers, CallFlush(g) PROVE flusher'[f] # "idle"
  BY <1>5 DEF CallFlush, TypeOK
<1>6. ASSUME NEW g \in Flushers, FlushStep(g) PROVE flusher'[f] # "idle"
  <2>1. \E x \in {"drain", "barrier", "resolved", "rejected"} :
          flusher' = [flusher EXCEPT ![g] = x]
    BY <1>6 DEF FlushStep, BarrierQuiet, BarrierDrains, PassDrained, NextPass, FlushEnds
  <2> QED
    BY <2>1 DEF TypeOK
<1>7. ~Crash
  BY DEF Crash, LosesMemory, TypeOK
<1> QED
  BY <1>1, <1>2, <1>3, <1>4, <1>5, <1>6, <1>7 DEF Next, vars, flushVars

LEMMA SweepAwaitedStep ==
  SweepInv /\ SweepAwaited /\ [SweepNext]_sweepAll => SweepAwaited'
<1> SUFFICES ASSUME SweepInv, SweepAwaited, [SweepNext]_sweepAll PROVE SweepAwaited'
  OBVIOUS
<1>1. TypeOK /\ SweepOK /\ AwaitedInv
  BY DEF SweepInv, StoreInv, SweepAwaited
<1>2. AwaitedInv'
  <2>1. CASE AdmitsDeletes
    BY <1>1, <2>1, DeletesAwaited
  <2>2. CASE ~AdmitsDeletes
    <3>1. [Next]_vars
      BY <2>2, SweepStoreStep DEF SweepNext, SweepStep, sweepAll
    <3> QED
      BY <1>1, <3>1, NextAwaited
  <2> QED
    BY <2>1, <2>2
<1>3. CASE StoreSteps
  <2>1. [Next]_vars /\ crashes' = crashes /\ sweep'.at = sweep.at /\ deleting' = deleting \cap admitted'
    BY <1>3, StoreHeard
  <2>2. sweep.at = "flush" => flusher'[Sweeper] # "idle"
    BY <1>1, <2>1, CalledStays, SweepAssumption DEF SweepAwaited
  <2> QED
    BY <1>2, <2>1, <2>2 DEF SweepAwaited
<1>4. ASSUME NEW store, NEW deletes, CallSweep(store, deletes) PROVE SweepAwaited'
  <2>1. deleting' = {} /\ flusher'[Sweeper] = "barrier"
    BY <1>1, <1>4, SweepAssumption DEF CallSweep, CallFlush, TypeOK
  <2> QED
    BY <1>2, <2>1 DEF SweepAwaited
<1>5. CASE SweepFlushed \/ (\E ok \in BOOLEAN : ReadsDirectory(ok)) \/ Answers
  <2>1. UNCHANGED <<vars, deleting>> /\ sweep'.at # "flush"
    BY <1>1, <1>5 DEF SweepFlushed, ReadsDirectory, Answers, SweepOK
  <2> QED
    BY <1>2, <2>1 DEF SweepAwaited, vars, chainVars
<1>6. CASE AdmitsDeletes
  BY <1>1, <1>2, <1>6 DEF AdmitsDeletes, SweepAwaited, SweepOK
<1>7. CASE DeletesSettle
  BY <1>1, <1>2, <1>7 DEF DeletesSettle, SweepAwaited, SweepOK
<1>8. CASE UNCHANGED sweepAll
  BY <1>2, <1>8 DEF sweepAll, sweepVars, vars, chainVars, flushVars, SweepAwaited
<1> QED
  BY <1>3, <1>4, <1>5, <1>6, <1>7, <1>8 DEF SweepNext, SweepStep

LEMMA SweepAwaitedGoesOn == SweepInv /\ SweepAwaited => SweepGoesOn
<1> SUFFICES ASSUME SweepInv, SweepAwaited PROVE SweepGoesOn
  OBVIOUS
<1>1. TypeOK /\ AwaitedInv
  BY DEF SweepInv, StoreInv, SweepAwaited
<1>2. FlushGoesOn
  BY <1>1, AwaitedGoesOn
<1>3. sweep.at = "flush" => flusher[Sweeper] \in {"barrier", "drain", "resolved", "rejected"}
  BY <1>1, SweepAssumption DEF TypeOK, SweepAwaited
<1>4. ASSUME NEW id \in deleting
      PROVE  \E k \in Keys :
               ChainGoesOn(k) /\ \E i \in Places(k) : Tracked(At(k, i)) /\ At(k, i).id = id
  <2>1. OnItsWay(id)
    BY <1>4 DEF SweepAwaited, AwaitedInv, AdmittedAwaits
  <2> QED
    BY <2>1, ChainsOfPlaces DEF OnItsWay
<1> QED
  BY <1>2, <1>3, <1>4 DEF SweepGoesOn

(* No enumerating call waits for work that is gone: neither its flush nor  *)
(* any of the deletes it admitted is lost (use-bridge-store.ts).           *)
THEOREM SweepNeverStalls == SweepSpec => []SweepGoesOn
<1>1. SweepInit => SweepAwaited
  BY InitAwaited DEF SweepInit, SweepAwaited
<1>2. SweepInv /\ SweepInv' /\ SweepAwaited /\ [SweepNext]_sweepAll => SweepAwaited'
  BY SweepAwaitedStep
<1> QED
  BY <1>1, <1>2, SweepInvariant, SweepAwaitedGoesOn, PTL DEF SweepSpec, sweepAll
=============================================================================
