---------------------------- MODULE SnapshotStore ----------------------------
(***************************************************************************)
(* The transactional snapshot of the auth state: one file holds the rows   *)
(* of every atomic namespace (src/src/Utils/snapshot-transactions.ts).  A  *)
(* transaction takes a lock all processes share, reads the snapshot, or    *)
(* imports the per-key record files when there is none yet, and replaces   *)
(* it.  Going back to the record files is an offline export that archives  *)
(* the snapshot and leaves a proof of it (snapshot-rollback.ts and         *)
(* snapshot-rollback-proof.ts).                                            *)
(*                                                                         *)
(* `dir` is the directory as programs see it; `images` holds every state   *)
(* it has had since it was last synced.  A power loss brings back one of   *)
(* them, or, on a file system that keeps no order among directory          *)
(* operations, for every name the entry of any of them.  Temporary files   *)
(* are left out: they are synced before the rename that makes them seen.   *)
(***************************************************************************)
EXTENDS Naturals, TLC

CONSTANTS
  Procs,           \* processes that share the folder
  NoProc,          \* nobody holds the lock
  Keys,            \* keys of rows, each with a record file
  None,            \* no such row, no such file
  MaxTransactions, \* bound
  MaxExports,      \* bound
  MaxFaults        \* bound: calls that fail, processes that die, power losses

(* A value is the number of the transaction that wrote it, 0 in the record *)
(* files from before the migration.                                        *)
Vals == 0..MaxTransactions
Rows == [Keys -> Vals \cup {None}]

ASSUME SnapshotAssumption ==
  /\ NoProc \notin Procs
  /\ None \notin Rows
  /\ {MaxTransactions, MaxExports, MaxFaults} \subseteq Nat

(* An archive's unique name; a proof names one and carries its digest. *)
Gens == 1..MaxExports
Proofs == [gen : Gens, digest : Rows]

VARIABLES
  ordered,      \* whether directory operations reach the disk in order
  dir,          \* the directory
  images,       \* what it has been since it was last synced
  lock,         \* the process that holds the file lock
  op,           \* per process: its operation
  lost,         \* the user has lost the snapshot
  transactions, \* transactions begun
  exports,      \* exports begun
  faults,       \* faults so far
  mayBe         \* history: rows that what was acknowledged and what failed
                \* without certainty allow a reader to see

files == <<dir, images>>
counts == <<transactions, exports>>
world == <<ordered, lost>>
vars == <<world, files, lock, op, counts, faults, mayBe>>

NoRows == [k \in Keys |-> None]
NoChange == [keys |-> {}, val |-> None]
Apply(r, c) == [k \in Keys |-> IF k \in c.keys THEN c.val ELSE r[k]]

TransactionSteps == {"read", "proof", "proofSync", "publish", "sync", "unlock"}
ExportSteps == {"load", "records", "exportProof", "exportProofSync", "archive",
                "archiveSync", "verify", "verifySync", "exportUnlock"}
Locked == TransactionSteps \cup ExportSteps
Exporting == ExportSteps \cup {"probe", "exportLock", "verifyLock"}

Ops == [at : Locked \cup Exporting \cup {"idle", "lock"},
        rows : Rows,                                         \* read, and changed
        change : [keys : SUBSET Keys, val : Vals \cup {None}], \* of a transaction
        gen : 0..MaxExports]                                 \* of an export
NoOp == [at |-> "idle", rows |-> NoRows, change |-> NoChange, gen |-> 0]

Dirs == [snapshot : Rows \cup {None}, proof : Proofs \cup {None},
         records : Rows, archives : [Gens -> Rows \cup {None}]]

(* All directories that have, for each name, its entry in some image. *)
Mixed ==
  [snapshot : {i.snapshot : i \in images},
   proof    : {i.proof : i \in images},
   records  : {r \in Rows : \A k \in Keys : \E i \in images : r[k] = i.records[k]},
   archives : {a \in [Gens -> UNION {{i.archives[g] : g \in Gens} : i \in images}] :
                 \A g \in Gens : \E i \in images : a[g] = i.archives[g]}]

TypeOK ==
  /\ ordered \in BOOLEAN
  /\ dir \in images /\ images \subseteq Dirs
  /\ lock \in Procs \cup {NoProc}
  /\ op \in [Procs -> Ops]
  /\ \A p \in Procs : op[p].at \in Locked <=> lock = p
  /\ lost \in BOOLEAN
  /\ transactions \in 0..MaxTransactions
  /\ exports \in 0..MaxExports
  /\ faults \in 0..MaxFaults
  /\ mayBe \subseteq Rows

(* A folder of record files from before the migration, with or without one *)
(* of the records.                                                         *)
Init ==
  /\ ordered \in BOOLEAN
  /\ \E kept \in SUBSET Keys :
       dir = [snapshot |-> None, proof |-> None,
              records |-> [k \in Keys |-> IF k \in kept THEN 0 ELSE None],
              archives |-> [g \in Gens |-> None]]
  /\ images = {dir}
  /\ lock = NoProc
  /\ op = [p \in Procs |-> NoOp]
  /\ lost = FALSE
  /\ transactions = 0 /\ exports = 0 /\ faults = 0
  /\ mayBe = {dir.records}

-----------------------------------------------------------------------------
(* The directory *)

Becomes(d) == dir' = d /\ images' = images \cup {d}

(* An operation that is reported failed may have taken effect. *)
Attempt(d, ok) ==
  \/ Becomes(d)
  \/ ~ok /\ UNCHANGED files

(* syncDir() *)
Syncs(ok) == IF ok THEN UNCHANGED dir /\ images' = {dir} ELSE UNCHANGED files

(* What readRows() finds: the snapshot, or the rows to import. *)
View(d) == IF d.snapshot # None THEN d.snapshot ELSE d.records

(* verifyRollbackProof(): the proof names an archive that is there and has *)
(* its digest.                                                             *)
Verifies(d) == d.proof # None /\ d.archives[d.proof.gen] = d.proof.digest

-----------------------------------------------------------------------------
(* The operation of a process *)

At(p, at) == op[p].at = at

Fault == faults < MaxFaults /\ faults' = faults + 1

Proceeds(p, at) == op' = [op EXCEPT ![p].at = at] /\ UNCHANGED <<lock, faults>>

(* Mutant: the lock is not released when the work fails. *)
BugSettles(p) ==
  /\ op' = [op EXCEPT ![p] = NoOp]
  /\ lock' = IF lock = p /\ op[p].at \in {"unlock", "exportUnlock"} THEN NoProc ELSE lock

(* The operation settles, and its lock file is closed. *)
Settles(p) ==
  /\ op' = [op EXCEPT ![p] = NoOp]
  /\ lock' = IF lock = p THEN NoProc ELSE lock

(* One await: the operation goes on, or it rejects. *)
Awaits(p, ok, at) == IF ok THEN Proceeds(p, at) ELSE Fault /\ Settles(p)

(* A transaction joins the chain of its store.  Nobody opens a store that  *)
(* was lost, or while an export runs: an export is offline.                *)
CallTransaction(p, keys, deletes) ==
  /\ At(p, "idle")
  /\ ~lost
  /\ \A q \in Procs : op[q].at \notin Exporting
  /\ transactions < MaxTransactions
  /\ transactions' = transactions + 1
  /\ op' = [op EXCEPT ![p].at = "lock",
                      ![p].change = [keys |-> keys,
                                     val |-> IF deletes THEN None ELSE transactions']]
  /\ UNCHANGED <<files, lock, world, exports, faults, mayBe>>

Waiting == {"lock", "exportLock", "verifyLock"}
Works(at) == CASE at = "lock" -> "read" [] at = "exportLock" -> "load" [] at = "verifyLock" -> "verify"

(* Mutant: the lock is not shared by the processes. *)
BugTakesLock(p) ==
  /\ op[p].at \in Waiting
  /\ lock' = p
  /\ op' = [op EXCEPT ![p].at = Works(op[p].at)]
  /\ UNCHANGED <<files, world, counts, faults, mayBe>>

(* tryLock() *)
TakesLock(p) ==
  /\ op[p].at \in Waiting
  /\ lock = NoProc
  /\ lock' = p
  /\ op' = [op EXCEPT ![p].at = Works(op[p].at)]
  /\ UNCHANGED <<files, world, counts, faults, mayBe>>

(* The lock was not free for ten seconds. *)
LockTimesOut(p) ==
  /\ op[p].at \in Waiting
  /\ lock # NoProc
  /\ Settles(p)
  /\ UNCHANGED <<files, world, counts, faults, mayBe>>

-----------------------------------------------------------------------------
(* transaction() *)

(* The rows are read, or imported, and changed in memory. *)
Reads(p) ==
  /\ At(p, "read")
  /\ op' = [op EXCEPT ![p].at = "proof", ![p].rows = Apply(View(dir), op[p].change)]
  /\ UNCHANGED <<files, lock, world, counts, faults, mayBe>>

(* Mutant: the proof of an earlier export is left where it is. *)
BugClearsProof(p, ok) ==
  /\ At(p, "proof")
  /\ Awaits(p, ok, "publish")
  /\ UNCHANGED <<files, world, counts, mayBe>>

(* clearRollbackProof(): unlinked, and synced if there was one. *)
ClearsProof(p, ok) ==
  /\ At(p, "proof")
  /\ Awaits(p, ok, IF dir.proof # None THEN "proofSync" ELSE "publish")
  /\ Attempt([dir EXCEPT !.proof = None], ok)
  /\ UNCHANGED <<world, counts, mayBe>>

ClearedProofSyncs(p, ok) ==
  /\ At(p, "proofSync")
  /\ Awaits(p, ok, "publish")
  /\ Syncs(ok)
  /\ UNCHANGED <<world, counts, mayBe>>

(* The temporary file is written, synced and renamed to the snapshot. *)
Publishes(p, ok) ==
  /\ At(p, "publish")
  /\ Awaits(p, ok, "sync")
  /\ Attempt([dir EXCEPT !.snapshot = op[p].rows], ok)
  /\ mayBe' = mayBe \cup {Apply(r, op[p].change) : r \in mayBe}
  /\ UNCHANGED <<world, counts>>

PublishedSyncs(p, ok) ==
  /\ At(p, "sync")
  /\ Awaits(p, ok, "unlock")
  /\ Syncs(ok)
  /\ UNCHANGED <<world, counts, mayBe>>

(* The lock file is closed and the transaction resolves; when that fails   *)
(* it rejects, finished as it is.                                          *)
Unlocks(p, ok) ==
  /\ At(p, "unlock")
  /\ Settles(p)
  /\ IF ok THEN mayBe' = {Apply(r, op[p].change) : r \in mayBe} /\ UNCHANGED faults
     ELSE Fault /\ UNCHANGED mayBe
  /\ UNCHANGED <<files, world, counts>>

-----------------------------------------------------------------------------
(* exportAuthSnapshot() *)

(* Offline: every writer has stopped. *)
CallExport(p) ==
  /\ At(p, "idle")
  /\ \A q \in Procs : op[q].at \in Exporting \cup {"idle"}
  /\ exports < MaxExports
  /\ exports' = exports + 1
  /\ op' = [op EXCEPT ![p].at = "probe", ![p].gen = exports']
  /\ UNCHANGED <<files, lock, world, transactions, faults, mayBe>>

(* Whether there is a snapshot is read before the lock is taken. *)
Probes(p) ==
  /\ At(p, "probe")
  /\ Proceeds(p, IF dir.snapshot # None THEN "exportLock" ELSE "verifyLock")
  /\ UNCHANGED <<files, world, counts, mayBe>>

(* Read again under the lock; an absent snapshot is not imported now. *)
Loads(p) ==
  /\ At(p, "load")
  /\ IF dir.snapshot # None
     THEN op' = [op EXCEPT ![p].at = "records", ![p].rows = dir.snapshot] /\ UNCHANGED lock
     ELSE Settles(p)
  /\ UNCHANGED <<files, world, counts, faults, mayBe>>

Unpublished(p) == {k \in Keys : op[p].rows[k] # None /\ dir.records[k] # op[p].rows[k]}
Stale(p) == {k \in Keys : op[p].rows[k] = None /\ dir.records[k] # None}

(* Mutant: the record files of removed rows are kept. *)
BugOutdated(p) == Unpublished(p)

(* The records to change: those of rows are published first, then those of *)
(* removed rows are deleted.                                               *)
Outdated(p) == IF Unpublished(p) # {} THEN Unpublished(p) ELSE Stale(p)

ExportsRecord(p, k, ok) ==
  /\ At(p, "records")
  /\ k \in Outdated(p)
  /\ Awaits(p, ok, "records")
  /\ Attempt([dir EXCEPT !.records[k] = op[p].rows[k]], ok)
  /\ UNCHANGED <<world, counts, mayBe>>

RecordsSync(p, ok) ==
  /\ At(p, "records")
  /\ Outdated(p) = {}
  /\ Awaits(p, ok, "exportProof")
  /\ Syncs(ok)
  /\ UNCHANGED <<world, counts, mayBe>>

PublishesProof(p, ok) ==
  /\ At(p, "exportProof")
  /\ Awaits(p, ok, "exportProofSync")
  /\ Attempt([dir EXCEPT !.proof = [gen |-> op[p].gen, digest |-> dir.snapshot]], ok)
  /\ UNCHANGED <<world, counts, mayBe>>

ProofSyncs(p, ok) ==
  /\ At(p, "exportProofSync")
  /\ Awaits(p, ok, "archive")
  /\ Syncs(ok)
  /\ UNCHANGED <<world, counts, mayBe>>

Archives(p, ok) ==
  /\ At(p, "archive")
  /\ Awaits(p, ok, "archiveSync")
  /\ Attempt([dir EXCEPT !.snapshot = None, !.archives[op[p].gen] = dir.snapshot], ok)
  /\ UNCHANGED <<world, counts, mayBe>>

ArchiveSyncs(p, ok) ==
  /\ At(p, "archiveSync")
  /\ Awaits(p, ok, "exportUnlock")
  /\ Syncs(ok)
  /\ UNCHANGED <<world, counts, mayBe>>

(* No snapshot: done before, if the proof says so. *)
VerifiesProof(p) ==
  /\ At(p, "verify")
  /\ IF Verifies(dir) THEN Proceeds(p, "verifySync") ELSE Settles(p) /\ UNCHANGED faults
  /\ UNCHANGED <<files, world, counts, mayBe>>

VerifiedSyncs(p, ok) ==
  /\ At(p, "verifySync")
  /\ Awaits(p, ok, "exportUnlock")
  /\ Syncs(ok)
  /\ UNCHANGED <<world, counts, mayBe>>

(* The export resolves, or rejects when the lock file cannot be closed. *)
ExportUnlocks(p) ==
  /\ At(p, "exportUnlock")
  /\ Settles(p)
  /\ UNCHANGED <<files, world, counts, faults, mayBe>>

-----------------------------------------------------------------------------
(* The machine and the user *)

PowerLoss ==
  /\ Fault
  /\ dir' \in IF ordered THEN images ELSE Mixed
  /\ images' = {dir'}
  /\ lock' = NoProc
  /\ op' = [p \in Procs |-> NoOp]
  /\ UNCHANGED <<world, counts, mayBe>>

(* One process dies; the kernel releases its lock. *)
ProcessDies(p) ==
  /\ Fault
  /\ ~At(p, "idle")
  /\ Settles(p)
  /\ UNCHANGED <<files, world, counts, mayBe>>

(* The user loses the snapshot while nothing runs. *)
Lose ==
  /\ \A p \in Procs : At(p, "idle")
  /\ ~lost
  /\ dir.snapshot # None
  /\ lost' = TRUE
  /\ dir' = [dir EXCEPT !.snapshot = None]
  /\ images' = {[i EXCEPT !.snapshot = None] : i \in images}
  /\ UNCHANGED <<ordered, lock, op, counts, faults, mayBe>>

-----------------------------------------------------------------------------
TransactionStep(p) ==
  \/ Reads(p)
  \/ \E ok \in BOOLEAN :
       \/ ClearsProof(p, ok)
       \/ ClearedProofSyncs(p, ok)
       \/ Publishes(p, ok)
       \/ PublishedSyncs(p, ok)
       \/ Unlocks(p, ok)

ExportStep(p) ==
  \/ Probes(p)
  \/ Loads(p)
  \/ VerifiesProof(p)
  \/ ExportUnlocks(p)
  \/ \E ok \in BOOLEAN :
       \/ \E k \in Keys : ExportsRecord(p, k, ok)
       \/ RecordsSync(p, ok)
       \/ PublishesProof(p, ok)
       \/ ProofSyncs(p, ok)
       \/ Archives(p, ok)
       \/ ArchiveSyncs(p, ok)
       \/ VerifiedSyncs(p, ok)

Next ==
  \/ \E p \in Procs :
       \/ \E keys \in (SUBSET Keys) \ {{}}, deletes \in BOOLEAN : CallTransaction(p, keys, deletes)
       \/ CallExport(p)
       \/ TakesLock(p)
       \/ LockTimesOut(p)
       \/ TransactionStep(p)
       \/ ExportStep(p)
       \/ ProcessDies(p)
  \/ PowerLoss
  \/ Lose

Spec == Init /\ [][Next]_vars

Symmetry == Permutations(Procs) \cup Permutations(Keys)

-----------------------------------------------------------------------------
(* Rows a reader may find: those that whole transactions made.  On a file  *)
(* system that keeps no order a power loss tears a transaction that was    *)
(* published and not synced: then each row on its own is one of theirs.    *)
MaySee(r) ==
  IF ordered THEN r \in mayBe
  ELSE \A k \in Keys : \E m \in mayBe : m[k] = r[k]

(* What a reader finds is what the acknowledged transactions made of the   *)
(* rows, each with all its changes and none lost to another process, after *)
(* a crash and halfway through an export too: the snapshot stays           *)
(* authoritative until the records are durable (snapshot-rollback.ts).     *)
AllOrNothing == ~lost => MaySee(View(dir))

(* An export that is about to resolve has left record files with exactly   *)
(* the rows that were acknowledged, durably and with no snapshot beside    *)
(* them, also when it found no snapshot and went by the proof of another   *)
(* export, after the user lost the snapshot too (exportAuthSnapshot).      *)
ExportMeansExported ==
  \A p \in Procs : At(p, "exportUnlock") =>
    images = {dir} /\ dir.snapshot = None /\ MaySee(dir.records)

(* A proof that verifies is not older than the rows: no transaction has    *)
(* been acknowledged that its archive does not know of, so that a snapshot *)
(* lost later is never taken for one that was exported (clearRollbackProof *)
(* and verifyRollbackProof).                                               *)
NoStaleProof == Verifies(dir) => MaySee(dir.proof.digest)
=============================================================================
