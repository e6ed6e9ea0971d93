------------------------- MODULE SnapshotStoreProofs -------------------------
(***************************************************************************)
(* Safety of the snapshot, for any number of processes, keys, operations   *)
(* and faults: what a power loss can bring back is never worse than what   *)
(* was acknowledged.                                                       *)
(***************************************************************************)
EXTENDS SnapshotStore, TLAPS

(* The entries of two images that one power loss can bring back together. *)
Beside(i, j) == ordered => i = j

InTransaction == TransactionSteps \cup {"lock"}

(* Writers stop before an export, and nobody opens a store that was lost. *)
Exclusive ==
  /\ \A p, q \in Procs : op[p].at \in Exporting => op[q].at \notin InTransaction
  /\ lost => /\ \A i \in images : i.snapshot = None
             /\ \A p \in Procs : op[p].at \notin InTransaction
  /\ \A p \in Procs : op[p].at \in Exporting => op[p].gen \in Gens

(* A power loss that brings back snapshot and proof of i and records of j. *)
(* The snapshot is one a reader may see, and where none comes back the     *)
(* records are; a proof that comes back is of rows a reader may see, and   *)
(* so are the records.  In order, the proof was made of just these records *)
(* and no other snapshot.                                                  *)
Sound(i, j) ==
  /\ i.snapshot # None => MaySee(i.snapshot)
  /\ ~lost /\ i.snapshot = None => MaySee(j.records)
  /\ i.proof # None =>
       /\ MaySee(i.proof.digest)
       /\ MaySee(j.records)
       /\ ordered => i.snapshot \in {None, i.proof.digest} /\ j.records = i.proof.digest

ImagesSound == \A i, j \in images : Beside(i, j) => Sound(i, j)

(* A transaction changes rows that a reader may still see, and publishes   *)
(* them beside no proof.                                                   *)
TransactionHolds(p) ==
  /\ op[p].at \in TransactionSteps \ {"read"} =>
       \E r \in Rows : MaySee(r) /\ op[p].rows = Apply(r, op[p].change)
  /\ op[p].at \in {"proofSync", "publish", "sync", "unlock"} => dir.proof = None
  /\ op[p].at \in {"sync", "unlock"} => dir.snapshot = op[p].rows
  /\ op[p].at = "unlock" => images = {dir}

TransactionsHold == \A p \in Procs : TransactionHolds(p)

(* An export has the rows of the snapshot it is about to archive, and      *)
(* archives it once the records are these rows.                            *)
ExportHolds(p) ==
  /\ op[p].at \in {"records", "exportProof", "exportProofSync", "archive"} =>
       dir.snapshot = op[p].rows
  /\ op[p].at \in {"exportProof", "exportProofSync", "archive", "archiveSync"} =>
       \A i \in images : i.records = op[p].rows
  /\ op[p].at \in {"verifyLock", "verify", "archiveSync", "verifySync", "exportUnlock"} =>
       dir.snapshot = None
  /\ op[p].at \in {"archiveSync", "verifySync", "exportUnlock"} => MaySee(dir.records)
  /\ op[p].at = "exportUnlock" => images = {dir}

ExportsHold == \A p \in Procs : ExportHolds(p)

IInv ==
  /\ TypeOK
  /\ Exclusive
  /\ ImagesSound
  /\ TransactionsHold
  /\ ExportsHold

-----------------------------------------------------------------------------
(* Rows *)

LEMMA ApplyType ==
  ASSUME NEW r \in Rows, NEW c \in [keys : SUBSET Keys, val : Vals \cup {None}]
  PROVE  Apply(r, c) \in Rows
BY DEF Apply, Rows

LEMMA NoRowsType == NoRows \in Rows /\ NoOp \in Ops
BY SnapshotAssumption DEF NoRows, Rows, NoOp, Ops, NoChange

(* What readRows() finds has the type of rows. *)
LEMMA ViewType ==
  ASSUME TypeOK
  PROVE  View(dir) \in Rows
BY DEF TypeOK, View, Dirs

(* More may be seen when more is allowed. *)
LEMMA MaySeeGrows ==
  ASSUME mayBe \subseteq mayBe', ordered' = ordered, NEW r, MaySee(r)
  PROVE  MaySee(r)'
BY DEF MaySee

(* A transaction makes of rows that may be seen rows that may be seen after it. *)
LEMMA MaySeeApplied ==
  ASSUME ordered' = ordered, mayBe \subseteq Rows,
         NEW r \in Rows, MaySee(r),
         NEW c \in [keys : SUBSET Keys, val : Vals \cup {None}],
         {Apply(m, c) : m \in mayBe} \subseteq mayBe'
  PROVE  MaySee(Apply(r, c))'
<1>1. CASE ordered
  BY <1>1 DEF MaySee
<1>2. CASE ~ordered
  <2>1. SUFFICES ASSUME NEW k \in Keys
                 PROVE  \E m \in mayBe' : m[k] = Apply(r, c)[k]
    BY <1>2 DEF MaySee
  <2>2. PICK m \in mayBe : m[k] = r[k]
    BY <1>2 DEF MaySee
  <2>3. Apply(m, c)[k] = Apply(r, c)[k]
    BY <2>2 DEF Apply
  <2>. QED BY <2>3
<1>. QED BY <1>1, <1>2

-----------------------------------------------------------------------------
(* Typing *)

LEMMA InitTyped == Init => TypeOK
<1>. SUFFICES ASSUME Init PROVE TypeOK
  OBVIOUS
<1>1. dir \in Dirs
  <2>1. 0 \in Vals
    BY SnapshotAssumption DEF Vals
  <2>. QED BY <2>1 DEF Init, Dirs, Rows
<1>2. op \in [Procs -> Ops]
  BY NoRowsType DEF Init
<1>3. \A p \in Procs : op[p].at \notin Locked
  BY DEF Init, NoOp, Locked, TransactionSteps, ExportSteps
<1>4. 0 \in 0..MaxTransactions /\ 0 \in 0..MaxExports /\ 0 \in 0..MaxFaults
  BY SnapshotAssumption
<1>5. mayBe \subseteq Rows
  BY <1>1 DEF Init, Dirs
<1>. QED
  BY <1>1, <1>2, <1>3, <1>4, <1>5, SnapshotAssumption DEF Init, TypeOK

LEMMA PowerLossTyped ==
  ASSUME TypeOK, PowerLoss
  PROVE  dir' \in Dirs
<1>1. CASE ordered
  BY <1>1 DEF TypeOK, PowerLoss
<1>2. CASE ~ordered
  <2>1. dir' \in Mixed
    BY <1>2 DEF PowerLoss
  <2>2. images \subseteq Dirs
    BY DEF TypeOK
  <2>3. UNION {{i.archives[g] : g \in Gens} : i \in images} \subseteq Rows \cup {None}
    BY <2>2 DEF Dirs
  <2>4. \A a \in [Gens -> UNION {{i.archives[g] : g \in Gens} : i \in images}] :
           a \in [Gens -> Rows \cup {None}]
    BY <2>3
  <2>. QED BY <2>1, <2>2, <2>4 DEF Mixed, Dirs
<1>. QED BY <1>1, <1>2

(* What a step does to the operation and the lock: a call that goes on     *)
(* keeps the lock, one that settles gives it up.                           *)
LEMMA MovesTyped ==
  ASSUME TypeOK, NEW p \in Procs, op' \in [Procs -> Ops],
         \A q \in Procs \ {p} : op'[q] = op[q],
         \/ op'[p].at \in Locked /\ op[p].at \in Locked /\ lock' = lock
         \/ op'[p].at \notin Locked /\ op[p].at \notin Locked /\ lock' = lock
         \/ op'[p].at \notin Locked /\ lock' = (IF lock = p THEN NoProc ELSE lock)
         \/ op'[p].at \in Locked /\ lock = NoProc /\ lock' = p
  PROVE  /\ lock' \in Procs \cup {NoProc}
         /\ \A q \in Procs : op'[q].at \in Locked <=> lock' = q
BY SnapshotAssumption DEF TypeOK

LEMMA SettlesTyped ==
  ASSUME TypeOK, NEW p \in Procs, Settles(p)
  PROVE  /\ op' \in [Procs -> Ops]
         /\ lock' \in Procs \cup {NoProc}
         /\ \A q \in Procs : op'[q].at \in Locked <=> lock' = q
         /\ op'[p] = NoOp /\ \A q \in Procs \ {p} : op'[q] = op[q]
<1>1. op' \in [Procs -> Ops] /\ op'[p] = NoOp /\ \A q \in Procs \ {p} : op'[q] = op[q]
  BY NoRowsType DEF Settles, TypeOK
<1>2. NoOp.at \notin Locked
  BY DEF NoOp, Locked, TransactionSteps, ExportSteps
<1>. QED BY <1>1, <1>2, MovesTyped DEF Settles

Places == Locked \cup Exporting \cup {"idle", "lock"}

LEMMA ProceedsTyped ==
  ASSUME TypeOK, NEW p \in Procs, NEW at \in Places, Proceeds(p, at),
         at \in Locked <=> op[p].at \in Locked
  PROVE  /\ op' \in [Procs -> Ops]
         /\ lock' \in Procs \cup {NoProc}
         /\ \A q \in Procs : op'[q].at \in Locked <=> lock' = q
         /\ faults' \in 0..MaxFaults
         /\ op'[p] = [op[p] EXCEPT !.at = at] /\ \A q \in Procs \ {p} : op'[q] = op[q]
<1>1. op' \in [Procs -> Ops] /\ op'[p] = [op[p] EXCEPT !.at = at]
      /\ \A q \in Procs \ {p} : op'[q] = op[q]
  BY DEF Proceeds, TypeOK, Ops, Places
<1>2. op'[p].at = at
  BY <1>1 DEF TypeOK, Ops
<1>3. lock' = lock /\ faults' = faults
  BY DEF Proceeds
<1>. QED BY <1>1, <1>2, <1>3, MovesTyped DEF TypeOK

LEMMA FaultTyped ==
  ASSUME TypeOK, Fault
  PROVE  faults' \in 0..MaxFaults
BY SnapshotAssumption DEF TypeOK, Fault

LEMMA AwaitsTyped ==
  ASSUME TypeOK, NEW p \in Procs, op[p].at \in Locked,
         NEW at \in Locked, NEW ok \in BOOLEAN, Awaits(p, ok, at)
  PROVE  /\ op' \in [Procs -> Ops]
         /\ lock' \in Procs \cup {NoProc}
         /\ \A q \in Procs : op'[q].at \in Locked <=> lock' = q
         /\ faults' \in 0..MaxFaults
         /\ op'[p] = IF ok THEN [op[p] EXCEPT !.at = at] ELSE NoOp
         /\ \A q \in Procs \ {p} : op'[q] = op[q]
<1>1. CASE ok
  BY <1>1, ProceedsTyped DEF Awaits, Places
<1>2. CASE ~ok
  BY <1>2, SettlesTyped, FaultTyped DEF Awaits
<1>. QED BY <1>1, <1>2

(* A step leaves the directory, tries a change of it, or syncs it. *)
LEMMA AttemptTyped ==
  ASSUME TypeOK, NEW d \in Dirs, NEW ok \in BOOLEAN, Attempt(d, ok)
  PROVE  dir' \in images' /\ images' \subseteq Dirs
BY DEF TypeOK, Attempt, Becomes, files

LEMMA SyncsTyped ==
  ASSUME TypeOK, NEW ok \in BOOLEAN, Syncs(ok)
  PROVE  dir' \in images' /\ images' \subseteq Dirs
BY DEF TypeOK, Syncs, files

(* The whole of the type invariant from its parts. *)
FilesTyped == dir \in images /\ images \subseteq Dirs
OpsTyped ==
  /\ op \in [Procs -> Ops]
  /\ lock \in Procs \cup {NoProc}
  /\ \A q \in Procs : op[q].at \in Locked <=> lock = q
CountsTyped ==
  /\ transactions \in 0..MaxTransactions
  /\ exports \in 0..MaxExports
  /\ faults \in 0..MaxFaults
WorldTyped == ordered \in BOOLEAN /\ lost \in BOOLEAN

LEMMA TypeParts == TypeOK <=> FilesTyped /\ OpsTyped /\ CountsTyped /\ WorldTyped /\ mayBe \subseteq Rows
BY DEF TypeOK, FilesTyped, OpsTyped, CountsTyped, WorldTyped

LEMMA CallTyped ==
  ASSUME IInv, NEW p \in Procs,
         \/ \E keys \in (SUBSET Keys) \ {{}}, deletes \in BOOLEAN : CallTransaction(p, keys, deletes)
         \/ CallExport(p)
         \/ TakesLock(p)
         \/ LockTimesOut(p)
         \/ ProcessDies(p)
  PROVE  TypeOK'
<1>. USE DEF IInv
<1>1. ASSUME NEW keys \in SUBSET Keys, NEW deletes \in BOOLEAN, CallTransaction(p, keys, deletes)
      PROVE  TypeOK'
  <2>1. transactions' \in 0..MaxTransactions /\ transactions' \in Vals
    <3>1. transactions < MaxTransactions /\ transactions' = transactions + 1
      BY <1>1 DEF CallTransaction
    <3>2. MaxTransactions \in Nat /\ transactions \in 0..MaxTransactions
      BY SnapshotAssumption DEF TypeOK
    <3>. QED BY <3>1, <3>2 DEF Vals
  <2> DEFINE c == [keys |-> keys, val |-> IF deletes THEN None ELSE transactions']
  <2>0. c \in [keys : SUBSET Keys, val : Vals \cup {None}]
    BY <2>1
  <2>5. op' = [op EXCEPT ![p].at = "lock", ![p].change = c]
    BY <1>1 DEF CallTransaction
  <2>2. op' \in [Procs -> Ops] /\ op'[p].at = "lock" /\ \A q \in Procs \ {p} : op'[q] = op[q]
    <3>. HIDE DEF c
    <3>1. op \in [Procs -> Ops] /\ op[p] \in Ops
      BY DEF TypeOK
    <3>2. [op[p] EXCEPT !.at = "lock", !.change = c] \in Ops
      BY <2>0, <3>1 DEF Ops
    <3>3. op' = [op EXCEPT ![p] = [op[p] EXCEPT !.at = "lock", !.change = c]]
      BY <2>5, <3>1
    <3>. QED BY <3>1, <3>2, <3>3 DEF Ops
  <2>3. op[p].at \notin Locked /\ "lock" \notin Locked
    BY <1>1 DEF CallTransaction, At, Locked, TransactionSteps, ExportSteps
  <2>4. OpsTyped'
    <3>1. /\ op' \in [Procs -> Ops] /\ \A q \in Procs \ {p} : op'[q] = op[q]
          /\ op'[p].at \notin Locked /\ op[p].at \notin Locked /\ lock' = lock
      <4>1. lock' = lock
        BY <1>1 DEF CallTransaction
      <4>. QED BY <2>2, <2>3, <4>1
    <3>2. /\ lock' \in Procs \cup {NoProc}
          /\ \A q \in Procs : op'[q].at \in Locked <=> lock' = q
      BY <3>1, MovesTyped
    <3>. QED BY <3>1, <3>2 DEF OpsTyped
  <2>. QED BY <1>1, <2>1, <2>4 DEF CallTransaction, TypeOK, OpsTyped, files, world
<1>2. ASSUME CallExport(p)
      PROVE  TypeOK'
  <2>1. exports' \in 0..MaxExports
    BY <1>2, SnapshotAssumption DEF CallExport, TypeOK
  <2>2. op' \in [Procs -> Ops] /\ op'[p].at = "probe" /\ \A q \in Procs \ {p} : op'[q] = op[q]
    <3>1. op' = [op EXCEPT ![p] = [op[p] EXCEPT !.at = "probe", !.gen = exports']]
      BY <1>2 DEF CallExport, TypeOK
    <3>2. op \in [Procs -> Ops] /\ op[p] \in Ops
      BY DEF TypeOK
    <3>3. [op[p] EXCEPT !.at = "probe", !.gen = exports'] \in Ops
      BY <2>1, <3>2 DEF Ops, Exporting
    <3>. QED BY <3>1, <3>2, <3>3 DEF Ops
  <2>3. op[p].at \notin Locked /\ "probe" \notin Locked
    BY <1>2 DEF CallExport, At, Locked, TransactionSteps, ExportSteps
  <2>4. OpsTyped'
    BY <1>2, <2>2, <2>3, MovesTyped DEF CallExport, OpsTyped
  <2>. QED BY <1>2, <2>1, <2>4 DEF CallExport, TypeOK, OpsTyped, files, world
<1>3. ASSUME TakesLock(p)
      PROVE  TypeOK'
  <2>1. Works(op[p].at) \in Locked
    BY <1>3 DEF TakesLock, Waiting, Works, Locked, TransactionSteps, ExportSteps
  <2>2. op' \in [Procs -> Ops] /\ op'[p].at \in Locked /\ \A q \in Procs \ {p} : op'[q] = op[q]
    BY <1>3, <2>1 DEF TakesLock, TypeOK, Ops
  <2>3. OpsTyped'
    BY <1>3, <2>2, MovesTyped DEF TakesLock, OpsTyped
  <2>. QED BY <1>3, <2>3 DEF TakesLock, TypeOK, OpsTyped, files, world, counts
<1>4. ASSUME LockTimesOut(p)
      PROVE  TypeOK'
  BY <1>4, SettlesTyped DEF LockTimesOut, TypeOK, files, world, counts
<1>5. ASSUME ProcessDies(p)
      PROVE  TypeOK'
  BY <1>5, SettlesTyped, FaultTyped DEF ProcessDies, TypeOK, files, world, counts
<1>. QED BY <1>1, <1>2, <1>3, <1>4, <1>5

LEMMA TransactionTyped ==
  ASSUME IInv, NEW p \in Procs, TransactionStep(p)
  PROVE  TypeOK'
<1>. USE DEF IInv
<1>1. {"proof", "proofSync", "publish", "sync", "unlock"} \subseteq Locked
  BY DEF Locked, TransactionSteps
<1>2. CASE Reads(p)
  <2>1. Apply(View(dir), op[p].change) \in Rows
    BY ViewType, ApplyType DEF TypeOK, Ops
  <2>2. op' \in [Procs -> Ops] /\ op'[p].at = "proof" /\ \A q \in Procs \ {p} : op'[q] = op[q]
    <3>1. op' = [op EXCEPT ![p] = [op[p] EXCEPT !.at = "proof",
                                               !.rows = Apply(View(dir), op[p].change)]]
      BY <1>2 DEF Reads, TypeOK
    <3>2. op \in [Procs -> Ops] /\ op[p] \in Ops
      BY DEF TypeOK
    <3>3. PICK rows \in Rows : rows = Apply(View(dir), op[p].change)
      BY <2>1
    <3>4. [op[p] EXCEPT !.at = "proof", !.rows = rows] \in Ops
      BY <1>1, <3>2 DEF Ops
    <3>. QED BY <3>1, <3>2, <3>3, <3>4 DEF Ops
  <2>3. op[p].at \in Locked
    BY <1>2 DEF Reads, At, Locked, TransactionSteps
  <2>4. OpsTyped'
    BY <1>1, <1>2, <2>2, <2>3, MovesTyped DEF Reads, OpsTyped
  <2>. QED BY <1>2, <2>4 DEF Reads, TypeOK, OpsTyped, files, world, counts
<1>3. ASSUME NEW ok \in BOOLEAN, ClearsProof(p, ok)
      PROVE  TypeOK'
  <2>1. OpsTyped' /\ faults' \in 0..MaxFaults
    BY <1>3, <1>1, AwaitsTyped DEF ClearsProof, At, OpsTyped
  <2>2. [dir EXCEPT !.proof = None] \in Dirs
    BY DEF TypeOK, Dirs
  <2>3. FilesTyped'
    BY <1>3, <2>2, AttemptTyped DEF ClearsProof, FilesTyped
  <2>. QED BY <1>3, <2>1, <2>3 DEF ClearsProof, TypeOK, OpsTyped, FilesTyped, world, counts
<1>4. ASSUME NEW ok \in BOOLEAN, ClearedProofSyncs(p, ok) \/ PublishedSyncs(p, ok)
      PROVE  TypeOK'
  <2>1. OpsTyped' /\ faults' \in 0..MaxFaults
    BY <1>4, <1>1, AwaitsTyped DEF ClearedProofSyncs, PublishedSyncs, At, OpsTyped
  <2>2. FilesTyped'
    BY <1>4, SyncsTyped DEF ClearedProofSyncs, PublishedSyncs, FilesTyped
  <2>. QED BY <1>4, <2>1, <2>2
           DEF ClearedProofSyncs, PublishedSyncs, TypeOK, OpsTyped, FilesTyped, world, counts
<1>5. ASSUME NEW ok \in BOOLEAN, Publishes(p, ok)
      PROVE  TypeOK'
  <2>1. OpsTyped' /\ faults' \in 0..MaxFaults
    BY <1>5, <1>1, AwaitsTyped DEF Publishes, At, OpsTyped
  <2>2. [dir EXCEPT !.snapshot = op[p].rows] \in Dirs
    BY DEF TypeOK, Dirs, Ops
  <2>3. FilesTyped'
    BY <1>5, <2>2, AttemptTyped DEF Publishes, FilesTyped
  <2>4. mayBe' \subseteq Rows
    BY <1>5, ApplyType DEF Publishes, TypeOK, Ops
  <2>. QED BY <1>5, <2>1, <2>3, <2>4 DEF Publishes, TypeOK, OpsTyped, FilesTyped, world, counts
<1>6. ASSUME NEW ok \in BOOLEAN, Unlocks(p, ok)
      PROVE  TypeOK'
  <2>1. OpsTyped'
    BY <1>6, SettlesTyped DEF Unlocks, OpsTyped
  <2>2. faults' \in 0..MaxFaults
    BY <1>6, FaultTyped DEF Unlocks, TypeOK
  <2>3. mayBe' \subseteq Rows
    BY <1>6, ApplyType DEF Unlocks, TypeOK, Ops
  <2>. QED BY <1>6, <2>1, <2>2, <2>3 DEF Unlocks, TypeOK, OpsTyped, files, world, counts
<1>. QED BY <1>2, <1>3, <1>4, <1>5, <1>6 DEF TransactionStep

LEMMA ExportTyped ==
  ASSUME IInv, NEW p \in Procs, ExportStep(p)
  PROVE  TypeOK'
<1>. USE DEF IInv
<1>1. {"records", "exportProof", "exportProofSync", "archive", "archiveSync", "verifySync",
       "exportUnlock"} \subseteq Locked
  BY DEF Locked, ExportSteps
<1>2. CASE Probes(p)
  <2>1. {"probe", "exportLock", "verifyLock"} \cap Locked = {}
    BY DEF Locked, TransactionSteps, ExportSteps
  <2>2. OpsTyped' /\ faults' \in 0..MaxFaults
    BY <1>2, <2>1, ProceedsTyped DEF Probes, At, OpsTyped, Places, Exporting
  <2>. QED BY <1>2, <2>2 DEF Probes, TypeOK, OpsTyped, files, world, counts
<1>3. CASE Loads(p)
  <2>1. CASE dir.snapshot # None
    <3>1. dir.snapshot \in Rows
      BY <2>1 DEF TypeOK, Dirs
    <3>2. op' = [op EXCEPT ![p].at = "records", ![p].rows = dir.snapshot] /\ lock' = lock
      BY <1>3, <2>1 DEF Loads
    <3>3. op' \in [Procs -> Ops] /\ op'[p].at = "records" /\ \A q \in Procs \ {p} : op'[q] = op[q]
      BY <1>1, <3>1, <3>2 DEF TypeOK, Ops
    <3>4. op[p].at \in Locked
      BY <1>3 DEF Loads, At, Locked, ExportSteps
    <3>. QED BY <1>1, <1>3, <3>2, <3>3, <3>4, MovesTyped DEF Loads, TypeOK, files, world, counts
  <2>2. CASE dir.snapshot = None
    BY <1>3, <2>2, SettlesTyped DEF Loads, TypeOK, files, world, counts
  <2>. QED BY <2>1, <2>2
<1>4. CASE VerifiesProof(p)
  <2>1. OpsTyped' /\ faults' \in 0..MaxFaults
    <3>1. CASE Verifies(dir)
      <4>1. Proceeds(p, "verifySync") /\ op[p].at \in Locked
        BY <1>4, <3>1 DEF VerifiesProof, At, Locked, ExportSteps
      <4>. QED BY <1>1, <4>1, ProceedsTyped DEF OpsTyped, Places
    <3>2. CASE ~Verifies(dir)
      BY <1>4, <3>2, SettlesTyped DEF VerifiesProof, OpsTyped, TypeOK
    <3>. QED BY <3>1, <3>2
  <2>. QED BY <1>4, <2>1 DEF VerifiesProof, TypeOK, OpsTyped, files, world, counts
<1>5. CASE ExportUnlocks(p)
  BY <1>5, SettlesTyped DEF ExportUnlocks, TypeOK, files, world, counts
<1>6. ASSUME NEW ok \in BOOLEAN, NEW k \in Keys, ExportsRecord(p, k, ok)
      PROVE  TypeOK'
  <2>1. OpsTyped' /\ faults' \in 0..MaxFaults
    BY <1>6, <1>1, AwaitsTyped DEF ExportsRecord, At, OpsTyped
  <2>2. [dir EXCEPT !.records[k] = op[p].rows[k]] \in Dirs
    <3>1. dir.records \in Rows /\ op[p].rows \in Rows /\ dir \in Dirs
      BY DEF TypeOK, Dirs, Ops
    <3>2. [dir.records EXCEPT ![k] = op[p].rows[k]] \in Rows
      BY <3>1 DEF Rows
    <3>3. [dir EXCEPT !.records = [dir.records EXCEPT ![k] = op[p].rows[k]]] \in Dirs
      BY <3>1, <3>2 DEF Dirs
    <3>. QED BY <3>3
  <2>3. FilesTyped'
    BY <1>6, <2>2, AttemptTyped DEF ExportsRecord, FilesTyped
  <2>. QED BY <1>6, <2>1, <2>3 DEF ExportsRecord, TypeOK, OpsTyped, FilesTyped, world, counts
<1>7. ASSUME NEW ok \in BOOLEAN, PublishesProof(p, ok)
      PROVE  TypeOK'
  <2>1. OpsTyped' /\ faults' \in 0..MaxFaults
    BY <1>7, <1>1, AwaitsTyped DEF PublishesProof, At, OpsTyped
  <2>2. op[p].gen \in Gens /\ dir.snapshot \in Rows
    <3>1. op[p].at = "exportProof" /\ op[p].at \in Exporting
      BY <1>7 DEF PublishesProof, At, Exporting, ExportSteps
    <3>2. op[p].rows \in Rows
      BY DEF TypeOK, Ops
    <3>. QED BY <3>1, <3>2 DEF Exclusive, ExportsHold, ExportHolds
  <2>3. [dir EXCEPT !.proof = [gen |-> op[p].gen, digest |-> dir.snapshot]] \in Dirs
    BY <2>2 DEF TypeOK, Dirs, Proofs
  <2>4. FilesTyped'
    BY <1>7, <2>3, AttemptTyped DEF PublishesProof, FilesTyped
  <2>. QED BY <1>7, <2>1, <2>4 DEF PublishesProof, TypeOK, OpsTyped, FilesTyped, world, counts
<1>8. ASSUME NEW ok \in BOOLEAN, Archives(p, ok)
      PROVE  TypeOK'
  <2>1. OpsTyped' /\ faults' \in 0..MaxFaults
    BY <1>8, <1>1, AwaitsTyped DEF Archives, At, OpsTyped
  <2>2. [dir EXCEPT !.snapshot = None, !.archives[op[p].gen] = dir.snapshot] \in Dirs
    BY DEF TypeOK, Dirs
  <2>3. FilesTyped'
    BY <1>8, <2>2, AttemptTyped DEF Archives, FilesTyped
  <2>. QED BY <1>8, <2>1, <2>3 DEF Archives, TypeOK, OpsTyped, FilesTyped, world, counts
<1>9. ASSUME NEW ok \in BOOLEAN,
             RecordsSync(p, ok) \/ ProofSyncs(p, ok) \/ ArchiveSyncs(p, ok) \/ VerifiedSyncs(p, ok)
      PROVE  TypeOK'
  <2>1. OpsTyped' /\ faults' \in 0..MaxFaults
    BY <1>9, <1>1, AwaitsTyped DEF RecordsSync, ProofSyncs, ArchiveSyncs, VerifiedSyncs, At, OpsTyped
  <2>2. FilesTyped'
    BY <1>9, SyncsTyped DEF RecordsSync, ProofSyncs, ArchiveSyncs, VerifiedSyncs, FilesTyped
  <2>. QED BY <1>9, <2>1, <2>2
           DEF RecordsSync, ProofSyncs, ArchiveSyncs, VerifiedSyncs, TypeOK, OpsTyped, FilesTyped,
               world, counts
<1>. QED BY <1>2, <1>3, <1>4, <1>5, <1>6, <1>7, <1>8, <1>9 DEF ExportStep

LEMMA MachineTyped ==
  ASSUME TypeOK, PowerLoss \/ Lose
  PROVE  TypeOK'
<1>1. CASE PowerLoss
  <2>1. \A q \in Procs : op'[q].at \notin Locked
    BY <1>1 DEF PowerLoss, NoOp, Locked, TransactionSteps, ExportSteps
  <2>2. op' \in [Procs -> Ops]
    BY <1>1, NoRowsType DEF PowerLoss
  <2>. QED BY <1>1, <2>1, <2>2, PowerLossTyped, FaultTyped, SnapshotAssumption
           DEF PowerLoss, TypeOK, world, counts
<1>2. CASE Lose
  <2>1. \A i \in Dirs : [i EXCEPT !.snapshot = None] \in Dirs
    BY DEF Dirs
  <2>2. dir' \in images' /\ images' \subseteq Dirs
    BY <1>2, <2>1 DEF Lose, TypeOK
  <2>. QED BY <1>2, <2>2 DEF Lose, TypeOK, counts
<1>. QED BY <1>1, <1>2

LEMMA NextTyped ==
  ASSUME IInv, [Next]_vars
  PROVE  TypeOK'
<1>1. CASE UNCHANGED vars
  BY <1>1 DEF IInv, TypeOK, vars, world, files, counts
<1>2. CASE Next
  BY <1>2, CallTyped, TransactionTyped, ExportTyped, MachineTyped DEF Next, IInv
<1>. QED BY <1>1, <1>2

-----------------------------------------------------------------------------
(* Who does what at a time *)

(* One operation at a time holds the lock. *)
LEMMA OneHolder ==
  ASSUME TypeOK, NEW p \in Procs, NEW q \in Procs, op[p].at \in Locked, op[q].at \in Locked
  PROVE  p = q
BY SnapshotAssumption DEF TypeOK

LEMMA IdleOutside == {"idle", "lock"} \cap Exporting = {}
BY DEF Exporting, ExportSteps

LEMMA AwaitsMoves ==
  ASSUME TypeOK, NEW p \in Procs, NEW ok \in BOOLEAN, NEW at, Awaits(p, ok, at)
  PROVE  /\ \A q \in Procs \ {p} : op'[q] = op[q]
         /\ \/ ok /\ op'[p] = [op[p] EXCEPT !.at = at] /\ op'[p].at = at /\ op'[p].gen = op[p].gen
            \/ ~ok /\ op'[p] = NoOp /\ op'[p].at = "idle"
BY DEF Awaits, Proceeds, Settles, TypeOK, Ops, NoOp

(* A step of a transaction or of an export that goes on or gives up. *)
LEMMA AwaitsStays ==
  ASSUME TypeOK, NEW p \in Procs, NEW ok \in BOOLEAN, NEW at, Awaits(p, ok, at)
  PROVE  /\ \A q \in Procs \ {p} : op'[q] = op[q]
         /\ at \in TransactionSteps => op'[p].at \in TransactionSteps \cup {"idle"}
         /\ at \in ExportSteps =>
              /\ op'[p].at \in Exporting => op'[p].gen = op[p].gen
              /\ op'[p].at \in Exporting \cup {"idle"}
<1>1. /\ \A q \in Procs \ {p} : op'[q] = op[q]
      /\ (op'[p].at = at /\ op'[p].gen = op[p].gen) \/ op'[p].at = "idle"
  BY AwaitsMoves
<1>. QED BY <1>1, IdleOutside DEF Exporting

LEMMA TransactionMoves ==
  ASSUME TypeOK, NEW p \in Procs, TransactionStep(p)
  PROVE  /\ \A q \in Procs \ {p} : op'[q] = op[q]
         /\ op[p].at \in TransactionSteps
         /\ op'[p].at \in TransactionSteps \cup {"idle"}
         /\ lost' = lost /\ ordered' = ordered
<1>. DEFINE Moved ==
       /\ \A q \in Procs \ {p} : op'[q] = op[q]
       /\ op[p].at \in TransactionSteps
       /\ op'[p].at \in TransactionSteps \cup {"idle"}
<1>1. Reads(p) => Moved
  BY DEF Reads, At, TypeOK, Ops, TransactionSteps
<1>2. ASSUME NEW ok \in BOOLEAN,
             ClearsProof(p, ok) \/ ClearedProofSyncs(p, ok) \/ Publishes(p, ok) \/ PublishedSyncs(p, ok)
      PROVE  Moved
  <2>1. PICK at \in TransactionSteps : Awaits(p, ok, at)
    BY <1>2 DEF ClearsProof, ClearedProofSyncs, Publishes, PublishedSyncs, TransactionSteps
  <2>2. op[p].at \in TransactionSteps
    BY <1>2 DEF ClearsProof, ClearedProofSyncs, Publishes, PublishedSyncs, At, TransactionSteps
  <2>. QED BY <2>1, <2>2, AwaitsStays
<1>3. ASSUME NEW ok \in BOOLEAN, Unlocks(p, ok)
      PROVE  Moved
  BY <1>3, SettlesTyped DEF Unlocks, At, TransactionSteps, NoOp
<1>4. Moved
  BY <1>1, <1>2, <1>3 DEF TransactionStep
<1>5. lost' = lost /\ ordered' = ordered
  BY DEF TransactionStep, Reads, ClearsProof, ClearedProofSyncs, Publishes, PublishedSyncs, Unlocks, world
<1>. QED BY <1>4, <1>5

LEMMA ExportMoves ==
  ASSUME TypeOK, NEW p \in Procs, ExportStep(p)
  PROVE  /\ \A q \in Procs \ {p} : op'[q] = op[q]
         /\ op[p].at \in ExportSteps \cup {"probe"}
         /\ op'[p].at \in Exporting => op'[p].gen = op[p].gen
         /\ op'[p].at \in Exporting \cup {"idle"}
         /\ lost' = lost /\ ordered' = ordered /\ mayBe' = mayBe
         /\ \A i \in images' : i \in images \/ i.snapshot \in {dir.snapshot, None}
         /\ dir'.snapshot \in {dir.snapshot, None}
<1>. DEFINE Moved ==
       /\ \A q \in Procs \ {p} : op'[q] = op[q]
       /\ op[p].at \in ExportSteps \cup {"probe"}
       /\ op'[p].at \in Exporting => op'[p].gen = op[p].gen
       /\ op'[p].at \in Exporting \cup {"idle"}
<1>. DEFINE Imaged ==
       /\ \A i \in images' : i \in images \/ i.snapshot \in {dir.snapshot, None}
       /\ dir'.snapshot \in {dir.snapshot, None}
<1>1. ASSUME Probes(p)
      PROVE  Moved /\ Imaged
  BY <1>1 DEF Probes, At, Proceeds, TypeOK, Ops, Exporting, world, files
<1>2. ASSUME Loads(p)
      PROVE  Moved /\ Imaged
  <2>1. Settles(p) => Moved
    BY <1>2, SettlesTyped DEF Loads, At, ExportSteps, Exporting, NoOp
  <2>2. CASE dir.snapshot # None
    <3>1. op' = [op EXCEPT ![p].at = "records", ![p].rows = dir.snapshot]
      BY <1>2, <2>2 DEF Loads
    <3>. QED BY <1>2, <3>1 DEF Loads, At, ExportSteps, Exporting, TypeOK, Ops, world, files
  <2>3. Imaged
    BY <1>2 DEF Loads, files
  <2>. QED BY <1>2, <2>1, <2>2, <2>3 DEF Loads
<1>3. ASSUME VerifiesProof(p)
      PROVE  Moved /\ Imaged
  BY <1>3, SettlesTyped
     DEF VerifiesProof, At, Proceeds, TypeOK, Ops, ExportSteps, Exporting, NoOp, world, files
<1>4. ASSUME ExportUnlocks(p)
      PROVE  Moved /\ Imaged
  BY <1>4, SettlesTyped DEF ExportUnlocks, At, ExportSteps, Exporting, NoOp, world, files
<1>5. ASSUME NEW ok \in BOOLEAN, NEW k \in Keys, ExportsRecord(p, k, ok)
      PROVE  Moved /\ Imaged
  <2>3. PICK at \in ExportSteps : Awaits(p, ok, at)
    BY <1>5 DEF ExportsRecord, ExportSteps
  <2>4. op[p].at \in ExportSteps
    BY <1>5 DEF ExportsRecord, At, ExportSteps
  <2>1. Moved
    BY <2>3, <2>4, AwaitsStays
  <2>2. [dir EXCEPT !.records[k] = op[p].rows[k]].snapshot = dir.snapshot
    BY DEF TypeOK, Dirs
  <2>. QED BY <1>5, <2>1, <2>2 DEF ExportsRecord, Attempt, Becomes, files
<1>6. ASSUME NEW ok \in BOOLEAN, PublishesProof(p, ok)
      PROVE  Moved /\ Imaged
  <2>3. PICK at \in ExportSteps : Awaits(p, ok, at)
    BY <1>6 DEF PublishesProof, ExportSteps
  <2>4. op[p].at \in ExportSteps
    BY <1>6 DEF PublishesProof, At, ExportSteps
  <2>1. Moved
    BY <2>3, <2>4, AwaitsStays
  <2>2. [dir EXCEPT !.proof = [gen |-> op[p].gen, digest |-> dir.snapshot]].snapshot = dir.snapshot
    BY DEF TypeOK, Dirs
  <2>. QED BY <1>6, <2>1, <2>2 DEF PublishesProof, Attempt, Becomes, files
<1>7. ASSUME NEW ok \in BOOLEAN, Archives(p, ok)
      PROVE  Moved /\ Imaged
  <2>3. PICK at \in ExportSteps : Awaits(p, ok, at)
    BY <1>7 DEF Archives, ExportSteps
  <2>4. op[p].at \in ExportSteps
    BY <1>7 DEF Archives, At, ExportSteps
  <2>1. Moved
    BY <2>3, <2>4, AwaitsStays
  <2>2. [dir EXCEPT !.snapshot = None, !.archives[op[p].gen] = dir.snapshot].snapshot = None
    BY DEF TypeOK, Dirs
  <2>. QED BY <1>7, <2>1, <2>2 DEF Archives, Attempt, Becomes, files
<1>8. ASSUME NEW ok \in BOOLEAN,
             RecordsSync(p, ok) \/ ProofSyncs(p, ok) \/ ArchiveSyncs(p, ok) \/ VerifiedSyncs(p, ok)
      PROVE  Moved /\ Imaged
  <2>3. PICK at \in ExportSteps : Awaits(p, ok, at)
    BY <1>8 DEF RecordsSync, ProofSyncs, ArchiveSyncs, VerifiedSyncs, ExportSteps
  <2>4. op[p].at \in ExportSteps
    BY <1>8 DEF RecordsSync, ProofSyncs, ArchiveSyncs, VerifiedSyncs, At, ExportSteps
  <2>1. Moved
    BY <2>3, <2>4, AwaitsStays
  <2>. QED BY <1>8, <2>1
           DEF RecordsSync, ProofSyncs, ArchiveSyncs, VerifiedSyncs, Syncs, files, TypeOK
<1>9. lost' = lost /\ ordered' = ordered /\ mayBe' = mayBe
  BY DEF ExportStep, Probes, Loads, VerifiesProof, ExportUnlocks, ExportsRecord, RecordsSync,
         PublishesProof, ProofSyncs, Archives, ArchiveSyncs, VerifiedSyncs, world
<1>10. Moved /\ Imaged
  <2>. HIDE DEF Moved, Imaged
  <2>. QED BY <1>1, <1>2, <1>3, <1>4, <1>5, <1>6, <1>7, <1>8 DEF ExportStep
<1>. QED BY <1>9, <1>10

(* A call begins, waits for the lock or gets it, or ends early. *)
CallStep(p) ==
  \/ \E keys \in (SUBSET Keys) \ {{}}, deletes \in BOOLEAN : CallTransaction(p, keys, deletes)
  \/ CallExport(p)
  \/ TakesLock(p)
  \/ LockTimesOut(p)
  \/ ProcessDies(p)

LEMMA CallMoves ==
  ASSUME TypeOK, NEW p \in Procs, CallStep(p)
  PROVE  /\ \A q \in Procs \ {p} : op'[q] = op[q]
         /\ \/ op'[p] = NoOp
            \/ op'[p].at = "lock" /\ ~lost /\ \A q \in Procs : op[q].at \notin Exporting
            \/ /\ op'[p].at = "probe" /\ op'[p].gen \in Gens
               /\ \A q \in Procs : op[q].at \in Exporting \cup {"idle"}
            \/ /\ op[p].at \in Waiting /\ lock = NoProc
               /\ op'[p] = [op[p] EXCEPT !.at = Works(op[p].at)] /\ op'[p].at = Works(op[p].at)
         /\ UNCHANGED <<lost, ordered, mayBe, dir, images>>
<1>1. ASSUME NEW keys, NEW deletes, CallTransaction(p, keys, deletes)
      PROVE  /\ \A q \in Procs \ {p} : op'[q] = op[q]
             /\ op'[p].at = "lock" /\ ~lost /\ \A q \in Procs : op[q].at \notin Exporting
  <2> DEFINE c == [keys |-> keys, val |-> IF deletes THEN None ELSE transactions']
  <2>1. op' = [op EXCEPT ![p].at = "lock", ![p].change = c]
    BY <1>1 DEF CallTransaction
  <2>2. \A q \in Procs : op[q].at \notin Exporting
    BY <1>1 DEF CallTransaction
  <2>. HIDE DEF c
  <2>3. op \in [Procs -> Ops]
    BY DEF TypeOK
  <2>4. op' = [op EXCEPT ![p] = [op[p] EXCEPT !.at = "lock", !.change = c]]
    BY <2>1, <2>3
  <2>5. (\A q \in Procs \ {p} : op'[q] = op[q]) /\ op'[p].at = "lock"
    BY <2>3, <2>4 DEF Ops
  <2>. QED BY <1>1, <2>2, <2>5 DEF CallTransaction
<1>2. ASSUME CallExport(p)
      PROVE  /\ \A q \in Procs \ {p} : op'[q] = op[q]
             /\ op'[p].at = "probe" /\ op'[p].gen \in Gens
             /\ \A q \in Procs : op[q].at \in Exporting \cup {"idle"}
  <2>1. exports' \in Gens
    BY <1>2, SnapshotAssumption DEF CallExport, TypeOK, Gens
  <2>. QED BY <1>2, <2>1 DEF CallExport, TypeOK, Ops
<1>3. ASSUME TakesLock(p)
      PROVE  /\ \A q \in Procs \ {p} : op'[q] = op[q]
             /\ op[p].at \in Waiting /\ lock = NoProc
             /\ op'[p] = [op[p] EXCEPT !.at = Works(op[p].at)] /\ op'[p].at = Works(op[p].at)
  BY <1>3 DEF TakesLock, TypeOK, Ops
<1>4. ASSUME LockTimesOut(p) \/ ProcessDies(p)
      PROVE  op'[p] = NoOp /\ \A q \in Procs \ {p} : op'[q] = op[q]
  BY <1>4, SettlesTyped DEF LockTimesOut, ProcessDies
<1>5. UNCHANGED <<lost, ordered, mayBe, dir, images>>
  BY DEF CallStep, CallTransaction, CallExport, TakesLock, LockTimesOut, ProcessDies, files, world
<1>. QED BY <1>1, <1>2, <1>3, <1>4, <1>5 DEF CallStep

LEMMA ExclusiveKept ==
  ASSUME IInv, TypeOK', Next
  PROVE  Exclusive'
<1>. USE DEF IInv
<1>1. ASSUME NEW p \in Procs, CallStep(p)
      PROVE  Exclusive'
  <2>1. op[p].at \in Waiting =>
          /\ op[p].at \in Exporting => Works(op[p].at) \in Exporting
          /\ op[p].at \notin Exporting => op[p].at = "lock" /\ Works(op[p].at) = "read"
    BY DEF Waiting, Works, Exporting, ExportSteps
  <2>2. InTransaction \cap Exporting = {} /\ "read" \in InTransaction /\ "lock" \in InTransaction
    BY DEF InTransaction, TransactionSteps, Exporting, ExportSteps
  <2>3. "probe" \in Exporting /\ "idle" \notin InTransaction /\ "idle" \notin Exporting /\ NoOp.at = "idle"
    BY DEF InTransaction, TransactionSteps, Exporting, ExportSteps, NoOp
  <2>4. op[p] \in Ops
    BY DEF TypeOK
  <2>5. (\A q \in Procs \ {p} : op'[q] = op[q]) /\ lost' = lost /\ images' = images
    BY <1>1, CallMoves
  <2>6. CASE op'[p] = NoOp
    BY <2>2, <2>3, <2>5, <2>6 DEF Exclusive
  <2>7. CASE op'[p].at = "lock" /\ ~lost /\ \A q \in Procs : op[q].at \notin Exporting
    BY <2>2, <2>5, <2>7 DEF Exclusive
  <2>8. CASE /\ op'[p].at = "probe" /\ op'[p].gen \in Gens
             /\ \A q \in Procs : op[q].at \in Exporting \cup {"idle"}
    BY <2>2, <2>3, <2>5, <2>8 DEF Exclusive
  <2>9. CASE /\ op[p].at \in Waiting
             /\ op'[p] = [op[p] EXCEPT !.at = Works(op[p].at)] /\ op'[p].at = Works(op[p].at)
    <3>1. op'[p].gen = op[p].gen
      BY <2>4, <2>9 DEF Ops
    <3>2. op'[p].at \in InTransaction <=> op[p].at \in InTransaction
      BY <2>1, <2>2, <2>9 DEF Works
    <3>3. op'[p].at \in Exporting <=> op[p].at \in Exporting
      BY <2>1, <2>2, <2>9 DEF Works
    <3>. QED BY <2>5, <3>1, <3>2, <3>3 DEF Exclusive
  <2>. QED BY <1>1, <2>6, <2>7, <2>8, <2>9, CallMoves
<1>2. ASSUME NEW p \in Procs, TransactionStep(p)
      PROVE  Exclusive'
  <2>1. InTransaction \cap Exporting = {} /\ TransactionSteps \subseteq InTransaction
    BY DEF InTransaction, TransactionSteps, Exporting, ExportSteps
  <2>2. "idle" \notin InTransaction /\ "idle" \notin Exporting
    BY DEF InTransaction, TransactionSteps, Exporting, ExportSteps
  <2>3. ~lost
    BY <1>2, <2>1, TransactionMoves DEF Exclusive
  <2>. QED BY <1>2, <2>1, <2>2, <2>3, TransactionMoves DEF Exclusive
<1>3. ASSUME NEW p \in Procs, ExportStep(p)
      PROVE  Exclusive'
  <2>1. InTransaction \cap Exporting = {} /\ ExportSteps \cup {"probe"} \subseteq Exporting
    BY DEF InTransaction, TransactionSteps, Exporting, ExportSteps
  <2>2. "idle" \notin InTransaction /\ "idle" \notin Exporting
    BY DEF InTransaction, TransactionSteps, Exporting, ExportSteps
  <2>3. dir \in images
    BY DEF TypeOK
  <2>. QED BY <1>3, <2>1, <2>2, <2>3, ExportMoves DEF Exclusive
<1>4. CASE PowerLoss
  <2>1. \A q \in Procs : op'[q].at \notin InTransaction \cup Exporting
    BY <1>4 DEF PowerLoss, NoOp, InTransaction, TransactionSteps, Exporting, ExportSteps
  <2>2. dir'.snapshot \in {i.snapshot : i \in images}
    BY <1>4 DEF PowerLoss, Mixed
  <2>. QED BY <1>4, <2>1, <2>2 DEF PowerLoss, Exclusive, world
<1>5. CASE Lose
  <2>1. \A i \in images' : i.snapshot = None
    BY <1>5 DEF Lose, TypeOK, Dirs
  <2>2. \A q \in Procs : op'[q].at \notin InTransaction \cup Exporting
    BY <1>5 DEF Lose, At, InTransaction, TransactionSteps, Exporting, ExportSteps
  <2>. QED BY <1>5, <2>1, <2>2 DEF Exclusive
<1>. QED BY <1>1, <1>2, <1>3, <1>4, <1>5 DEF Next, CallStep

-----------------------------------------------------------------------------
(* What a power loss can bring back *)

LEMMA SoundGrows ==
  ASSUME mayBe \subseteq mayBe', ordered' = ordered, lost' = lost, NEW i, NEW j, Sound(i, j)
  PROVE  Sound(i, j)'
BY MaySeeGrows DEF Sound

(* A step that changes only the images, and brings no new one, keeps them. *)
LEMMA FewerImages ==
  ASSUME ImagesSound, images' \subseteq images, mayBe \subseteq mayBe', ordered' = ordered, lost' = lost
  PROVE  ImagesSound'
BY SoundGrows DEF ImagesSound, Beside

(* A step that tries to change the directory keeps the images sound when   *)
(* the changed directory is, by itself and beside any other image.         *)
LEMMA AttemptSound ==
  ASSUME ImagesSound, NEW d, NEW ok \in BOOLEAN, Attempt(d, ok),
         mayBe \subseteq mayBe', ordered' = ordered, lost' = lost,
         Sound(d, d)',
         ~ordered => \A i \in images : Sound(d, i)' /\ Sound(i, d)'
  PROVE  ImagesSound'
<1>1. CASE images' \subseteq images
  BY <1>1, FewerImages
<1>2. CASE images' = images \cup {d}
  <2>1. SUFFICES ASSUME NEW i \in images', NEW j \in images', Beside(i, j)'
                 PROVE  Sound(i, j)'
    BY DEF ImagesSound
  <2>2. CASE i \in images /\ j \in images
    BY <2>1, <2>2, SoundGrows DEF ImagesSound, Beside
  <2>3. CASE i = d /\ j = d
    BY <2>3
  <2>4. CASE i # j /\ (i = d \/ j = d)
    BY <1>2, <2>1, <2>4 DEF Beside
  <2>. QED BY <1>2, <2>2, <2>3, <2>4
<1>. QED BY <1>1, <1>2 DEF Attempt, Becomes, files

(* The directory beside itself and, where no order is kept, beside others. *)
LEMMA DirSound ==
  ASSUME TypeOK, ImagesSound
  PROVE  /\ Sound(dir, dir)
         /\ ~ordered => \A i \in images : Sound(dir, i) /\ Sound(i, dir)
BY DEF TypeOK, ImagesSound, Beside

LEMMA TransactionSound ==
  ASSUME IInv, NEW p \in Procs, TransactionStep(p)
  PROVE  ImagesSound'
<1>. USE DEF IInv
<1>0. dir \in Dirs /\ dir \in images /\ op[p] \in Ops /\ mayBe \subseteq Rows
  BY DEF TypeOK
<1>1. ordered' = ordered /\ lost' = lost
  BY TransactionMoves
<1>2. CASE Reads(p)
  BY <1>1, <1>2, FewerImages DEF Reads, files
<1>3. ASSUME NEW ok \in BOOLEAN, ClearsProof(p, ok)
      PROVE  ImagesSound'
  <2>0. PICK d : d = [dir EXCEPT !.proof = None]
    OBVIOUS
  <2>1. d.proof = None /\ d.snapshot = dir.snapshot /\ d.records = dir.records
    BY <1>0, <2>0 DEF Dirs
  <2>2. Attempt(d, ok) /\ mayBe' = mayBe
    BY <1>3, <2>0 DEF ClearsProof
  <2>3. Sound(d, d) /\ (~ordered => \A i \in images : Sound(d, i) /\ Sound(i, d))
    BY <2>1, DirSound DEF Sound
  <2>. QED BY <1>1, <2>2, <2>3, AttemptSound, SoundGrows
<1>4. ASSUME NEW ok \in BOOLEAN, ClearedProofSyncs(p, ok) \/ PublishedSyncs(p, ok)
      PROVE  ImagesSound'
  BY <1>0, <1>1, <1>4, FewerImages DEF ClearedProofSyncs, PublishedSyncs, Syncs, files
<1>5. ASSUME NEW ok \in BOOLEAN, Publishes(p, ok)
      PROVE  ImagesSound'
  <2>1. PICK r \in Rows : MaySee(r) /\ op[p].rows = Apply(r, op[p].change)
    BY <1>5 DEF Publishes, At, TransactionsHold, TransactionHolds, TransactionSteps
  <2>2. PICK c : c = op[p].change
    OBVIOUS
  <2>3. PICK d : d = [dir EXCEPT !.snapshot = op[p].rows]
    OBVIOUS
  <2>4. dir.proof = None
    BY <1>5 DEF Publishes, At, TransactionsHold, TransactionHolds
  <2>5. /\ d.snapshot = Apply(r, c) /\ d.snapshot # None
        /\ d.records = dir.records /\ d.proof = None
    BY <1>0, <2>1, <2>2, <2>3, <2>4, SnapshotAssumption DEF Dirs, Ops
  <2>6. Attempt(d, ok) /\ mayBe' = mayBe \cup {Apply(m, c) : m \in mayBe}
    BY <1>5, <2>2, <2>3 DEF Publishes
  <2>7. MaySee(Apply(r, c))'
    <3>1. c \in [keys : SUBSET Keys, val : Vals \cup {None}]
      BY <1>0, <2>2 DEF Ops
    <3>. QED BY <1>0, <1>1, <2>1, <2>6, <3>1, MaySeeApplied
  <2>8. \A i : Sound(d, i)'
    BY <2>5, <2>7 DEF Sound
  <2>9. ~ordered => \A i \in images : Sound(i, d)
    BY <2>5, DirSound DEF Sound
  <2>10. mayBe \subseteq mayBe'
    BY <2>6
  <2>11. ~ordered => \A i \in images : Sound(i, d)'
    BY <1>1, <2>9, <2>10, SoundGrows
  <2>. QED BY <1>1, <2>6, <2>8, <2>10, <2>11, AttemptSound
<1>6. ASSUME NEW ok \in BOOLEAN, Unlocks(p, ok)
      PROVE  ImagesSound'
  <2>1. CASE ~ok
    BY <1>1, <1>6, <2>1, FewerImages DEF Unlocks, files
  <2>2. CASE ok
    <3>1. PICK r \in Rows : MaySee(r) /\ op[p].rows = Apply(r, op[p].change)
      BY <1>6 DEF Unlocks, At, TransactionsHold, TransactionHolds, TransactionSteps
    <3>2. PICK c : c = op[p].change
      OBVIOUS
    <3>3. PICK d : d = dir
      OBVIOUS
    <3>4. images = {d} /\ d.proof = None /\ d.snapshot = Apply(r, c) /\ d.snapshot # None
      BY <1>0, <1>6, <3>1, <3>2, <3>3, SnapshotAssumption
         DEF Unlocks, At, TransactionsHold, TransactionHolds, Ops
    <3>5. images' = images
      BY <1>6 DEF Unlocks, files
    <3>6. mayBe' = {Apply(m, c) : m \in mayBe}
      BY <1>6, <2>2, <3>2 DEF Unlocks
    <3>7. MaySee(Apply(r, c))'
      <4>1. c \in [keys : SUBSET Keys, val : Vals \cup {None}]
        BY <1>0, <3>2 DEF Ops
      <4>. QED BY <1>0, <1>1, <3>1, <3>6, <4>1, MaySeeApplied
    <3>8. Sound(d, d)'
      BY <3>4, <3>7 DEF Sound
    <3>. QED BY <3>4, <3>5, <3>8 DEF ImagesSound
  <2>. QED BY <2>1, <2>2
<1>. QED BY <1>2, <1>3, <1>4, <1>5, <1>6 DEF TransactionStep

(* Where no order is kept, a record of rows that may be seen can stand     *)
(* among records that may be seen.                                         *)
LEMMA RecordSound ==
  ASSUME ~ordered, NEW x \in Rows, NEW y \in Rows, NEW k \in Keys, MaySee(x), MaySee(y)
  PROVE  MaySee([x EXCEPT ![k] = y[k]])
BY DEF MaySee, Rows

LEMMA ExportSound ==
  ASSUME IInv, NEW p \in Procs, ExportStep(p)
  PROVE  ImagesSound'
<1>. USE DEF IInv
<1>0. dir \in Dirs /\ dir \in images /\ op[p] \in Ops /\ images \subseteq Dirs
  BY DEF TypeOK
<1>1. ordered' = ordered /\ lost' = lost /\ mayBe' = mayBe
  BY ExportMoves
<1>2. CASE Probes(p) \/ Loads(p) \/ VerifiesProof(p) \/ ExportUnlocks(p)
  BY <1>1, <1>2, FewerImages DEF Probes, Loads, VerifiesProof, ExportUnlocks, files
<1>3. ASSUME NEW ok \in BOOLEAN,
             RecordsSync(p, ok) \/ ProofSyncs(p, ok) \/ ArchiveSyncs(p, ok) \/ VerifiedSyncs(p, ok)
      PROVE  ImagesSound'
  BY <1>0, <1>1, <1>3, FewerImages DEF RecordsSync, ProofSyncs, ArchiveSyncs, VerifiedSyncs, Syncs, files
<1>4. ASSUME NEW d, NEW ok \in BOOLEAN, Attempt(d, ok),
             Sound(d, d), ~ordered => \A i \in images : Sound(d, i) /\ Sound(i, d)
      PROVE  ImagesSound'
  BY <1>1, <1>4, AttemptSound, SoundGrows
<1>5. ASSUME NEW ok \in BOOLEAN, NEW k \in Keys, ExportsRecord(p, k, ok)
      PROVE  ImagesSound'
  <2>1. PICK d : d = [dir EXCEPT !.records[k] = op[p].rows[k]]
    OBVIOUS
  <2>2. /\ d.snapshot = dir.snapshot /\ d.proof = dir.proof
        /\ d.records = [dir.records EXCEPT ![k] = op[p].rows[k]]
    BY <1>0, <2>1 DEF Dirs
  <2>3. dir.snapshot = op[p].rows /\ op[p].rows # None /\ op[p].rows \in Rows /\ dir.records \in Rows
    BY <1>0, <1>5, SnapshotAssumption DEF ExportsRecord, At, ExportsHold, ExportHolds, Ops, Dirs
  <2>4. op[p].rows[k] # dir.records[k]
    BY <1>5 DEF ExportsRecord, Outdated, Unpublished, Stale
  <2>5. MaySee(op[p].rows)
    BY <2>3, DirSound DEF Sound
  <2>6. ~ordered /\ MaySee(dir.records) => MaySee(d.records)
    BY <2>2, <2>3, <2>5, RecordSound
  <2>7. ordered => d.proof = None
    BY <2>2, <2>3, <2>4, DirSound DEF Sound
  <2>8. Sound(d, d)
    BY <2>2, <2>3, <2>5, <2>6, <2>7, DirSound DEF Sound
  <2>9. ~ordered => \A i \in images : Sound(d, i) /\ Sound(i, d)
    BY <2>2, <2>3, <2>5, <2>6, DirSound DEF Sound
  <2>. QED BY <1>4, <1>5, <2>1, <2>8, <2>9 DEF ExportsRecord
<1>6. ASSUME NEW ok \in BOOLEAN, PublishesProof(p, ok)
      PROVE  ImagesSound'
  <2>1. PICK d : d = [dir EXCEPT !.proof = [gen |-> op[p].gen, digest |-> dir.snapshot]]
    OBVIOUS
  <2>2. /\ d.snapshot = dir.snapshot /\ d.records = dir.records
        /\ d.proof.digest = dir.snapshot
    BY <1>0, <2>1 DEF Dirs
  <2>3. /\ dir.snapshot = op[p].rows /\ op[p].rows # None
        /\ \A i \in images : i.records = op[p].rows
    BY <1>0, <1>6, SnapshotAssumption DEF PublishesProof, At, ExportsHold, ExportHolds, Ops
  <2>4. MaySee(op[p].rows)
    BY <2>3, DirSound DEF Sound
  <2>5. Sound(d, d)
    BY <1>0, <2>2, <2>3, <2>4 DEF Sound
  <2>6. ~ordered => \A i \in images : Sound(d, i) /\ Sound(i, d)
    BY <1>0, <2>2, <2>3, <2>4, DirSound DEF Sound
  <2>. QED BY <1>4, <1>6, <2>1, <2>5, <2>6 DEF PublishesProof
<1>7. ASSUME NEW ok \in BOOLEAN, Archives(p, ok)
      PROVE  ImagesSound'
  <2>1. PICK d : d = [dir EXCEPT !.snapshot = None, !.archives[op[p].gen] = dir.snapshot]
    OBVIOUS
  <2>2. d.snapshot = None /\ d.records = dir.records /\ d.proof = dir.proof
    BY <1>0, <2>1 DEF Dirs
  <2>3. /\ dir.snapshot = op[p].rows /\ op[p].rows # None
        /\ \A i \in images : i.records = op[p].rows
    BY <1>0, <1>7, SnapshotAssumption DEF Archives, At, ExportsHold, ExportHolds, Ops
  <2>4. MaySee(op[p].rows)
    BY <2>3, DirSound DEF Sound
  <2>5. Sound(d, d)
    BY <1>0, <2>2, <2>3, <2>4, DirSound DEF Sound
  <2>6. ~ordered => \A i \in images : Sound(d, i) /\ Sound(i, d)
    BY <1>0, <2>2, <2>3, <2>4, DirSound DEF Sound
  <2>. QED BY <1>4, <1>7, <2>1, <2>5, <2>6 DEF Archives
<1>. QED BY <1>2, <1>3, <1>5, <1>6, <1>7 DEF ExportStep

LEMMA PowerLossSound ==
  ASSUME IInv, PowerLoss
  PROVE  ImagesSound'
<1>. USE DEF IInv
<1>1. ordered' = ordered /\ lost' = lost /\ mayBe' = mayBe /\ images' = {dir'}
  BY DEF PowerLoss, world
<1>2. CASE ordered
  <2>1. images' \subseteq images
    BY <1>1, <1>2 DEF PowerLoss
  <2>. QED BY <1>1, <2>1, FewerImages
<1>3. CASE ~ordered
  <2>1. PICK d \in Mixed : d = dir'
    BY <1>3 DEF PowerLoss
  <2>2. PICK s \in images, o \in images : d.snapshot = s.snapshot /\ d.proof = o.proof
    BY DEF Mixed
  <2>3. \A k \in Keys : \E i \in images : d.records[k] = i.records[k]
    BY DEF Mixed
  <2>4. \A i, j \in images : Sound(i, j)
    BY <1>3 DEF ImagesSound, Beside
  <2>5. (\A j \in images : MaySee(j.records)) => MaySee(d.records)
    BY <1>3, <2>3 DEF MaySee
  <2>6. Sound(d, d)
    BY <1>3, <2>2, <2>4, <2>5 DEF Sound
  <2>7. Sound(d, d)'
    BY <1>1, <2>6, SoundGrows
  <2>. QED BY <1>1, <2>1, <2>7 DEF ImagesSound
<1>. QED BY <1>2, <1>3

LEMMA LoseSound ==
  ASSUME IInv, Lose
  PROVE  ImagesSound'
<1>. USE DEF IInv
<1>1. ordered' = ordered /\ lost' /\ mayBe' = mayBe
  BY DEF Lose
<1>2. SUFFICES ASSUME NEW i \in images', NEW j \in images', Beside(i, j)'
               PROVE  Sound(i, j)'
  BY DEF ImagesSound
<1>3. PICK m \in images : i = [m EXCEPT !.snapshot = None]
  BY DEF Lose
<1>4. PICK n \in images : j = [n EXCEPT !.snapshot = None] /\ (ordered => m = n)
  BY <1>1, <1>2, <1>3 DEF Lose, Beside
<1>5. /\ i.snapshot = None /\ i.records = m.records /\ i.proof = m.proof
      /\ j.snapshot = None /\ j.records = n.records /\ j.proof = n.proof
  BY <1>3, <1>4 DEF TypeOK, Dirs
<1>6. Sound(m, n)
  BY <1>4 DEF ImagesSound, Beside
<1>. QED BY <1>1, <1>5, <1>6, MaySeeGrows DEF Sound

-----------------------------------------------------------------------------
(* What an operation knows between two of its awaits *)

LEMMA TransactionStepHolds ==
  ASSUME IInv, NEW p \in Procs, TransactionStep(p)
  PROVE  TransactionHolds(p)'
<1>. USE DEF IInv
<1>0. dir \in Dirs /\ dir \in images /\ op \in [Procs -> Ops] /\ op[p] \in Ops /\ mayBe \subseteq Rows
  BY DEF TypeOK
<1>1. CASE op'[p] = NoOp
  BY <1>1 DEF TransactionHolds, NoOp, TransactionSteps
<1>2. CASE Reads(p)
  <2>1. View(dir) \in Rows /\ MaySee(View(dir))
    <3>1. ~lost
      BY <1>2 DEF Reads, At, Exclusive, InTransaction, TransactionSteps
    <3>. QED BY <3>1, ViewType, DirSound DEF Sound, View
  <2>2. op'[p].at = "proof" /\ op'[p].rows = Apply(View(dir), op[p].change) /\ op'[p].change = op[p].change
    BY <1>0, <1>2 DEF Reads, Ops
  <2>3. PICK r \in Rows : r = View(dir) /\ MaySee(r)
    BY <2>1
  <2>4. MaySee(r)'
    BY <1>2, <2>3 DEF Reads, MaySee, world
  <2>5. op'[p].rows = Apply(r, op'[p].change)
    BY <2>2, <2>3
  <2>. QED BY <2>2, <2>4, <2>5 DEF TransactionHolds, Apply
<1>3. ASSUME NEW r \in Rows, MaySee(r), op[p].rows = Apply(r, op[p].change),
             mayBe \subseteq mayBe', ordered' = ordered,
             NEW at \in TransactionSteps, op'[p] = [op[p] EXCEPT !.at = at]
      PROVE  /\ op'[p].at = at
             /\ op'[p].rows = op[p].rows
             /\ \E x \in Rows : MaySee(x)' /\ op'[p].rows = Apply(x, op'[p].change)
  <2>1. MaySee(r)'
    BY <1>3, MaySeeGrows
  <2>2. op'[p].at = at /\ op'[p].rows = op[p].rows /\ op'[p].change = op[p].change
    BY <1>0, <1>3 DEF Ops
  <2>. QED BY <1>3, <2>1, <2>2
<1>4. ASSUME NEW ok \in BOOLEAN, ok, op'[p] # NoOp,
             ClearsProof(p, ok) \/ ClearedProofSyncs(p, ok) \/ Publishes(p, ok) \/ PublishedSyncs(p, ok)
      PROVE  TransactionHolds(p)'
  <2>1. PICK r \in Rows : MaySee(r) /\ op[p].rows = Apply(r, op[p].change)
    BY <1>4
       DEF ClearsProof, ClearedProofSyncs, Publishes, PublishedSyncs, At,
           TransactionsHold, TransactionHolds, TransactionSteps
  <2>2. mayBe \subseteq mayBe' /\ ordered' = ordered
    BY <1>4 DEF ClearsProof, ClearedProofSyncs, Publishes, PublishedSyncs, world
  <2>3. CASE ClearsProof(p, ok)
    <3>1. op'[p] = [op[p] EXCEPT !.at = IF dir.proof # None THEN "proofSync" ELSE "publish"]
      BY <1>4, <2>3, AwaitsMoves DEF ClearsProof
    <3>2. dir'.proof = None
      BY <1>0, <1>4, <2>3 DEF ClearsProof, Attempt, Becomes, Dirs
    <3>3. (IF dir.proof # None THEN "proofSync" ELSE "publish") \in {"proofSync", "publish"}
      OBVIOUS
    <3>. QED BY <1>3, <2>1, <2>2, <3>1, <3>2, <3>3 DEF TransactionHolds, TransactionSteps
  <2>4. CASE ClearedProofSyncs(p, ok)
    <3>1. op'[p] = [op[p] EXCEPT !.at = "publish"]
      BY <1>4, <2>4, AwaitsMoves DEF ClearedProofSyncs
    <3>2. dir'.proof = None
      BY <1>4, <2>4 DEF ClearedProofSyncs, At, TransactionsHold, TransactionHolds, Syncs, files
    <3>. QED BY <1>3, <2>1, <2>2, <3>1, <3>2 DEF TransactionHolds, TransactionSteps
  <2>5. CASE Publishes(p, ok)
    <3>1. op'[p] = [op[p] EXCEPT !.at = "sync"]
      BY <1>4, <2>5, AwaitsMoves DEF Publishes
    <3>2. dir'.proof = None /\ dir'.snapshot = op[p].rows
      BY <1>0, <1>4, <2>5 DEF Publishes, At, TransactionsHold, TransactionHolds, Attempt, Becomes, Dirs
    <3>. QED BY <1>3, <2>1, <2>2, <3>1, <3>2 DEF TransactionHolds, TransactionSteps
  <2>6. CASE PublishedSyncs(p, ok)
    <3>1. op'[p] = [op[p] EXCEPT !.at = "unlock"]
      BY <1>4, <2>6, AwaitsMoves DEF PublishedSyncs
    <3>2. dir'.proof = None /\ dir'.snapshot = op[p].rows /\ images' = {dir'}
      BY <1>4, <2>6 DEF PublishedSyncs, At, TransactionsHold, TransactionHolds, Syncs
    <3>. QED BY <1>3, <2>1, <2>2, <3>1, <3>2 DEF TransactionHolds, TransactionSteps
  <2>. QED BY <1>4, <2>3, <2>4, <2>5, <2>6
<1>5. ASSUME NEW ok \in BOOLEAN, ~ok,
             ClearsProof(p, ok) \/ ClearedProofSyncs(p, ok) \/ Publishes(p, ok) \/ PublishedSyncs(p, ok)
      PROVE  op'[p] = NoOp
  <2>1. PICK at \in TransactionSteps : Awaits(p, ok, at)
    BY <1>5 DEF ClearsProof, ClearedProofSyncs, Publishes, PublishedSyncs, TransactionSteps
  <2>. QED BY <1>5, <2>1, AwaitsMoves
<1>6. ASSUME NEW ok \in BOOLEAN, Unlocks(p, ok)
      PROVE  op'[p] = NoOp
  BY <1>6, SettlesTyped DEF Unlocks
<1>. QED BY <1>1, <1>2, <1>4, <1>5, <1>6 DEF TransactionStep

LEMMA TransactionsHoldKept ==
  ASSUME IInv, Next
  PROVE  TransactionsHold'
<1>. USE DEF IInv
<1>0. TransactionSteps \subseteq Locked
  BY DEF Locked
<1>1. SUFFICES ASSUME NEW q \in Procs PROVE TransactionHolds(q)'
  BY DEF TransactionsHold
<1>2. ASSUME op'[q].at \notin TransactionSteps \ {"read"}
      PROVE  TransactionHolds(q)'
  BY <1>2 DEF TransactionHolds, TransactionSteps
<1>3. ASSUME op'[q] = op[q], UNCHANGED <<dir, images, mayBe, ordered>>
      PROVE  TransactionHolds(q)'
  BY <1>3 DEF TransactionsHold, TransactionHolds, MaySee
<1>4. ASSUME NEW p \in Procs, CallStep(p)
      PROVE  TransactionHolds(q)'
  <2>1. CASE q # p
    BY <1>3, <1>4, <2>1, CallMoves
  <2>2. CASE q = p
    <3>1. op[p].at \in Waiting => Works(op[p].at) \in {"read", "load", "verify"}
      BY DEF Waiting, Works
    <3>2. op'[p] = NoOp => op'[p].at = "idle"
      BY DEF NoOp
    <3>3. op'[p].at \in {"idle", "lock", "probe", "read", "load", "verify"}
      BY <1>4, <3>1, <3>2, CallMoves
    <3>. QED BY <1>2, <2>2, <3>3 DEF TransactionSteps
  <2>. QED BY <2>1, <2>2
<1>5. ASSUME NEW p \in Procs, TransactionStep(p)
      PROVE  TransactionHolds(q)'
  BY <1>0, <1>2, <1>5, TransactionStepHolds, TransactionMoves, OneHolder
<1>6. ASSUME NEW p \in Procs, ExportStep(p)
      PROVE  TransactionHolds(q)'
  <2>1. op[p].at \in Exporting /\ (TransactionSteps \cup {"lock"}) \cap (Exporting \cup {"idle"}) = {}
    BY <1>6, ExportMoves DEF Exporting, TransactionSteps, ExportSteps
  <2>. QED BY <1>2, <1>6, <2>1, ExportMoves DEF Exclusive, InTransaction
<1>7. CASE PowerLoss
  BY <1>2, <1>7 DEF PowerLoss, NoOp, TransactionSteps
<1>8. CASE Lose
  BY <1>2, <1>8 DEF Lose, At, TransactionSteps
<1>. QED BY <1>4, <1>5, <1>6, <1>7, <1>8 DEF Next, CallStep

LEMMA ExportStepHolds ==
  ASSUME IInv, NEW p \in Procs, ExportStep(p)
  PROVE  ExportHolds(p)'
<1>. USE DEF IInv
<1>0. dir \in Dirs /\ dir \in images /\ images \subseteq Dirs /\ op \in [Procs -> Ops] /\ op[p] \in Ops
  BY DEF TypeOK
<1>1. ordered' = ordered /\ mayBe' = mayBe
  BY ExportMoves
<1>2. ASSUME MaySee(dir.records), dir'.records = dir.records
      PROVE  MaySee(dir.records)'
  BY <1>1, <1>2 DEF MaySee
<1>3. ASSUME op'[p].at \in {"idle", "exportLock"}
      PROVE  ExportHolds(p)'
  BY <1>3 DEF ExportHolds
<1>4. CASE Probes(p)
  <2>1. op'[p].at = (IF dir.snapshot # None THEN "exportLock" ELSE "verifyLock") /\ dir' = dir
    BY <1>0, <1>4 DEF Probes, Proceeds, files, Ops
  <2>. QED BY <1>3, <2>1 DEF ExportHolds
<1>5. CASE Loads(p)
  <2>1. CASE dir.snapshot # None
    <3>1. op' = [op EXCEPT ![p].at = "records", ![p].rows = dir.snapshot]
      BY <1>5, <2>1 DEF Loads
    <3>2. op'[p].at = "records" /\ op'[p].rows = dir.snapshot /\ dir' = dir
      BY <1>0, <1>5, <3>1 DEF Loads, Ops, files
    <3>. QED BY <3>2 DEF ExportHolds
  <2>2. CASE dir.snapshot = None
    BY <1>3, <1>5, <2>2, SettlesTyped DEF Loads, NoOp
  <2>. QED BY <2>1, <2>2
<1>6. CASE VerifiesProof(p)
  <2>1. CASE Verifies(dir)
    <3>1. op'[p].at = "verifySync" /\ dir' = dir
      BY <1>0, <1>6, <2>1 DEF VerifiesProof, Proceeds, Ops, files
    <3>2. dir.snapshot = None
      BY <1>6 DEF VerifiesProof, At, ExportsHold, ExportHolds
    <3>3. MaySee(dir.records)
      BY <2>1, DirSound DEF Verifies, Sound
    <3>. QED BY <1>2, <3>1, <3>2, <3>3 DEF ExportHolds
  <2>2. CASE ~Verifies(dir)
    BY <1>3, <1>6, <2>2, SettlesTyped DEF VerifiesProof, NoOp
  <2>. QED BY <2>1, <2>2
<1>7. CASE ExportUnlocks(p)
  BY <1>3, <1>7, SettlesTyped DEF ExportUnlocks, NoOp
<1>8. ASSUME NEW ok \in BOOLEAN, NEW at, Awaits(p, ok, at)
      PROVE  \/ op'[p].at = "idle"
             \/ ok /\ op'[p].at = at /\ op'[p].rows = op[p].rows
  <2>1. [op[p] EXCEPT !.at = at].rows = op[p].rows
    BY <1>0 DEF Ops
  <2>. QED BY <1>8, <2>1, AwaitsMoves
<1>9. ASSUME NEW ok \in BOOLEAN, NEW k \in Keys, ExportsRecord(p, k, ok)
      PROVE  ExportHolds(p)'
  <2>1. \/ op'[p].at = "idle"
        \/ op'[p].at = "records" /\ op'[p].rows = op[p].rows
    BY <1>8, <1>9 DEF ExportsRecord
  <2>2. dir'.snapshot = dir.snapshot
    BY <1>0, <1>9 DEF ExportsRecord, Attempt, Becomes, Dirs, files
  <2>3. dir.snapshot = op[p].rows
    BY <1>9 DEF ExportsRecord, At, ExportsHold, ExportHolds
  <2>. QED BY <2>1, <2>2, <2>3 DEF ExportHolds
<1>10. ASSUME NEW ok \in BOOLEAN, RecordsSync(p, ok)
       PROVE  ExportHolds(p)'
  <2>1. \/ op'[p].at = "idle"
        \/ ok /\ op'[p].at = "exportProof" /\ op'[p].rows = op[p].rows
    BY <1>8, <1>10 DEF RecordsSync
  <2>2. dir.records = op[p].rows
    <3>1. \A k \in Keys : dir.records[k] = op[p].rows[k]
      BY <1>10 DEF RecordsSync, Outdated, Unpublished, Stale
    <3>. QED BY <1>0, <3>1 DEF Dirs, Ops, Rows
  <2>3. dir' = dir /\ (ok => images' = {dir})
    BY <1>10 DEF RecordsSync, Syncs, files
  <2>4. dir.snapshot = op[p].rows
    BY <1>10 DEF RecordsSync, At, ExportsHold, ExportHolds
  <2>. QED BY <2>1, <2>2, <2>3, <2>4 DEF ExportHolds
<1>11. ASSUME NEW ok \in BOOLEAN, PublishesProof(p, ok)
       PROVE  ExportHolds(p)'
  <2>1. \/ op'[p].at = "idle"
        \/ op'[p].at = "exportProofSync" /\ op'[p].rows = op[p].rows
    BY <1>8, <1>11 DEF PublishesProof
  <2>2. /\ dir'.snapshot = dir.snapshot
        /\ \A i \in images' : i \in images \/ i.records = dir.records
    BY <1>0, <1>11 DEF PublishesProof, Attempt, Becomes, Dirs, files
  <2>3. dir.snapshot = op[p].rows /\ \A i \in images : i.records = op[p].rows
    BY <1>11 DEF PublishesProof, At, ExportsHold, ExportHolds
  <2>. QED BY <1>0, <2>1, <2>2, <2>3 DEF ExportHolds
<1>12. ASSUME NEW ok \in BOOLEAN, ProofSyncs(p, ok)
       PROVE  ExportHolds(p)'
  <2>1. \/ op'[p].at = "idle"
        \/ op'[p].at = "archive" /\ op'[p].rows = op[p].rows
    BY <1>8, <1>12 DEF ProofSyncs
  <2>2. dir' = dir /\ images' \subseteq images
    BY <1>0, <1>12 DEF ProofSyncs, Syncs, files
  <2>3. dir.snapshot = op[p].rows /\ \A i \in images : i.records = op[p].rows
    BY <1>12 DEF ProofSyncs, At, ExportsHold, ExportHolds
  <2>. QED BY <2>1, <2>2, <2>3 DEF ExportHolds
<1>13. ASSUME NEW ok \in BOOLEAN, Archives(p, ok)
       PROVE  ExportHolds(p)'
  <2>1. \/ op'[p].at = "idle"
        \/ ok /\ op'[p].at = "archiveSync" /\ op'[p].rows = op[p].rows
    BY <1>8, <1>13 DEF Archives
  <2>2. /\ ok => dir'.snapshot = None
        /\ dir'.records = dir.records
        /\ \A i \in images' : i \in images \/ i.records = dir.records
    BY <1>0, <1>13 DEF Archives, Attempt, Becomes, Dirs, files
  <2>3. dir.snapshot = op[p].rows /\ \A i \in images : i.records = op[p].rows
    BY <1>13 DEF Archives, At, ExportsHold, ExportHolds
  <2>4. op[p].rows # None
    BY <1>0, SnapshotAssumption DEF Ops
  <2>5. MaySee(dir.records)
    BY <1>0, <2>3, <2>4, DirSound DEF Sound
  <2>. QED BY <1>0, <1>2, <2>1, <2>2, <2>3, <2>5 DEF ExportHolds
<1>14. ASSUME NEW ok \in BOOLEAN, ArchiveSyncs(p, ok) \/ VerifiedSyncs(p, ok)
       PROVE  ExportHolds(p)'
  <2>1. op'[p].at = "idle" \/ (ok /\ op'[p].at = "exportUnlock")
    BY <1>8, <1>14 DEF ArchiveSyncs, VerifiedSyncs
  <2>2. dir' = dir /\ (ok => images' = {dir})
    BY <1>14 DEF ArchiveSyncs, VerifiedSyncs, Syncs, files
  <2>3. dir.snapshot = None /\ MaySee(dir.records)
    BY <1>14 DEF ArchiveSyncs, VerifiedSyncs, At, ExportsHold, ExportHolds
  <2>. QED BY <1>2, <2>1, <2>2, <2>3 DEF ExportHolds
<1>. QED BY <1>4, <1>5, <1>6, <1>7, <1>9, <1>10, <1>11, <1>12, <1>13, <1>14 DEF ExportStep

(* A step of an export outside the lock leaves the directory. *)
LEMMA ExportFiles ==
  ASSUME IInv, NEW p \in Procs, ExportStep(p), op[p].at \notin Locked
  PROVE  UNCHANGED <<dir, images>>
<1>1. op[p].at = "probe"
  BY ExportMoves DEF Locked, IInv
<1>. QED BY <1>1 DEF ExportStep, Probes, Loads, VerifiesProof, ExportUnlocks, ExportsRecord, RecordsSync,
       PublishesProof, ProofSyncs, Archives, ArchiveSyncs, VerifiedSyncs, At, files

LEMMA ExportsHoldKept ==
  ASSUME IInv, Next
  PROVE  ExportsHold'
<1>. USE DEF IInv
<1>0. /\ ExportSteps \subseteq Locked /\ ExportSteps \subseteq Exporting
      /\ InTransaction \cap Exporting = {} /\ TransactionSteps \subseteq InTransaction
      /\ {"idle", "lock", "probe", "read", "load", "exportLock"} \cap (ExportSteps \ {"load"}) = {}
  BY DEF Locked, Exporting, ExportSteps, InTransaction, TransactionSteps
<1>1. SUFFICES ASSUME NEW q \in Procs PROVE ExportHolds(q)'
  BY DEF ExportsHold
<1>2. ASSUME op'[q].at \notin (ExportSteps \ {"load"}) \cup {"verifyLock"}
      PROVE  ExportHolds(q)'
  BY <1>2 DEF ExportHolds, ExportSteps
<1>3. ASSUME op'[q] = op[q], UNCHANGED <<dir, images, mayBe, ordered>>
      PROVE  ExportHolds(q)'
  BY <1>3 DEF ExportsHold, ExportHolds, MaySee
<1>4. ASSUME NEW p \in Procs, CallStep(p)
      PROVE  ExportHolds(q)'
  <2>1. CASE q # p
    BY <1>3, <1>4, <2>1, CallMoves
  <2>2. CASE q = p /\ op'[p].at \in {"idle", "lock", "probe", "read", "load"}
    BY <1>0, <1>2, <2>2
  <2>3. CASE q = p /\ op[p].at = "verifyLock" /\ op'[p].at = "verify"
    BY <1>4, <2>3, CallMoves DEF ExportsHold, ExportHolds
  <2>4. op[p].at \in Waiting =>
          \/ Works(op[p].at) \in {"read", "load"}
          \/ op[p].at = "verifyLock" /\ Works(op[p].at) = "verify"
    BY DEF Waiting, Works
  <2>5. op'[p] = NoOp => op'[p].at = "idle"
    BY DEF NoOp
  <2>. QED BY <1>4, <2>1, <2>2, <2>3, <2>4, <2>5, CallMoves
<1>5. ASSUME NEW p \in Procs, TransactionStep(p)
      PROVE  ExportHolds(q)'
  <2>1. op'[q].at \notin Exporting
    BY <1>0, <1>5, TransactionMoves DEF Exclusive, Exporting, ExportSteps
  <2>. QED BY <1>0, <1>2, <2>1 DEF Exporting
<1>6. ASSUME NEW p \in Procs, ExportStep(p)
      PROVE  ExportHolds(q)'
  <2>1. CASE q = p
    BY <1>6, <2>1, ExportStepHolds
  <2>2. CASE q # p /\ op[p].at \notin Locked
    BY <1>3, <1>6, <2>2, ExportFiles, ExportMoves
  <2>3. CASE q # p /\ op[p].at \in Locked
    <3>1. op'[q] = op[q] /\ op[q].at \notin Locked
      BY <1>6, <2>3, OneHolder, ExportMoves
    <3>2. CASE op[q].at = "verifyLock"
      <4>1. dir.snapshot = None
        BY <3>2 DEF ExportsHold, ExportHolds
      <4>2. dir'.snapshot = None
        BY <1>6, <4>1, ExportMoves
      <4>. QED BY <3>1, <3>2, <4>2 DEF ExportHolds
    <3>3. CASE op[q].at # "verifyLock"
      BY <1>0, <1>2, <3>1, <3>3
    <3>. QED BY <3>2, <3>3
  <2>. QED BY <2>1, <2>2, <2>3
<1>7. CASE PowerLoss
  BY <1>0, <1>2, <1>7 DEF PowerLoss, NoOp
<1>8. CASE Lose
  BY <1>0, <1>2, <1>8 DEF Lose, At
<1>. QED BY <1>4, <1>5, <1>6, <1>7, <1>8 DEF Next, CallStep

-----------------------------------------------------------------------------
(* The invariant *)

LEMMA InitIInv == Init => IInv
<1>. SUFFICES ASSUME Init PROVE IInv
  OBVIOUS
<1>1. TypeOK
  BY InitTyped
<1>2. \A p \in Procs : op[p].at = "idle"
  BY DEF Init, NoOp
<1>3. Exclusive /\ TransactionsHold /\ ExportsHold
  BY <1>2
     DEF Exclusive, TransactionsHold, TransactionHolds, ExportsHold, ExportHolds,
         InTransaction, TransactionSteps, Exporting, ExportSteps, Init
<1>4. ImagesSound
  <2>1. images = {dir} /\ dir.snapshot = None /\ dir.proof = None /\ MaySee(dir.records)
    BY DEF Init, MaySee
  <2>. QED BY <2>1 DEF ImagesSound, Sound
<1>. QED BY <1>1, <1>3, <1>4 DEF IInv

LEMMA NextIInv == IInv /\ [Next]_vars => IInv'
<1>. SUFFICES ASSUME IInv, [Next]_vars PROVE IInv'
  OBVIOUS
<1>1. TypeOK'
  BY NextTyped
<1>2. CASE UNCHANGED vars
  <2>1. Exclusive' /\ ImagesSound'
    BY <1>2 DEF IInv, Exclusive, ImagesSound, Sound, Beside, MaySee, vars, world, files
  <2>2. TransactionsHold' /\ ExportsHold'
    BY <1>2 DEF IInv, TransactionsHold, TransactionHolds, ExportsHold, ExportHolds, MaySee, vars, world, files
  <2>. QED BY <1>1, <2>1, <2>2 DEF IInv
<1>3. CASE Next
  <2>1. Exclusive'
    BY <1>1, <1>3, ExclusiveKept
  <2>2. ImagesSound'
    <3>1. ASSUME NEW p \in Procs, CallStep(p)
          PROVE  ImagesSound'
      BY <3>1, CallMoves, FewerImages DEF IInv
    <3>. QED BY <1>3, <3>1, TransactionSound, ExportSound, PowerLossSound, LoseSound DEF Next, CallStep
  <2>3. TransactionsHold' /\ ExportsHold'
    BY <1>3, TransactionsHoldKept, ExportsHoldKept
  <2>. QED BY <1>1, <2>1, <2>2, <2>3 DEF IInv
<1>. QED BY <1>2, <1>3

(* Every behaviour of the snapshot store keeps the invariant: whatever the *)
(* order of calls, failures, deaths and power losses, each image is sound. *)
THEOREM Invariance == Spec => []IInv
BY InitIInv, NextIInv, PTL DEF Spec

(* The variables of the snapshot store keep their types, and the lock is   *)
(* held by just the process whose operation has it (withProcessFileLock).  *)
THEOREM TypeCorrect == Spec => []TypeOK
BY Invariance, PTL DEF IInv

(* What a reader finds is what whole acknowledged transactions made of the *)
(* rows, after any crash and halfway through an export too; row by row on  *)
(* a file system without order (snapshot-transactions.ts).                 *)
THEOREM SnapshotIsAuthoritative == Spec => []AllOrNothing
<1>1. IInv => AllOrNothing
  BY DirSound DEF IInv, Sound, AllOrNothing, View
<1>. QED BY <1>1, Invariance, PTL

(* An export that resolves has left durable record files with the rows     *)
(* that were acknowledged and no snapshot beside them, also when it went   *)
(* by an earlier export's proof (exportAuthSnapshot).                      *)
THEOREM ExportsAreComplete == Spec => []ExportMeansExported
<1>1. IInv => ExportMeansExported
  BY DEF IInv, ExportsHold, ExportHolds, ExportMeansExported, At
<1>. QED BY <1>1, Invariance, PTL

(* A proof that verifies is never older than an acknowledged transaction   *)
(* (clearRollbackProof).                                                   *)
THEOREM ProofsAreCurrent == Spec => []NoStaleProof
<1>1. IInv => NoStaleProof
  BY DirSound DEF IInv, Sound, NoStaleProof, Verifies
<1>. QED BY <1>1, Invariance, PTL
=============================================================================
