----------------------------- MODULE LegacyMirror -----------------------------
(***************************************************************************)
(* One record of the engine kept in an upstream auth state                 *)
(* (src/src/Compatibility/legacy-store): the legacy row, a lossy           *)
(* projection other owners of the auth state may rewrite, and the native   *)
(* row, the exact bytes in an envelope with a digest of the legacy row     *)
(* they belong to.  On the `device` route the legacy row is the            *)
(* credentials in memory, saved by saveCreds() beside the native row.      *)
(*                                                                         *)
(* Operations do not overlap here: without bridgeTransaction the adapter   *)
(* does not keep a get() that repairs the mirror from overwriting a set(). *)
(***************************************************************************)
EXTENDS Naturals

CONSTANT None   \* no row

(* Payloads and legacy rows: a and a2 have one projection, x has none. *)
Projection == [a |-> "A", a2 |-> "A", b |-> "B", c |-> "C"]
Codec == [A |-> "a", B |-> "b", C |-> "c"]
FromLegacy(l) == IF l = None THEN None ELSE Codec[l]
NativeOnly(v) == v \notin DOMAIN Projection
Writable(r) == IF r = "device" THEN {"a2", "b"} ELSE {"a2", "b", "x"}

VARIABLES
  route,      \* projected or device
  isolated,   \* the auth state has bridgeTransaction
  native,     \* the envelope: payload and digest, or None
  legacy,     \* the legacy row
  savedCreds, \* device: what the last saveCreds() left
  operation,  \* the operation in progress: its kind, its value and its step
  settled,    \* history: the last operation was acknowledged
  acceptable, \* history: what a get() may return
  answer      \* the result of the get() that ended last, or of none

mirrorVars == <<route, isolated, native, legacy, savedCreds, operation, settled, acceptable, answer>>
mirrorRows == <<native, legacy, savedCreds>>

Payloads == DOMAIN Projection \cup {"x", None}
LegacyRows == DOMAIN Codec \cup {None}
Envelopes == [payload : Payloads \ {None}, digest : LegacyRows]
Envelope(v, l) == [payload |-> v, digest |-> l]
NoOperation == [kind |-> "none", value |-> None, at |-> "idle"]

ASSUME MirrorAssumption ==
  /\ None \notin DOMAIN Projection \cup DOMAIN Codec \cup {"x", "none", "failed"}
  /\ None \notin Envelopes

MirrorInit ==
  /\ route \in {"projected", "device"} /\ isolated \in BOOLEAN
  /\ native = None /\ legacy \in {None, "A"} /\ savedCreds = legacy
  /\ operation = NoOperation /\ settled = TRUE
  /\ acceptable = {FromLegacy(legacy)} /\ answer = "none"

MirrorTypeOK ==
  /\ native = None \/ native \in Envelopes
  /\ legacy \in LegacyRows /\ savedCreds \in LegacyRows
  /\ operation.at \in {"idle", "read", "write"}
  /\ acceptable \subseteq Payloads /\ {isolated, settled} \subseteq BOOLEAN
  /\ answer \in Payloads \cup {"none", "failed"}

-----------------------------------------------------------------------------
Starts(kind, v, at) ==
  /\ operation.at = "idle"
  /\ operation' = [kind |-> kind, value |-> v, at |-> at]
  /\ answer' = "none"

(* What a read makes of the two rows. *)
Matches(l) == native # None /\ native.digest = l
BugImported(l) == IF native # None THEN native.payload ELSE FromLegacy(l)  \* Mutant: no digest is compared.
Imported(l) == IF Matches(l) THEN native.payload ELSE FromLegacy(l)

(* Without a legacy row and an envelope there is nothing to write. *)
Repairs(l) == ~Matches(l) /\ (FromLegacy(l) # None \/ native # None)

Repaired(l) == IF FromLegacy(l) = None THEN None ELSE Envelope(FromLegacy(l), l)

CallMirrorGet ==
  /\ Starts("get", None, "read")
  /\ UNCHANGED <<route, isolated, mirrorRows, settled, acceptable>>

Ends(result, values) ==
  /\ operation' = NoOperation
  /\ answer' = result
  /\ settled' = (result # "failed")
  /\ acceptable' = values
  /\ UNCHANGED <<route, isolated>>

GetAnswers ==
  /\ operation.kind = "get" /\ ~Repairs(legacy)
  /\ Ends(Imported(legacy), {Imported(legacy)})
  /\ UNCHANGED mirrorRows

(* The mirror is written before the answer; a failure is the get's.        *)
GetRepairs(ok) ==
  /\ operation.kind = "get" /\ Repairs(legacy)
  /\ native' = IF ok THEN Repaired(legacy) ELSE native
  /\ IF ok THEN Ends(Imported(legacy), {Imported(legacy)}) ELSE Ends("failed", acceptable)
  /\ UNCHANGED <<legacy, savedCreds>>

-----------------------------------------------------------------------------
(* A write that failed leaves the old value, the new one, one of them as   *)
(* its projection shows it, or a legacy row an older envelope matches.     *)
AfterFailure(v) ==
  acceptable \cup {v} \cup {FromLegacy(legacy)} \cup (IF native = None THEN {} ELSE {native.payload})
    \cup (IF v \in DOMAIN Projection THEN {FromLegacy(Projection[v])} ELSE {})

(* Rows of one keys.set(): all when it succeeds, some when it fails and    *)
(* nothing undoes them.                                                    *)
Persists(nativeRow, legacyRow, ok) ==
  \E writesNative, writesLegacy \in BOOLEAN :
    /\ ok => writesNative /\ writesLegacy
    /\ ~ok /\ isolated => ~writesNative /\ ~writesLegacy
    /\ native' = IF writesNative THEN nativeRow ELSE native
    /\ legacy' = IF writesLegacy THEN legacyRow ELSE legacy

Acknowledged(v, ok) == IF ok THEN Ends("none", {v}) ELSE Ends("failed", AfterFailure(v))

(* On the device route the credentials in memory change at once. *)
CallSet(v) ==
  /\ v \in Writable(route)
  /\ Starts("set", v, "write")
  /\ IF route = "device"
     THEN legacy' = Projection[v] /\ acceptable' = AfterFailure(v)
     ELSE UNCHANGED <<legacy, acceptable>>
  /\ UNCHANGED <<route, isolated, native, savedCreds, settled>>

(* A native-only payload keeps the legacy row it is stored beside. *)
SetProjected(ok) ==
  LET v == operation.value
      row == IF NativeOnly(v) THEN legacy ELSE Projection[v]
  IN /\ operation.kind = "set" /\ route = "projected"
     /\ Persists(Envelope(v, row), row, ok)
     /\ Acknowledged(v, ok)
     /\ UNCHANGED savedCreds

(* saveCreds() and the native row: both are tried. *)
SetDevice(saves, persists) ==
  /\ operation.kind = "set" /\ route = "device"
  /\ savedCreds' = IF saves THEN legacy ELSE savedCreds
  /\ native' = IF persists THEN Envelope(operation.value, legacy) ELSE native
  /\ Acknowledged(operation.value, saves /\ persists)
  /\ UNCHANGED legacy

CallDelete ==
  /\ route = "projected" /\ Starts("delete", None, "write")
  /\ UNCHANGED <<route, isolated, mirrorRows, settled, acceptable>>

DeleteProjected(ok) ==
  /\ operation.kind = "delete"
  /\ Persists(None, None, ok)
  /\ Acknowledged(None, ok)
  /\ UNCHANGED savedCreds

-----------------------------------------------------------------------------
(* Another owner of the auth state rewrites or deletes the legacy row.     *)
(* Bound: once between two acknowledged operations; a second write may     *)
(* bring back the row an envelope of before belongs to.                    *)
OtherOwnerWrites(l) ==
  /\ route = "projected" /\ operation.at = "idle" /\ settled
  /\ l # legacy
  /\ legacy' = l /\ acceptable' = {FromLegacy(l)}
  /\ settled' = FALSE /\ answer' = "none"
  /\ UNCHANGED <<route, isolated, native, savedCreds, operation>>

(* A new process reads the saved credentials; a save that failed is lost.  *)
Restart ==
  /\ operation' = NoOperation /\ answer' = "none" /\ settled' = FALSE
  /\ IF route = "device"
     THEN /\ legacy' = savedCreds
          /\ acceptable' = IF legacy = savedCreds THEN acceptable ELSE acceptable \cup {FromLegacy(savedCreds)}
     ELSE UNCHANGED <<legacy, acceptable>>
  /\ UNCHANGED <<route, isolated, native, savedCreds>>

MirrorNext ==
  \/ CallMirrorGet \/ GetAnswers \/ (\E v \in Payloads : CallSet(v)) \/ CallDelete
  \/ \E ok \in BOOLEAN : GetRepairs(ok) \/ SetProjected(ok) \/ DeleteProjected(ok)
  \/ \E saves, persists \in BOOLEAN : SetDevice(saves, persists)
  \/ \E l \in LegacyRows : OtherOwnerWrites(l)
  \/ Restart

MirrorSpec == MirrorInit /\ [][MirrorNext]_mirrorVars

-----------------------------------------------------------------------------
(* A get() returns the exact bytes of the last acknowledged set(), unless  *)
(* another owner has rewritten the legacy row since: then that row.  What  *)
(* it returns after a failed operation is one of AfterFailure(), and the   *)
(* next get() returns it again (adapter.ts, readProjected, readDevice,     *)
(* writeProjected, writeDevice).                                           *)
MirrorReadsExact ==
  [][answer' \in Payloads /\ operation.kind = "get" => answer' \in acceptable]_mirrorVars
=============================================================================
