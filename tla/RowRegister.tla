----------------------------- MODULE RowRegister -----------------------------
(***************************************************************************)
(* What a store of rows with transactions promises its callers: a change   *)
(* of a row is made from the row's current value, and one change follows   *)
(* another.  A change that failed may or may not have taken effect, so a   *)
(* row has a set of values that a reader may find; the number of a value   *)
(* counts the changes it was built from, 0 is an absent row.               *)
(***************************************************************************)
EXTENDS Naturals

CONSTANT RegisterRows

VARIABLE value    \* per row the values a reader may find

RegisterInit == value = [r \in RegisterRows |-> {1}]

(* What a change of row r may leave: the row erased, or built upon. *)
Built(r) == {0} \cup {base + 1 : base \in value[r]}

Changes(r) == \E v \in Built(r) : value' = [value EXCEPT ![r] = {v}]

FailsToChange(r) == \E v \in Built(r) : value' = [value EXCEPT ![r] = @ \cup {v}]

(* Everything is erased, while changes are in progress. *)
Erases == value' = [r \in RegisterRows |-> value[r] \cup {0}]

RegisterNext == Erases \/ \E r \in RegisterRows : Changes(r) \/ FailsToChange(r)

RegisterSpec == RegisterInit /\ [][RegisterNext]_value
=============================================================================
