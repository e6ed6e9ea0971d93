------------------------------ MODULE AtomicRows ------------------------------
(***************************************************************************)
(* The changes of several rows a store commits as one                      *)
(* (src/src/Utils/atomic-store.ts), in the memory store                    *)
(* (src/src/Utils/use-memory-store.ts): reads go through to the rows,      *)
(* writes are staged, and nothing is applied when the change throws.       *)
(* Tokens and timestamps of a contact may arrive in any order.             *)
(***************************************************************************)
EXTENDS Integers, FiniteSetsExt

CONSTANTS
  Jids,     \* contacts with a tc_token row
  MacKeys,  \* keys of mutation_mac rows
  Stamps,   \* bound: the timestamps
  NoRow,    \* no such row
  Invalid   \* an index row that is no list of keys

Tokens == {"t", "u"}
TokenRow(token, stamp, sender) == [token |-> token, stamp |-> stamp, sender |-> sender]
TokenRows == [token : Tokens \cup {NoRow}, stamp : Stamps, sender : Stamps \cup {NoRow}]

ASSUME RowsAssumption ==
  /\ Stamps \subseteq Int
  /\ NoRow \notin Stamps /\ NoRow \notin Tokens /\ NoRow \notin TokenRows /\ NoRow \notin {"mac", Invalid}
  /\ \A keys \in (SUBSET Jids) \cup (SUBSET MacKeys) : keys \notin {NoRow, Invalid}

VARIABLES
  rows,       \* the stored rows, by store and key; an index row is a set
  maintained, \* history: every commitPatch() maintained the index
  heard       \* history: per contact, since its row exists, the last token of each stamp, and the touches

rowVars == <<rows, maintained, heard>>

RowKeys == ({"tc_token"} \X Jids) \cup ({"mutation_mac"} \X MacKeys)
             \cup {<<"meta", "tc_token_jids">>, <<"meta", "mutation_mac_keys">>}
Unheard == [received |-> [stamp \in Stamps |-> NoRow], touched |-> {}]

RowsInit ==
  /\ rows = [k \in RowKeys |-> NoRow]
  /\ maintained = TRUE
  /\ heard = [j \in Jids |-> Unheard]

RowsTypeOK ==
  /\ DOMAIN rows = RowKeys /\ maintained \in BOOLEAN
  /\ \A j \in Jids :
       LET row == rows[<<"tc_token", j>>]
       IN row = NoRow \/ (row.stamp \in Stamps /\ row.sender \in Stamps \cup {NoRow})

-----------------------------------------------------------------------------
(* The rows after a set() or delete() of some keys; the writes of a change *)
(* are replayed in their order.                                            *)
Written(old, keys, value) == [k \in RowKeys |-> IF k \in keys THEN value ELSE old[k]]

(* An index row that is no list of keys makes the change throw. *)
Index(name) == IF rows[<<"meta", name>>] = NoRow THEN {} ELSE rows[<<"meta", name>>]
Throws(name) == rows[<<"meta", name>>] = Invalid

Stored(j) == rows[<<"tc_token", j>>]
TokenOrNew(j, stamp) == IF Stored(j) = NoRow THEN TokenRow(NoRow, stamp, NoRow) ELSE Stored(j)

ChangesToken(j, row, event) ==
  IF Throws("tc_token_jids") THEN UNCHANGED rowVars
  ELSE /\ rows' = Written(Written(rows, {<<"tc_token", j>>}, row),
                          {<<"meta", "tc_token_jids">>}, Index("tc_token_jids") \cup {j})
       /\ heard' = [heard EXCEPT ![j] = event]
       /\ UNCHANGED maintained

Receives(j, token, stamp, newer) ==
  LET row == TokenOrNew(j, stamp)
  IN ChangesToken(j, IF newer THEN TokenRow(token, stamp, row.sender) ELSE row,
                  [heard[j] EXCEPT !.received[stamp] = token])

(* Mutant: a row that a touch created counts as a token of that time. *)
BugStoreReceivedTcToken(j, token, stamp) ==
  Receives(j, token, stamp, stamp >= TokenOrNew(j, stamp).stamp)

StoreReceivedTcToken(j, token, stamp) ==
  LET row == TokenOrNew(j, stamp)
  IN Receives(j, token, stamp, row.token = NoRow \/ stamp >= row.stamp)

TouchTcTokenSenderTimestamp(j, stamp) ==
  LET row == TokenOrNew(j, stamp)
      later == row.sender = NoRow \/ stamp > row.sender
  IN ChangesToken(j, IF later THEN [row EXCEPT !.sender = stamp] ELSE row,
                  [heard[j] EXCEPT !.touched = @ \cup {stamp}])

(* Removals first: a key both removed and added is stored and indexed. *)
CommitPatch(removed, added, maintainIndex) ==
  LET macs == Written(Written(rows, {"mutation_mac"} \X removed, NoRow), {"mutation_mac"} \X added, "mac")
      index == (Index("mutation_mac_keys") \ removed) \cup added
  IN IF maintainIndex /\ Throws("mutation_mac_keys") THEN UNCHANGED rowVars
     ELSE /\ rows' = IF maintainIndex THEN Written(macs, {<<"meta", "mutation_mac_keys">>}, index) ELSE macs
          /\ maintained' = (maintained /\ maintainIndex)
          /\ UNCHANGED heard

(* The plain set() and delete() of the store. *)
DeleteToken(j) ==
  /\ rows' = [rows EXCEPT ![<<"tc_token", j>>] = NoRow]
  /\ heard' = [heard EXCEPT ![j] = Unheard]
  /\ UNCHANGED maintained

SpoilIndex(name) ==
  /\ rows' = [rows EXCEPT ![<<"meta", name>>] = Invalid]
  /\ UNCHANGED <<maintained, heard>>

RowsNext ==
  \/ \E j \in Jids, stamp \in Stamps :
       \/ \E token \in Tokens : StoreReceivedTcToken(j, token, stamp)
       \/ TouchTcTokenSenderTimestamp(j, stamp)
  \/ \E removed, added \in SUBSET MacKeys, maintainIndex \in BOOLEAN :
       CommitPatch(removed, added, maintainIndex)
  \/ \E j \in Jids : DeleteToken(j)
  \/ \E name \in {"tc_token_jids", "mutation_mac_keys"} : SpoilIndex(name)

RowsSpec == RowsInit /\ [][RowsNext]_rowVars

-----------------------------------------------------------------------------
(* In whatever order tokens and touches came, a contact's row holds the    *)
(* newest token, of equal stamps the last, and the newest sender stamp;    *)
(* the indexes list the rows (atomic-store.ts, storeReceivedTcToken,       *)
(* touchTcTokenSenderTimestamp, commitPatch).                              *)
NewestTokenIndexed ==
  /\ \A j \in Jids : Stored(j) # NoRow =>
       LET stamps == {stamp \in Stamps : heard[j].received[stamp] # NoRow}
       IN /\ stamps # {} =>
               Stored(j).stamp = Max(stamps) /\ Stored(j).token = heard[j].received[Max(stamps)]
          /\ heard[j].touched # {} => Stored(j).sender = Max(heard[j].touched)
          /\ ~Throws("tc_token_jids") => j \in Index("tc_token_jids")
  /\ maintained /\ ~Throws("mutation_mac_keys") =>
       Index("mutation_mac_keys") = {k \in MacKeys : rows[<<"mutation_mac", k>>] # NoRow}
=============================================================================
