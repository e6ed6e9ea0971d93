----------------------------- MODULE SignalKeys ------------------------------
(***************************************************************************)
(* The Signal key-store utilities of the public API: transactions          *)
(* (addTransactionCapability) over a caching store                         *)
(* (makeCacheableSignalKeyStore) over the user's store                     *)
(* (src/src/Compatibility/public-api/auth-utils.ts).                       *)
(*                                                                         *)
(* Every caller makes one call: a transaction that reads a row and changes *)
(* it, or clear().  A row is one id of one key type and named after the    *)
(* type.  Mutexes are objects in a table keyed by string, the transaction  *)
(* keys and the type names side by side, and may be dropped and made anew: *)
(* a mutex is its key and a generation.                                    *)
(***************************************************************************)
EXTENDS Integers, Sequences, SequencesExt

CONSTANTS
  Callers,     \* callers of transaction() and clear()
  Rows,        \* rows, one per key type
  PreKeys,     \* those of type pre-key
  KeyOf,       \* per row the key its transactions use
  MaxRetries,  \* maxCommitRetries
  Missing      \* no such entry in the cache

MutexNames == Rows \cup {KeyOf[r] : r \in Rows}

(* A transaction whose key is a type name would wait for itself. *)
ASSUME KeysAssumption ==
  /\ PreKeys \subseteq Rows /\ Rows # {}
  /\ DOMAIN KeyOf = Rows
  /\ \A r \in Rows : KeyOf[r] \notin Rows
  /\ MaxRetries \in Nat \ {0}
  /\ Missing \notin Nat

VARIABLES
  stored,      \* per row the value in the store, 0 when absent
  cached,      \* per row the cache entry: Missing, or a value (0 is null)
  cacheQueue,  \* cacheMutex: the callers in get() or set(), the first holds it
  io,          \* per caller the value it has asked of the store, or for
  table,       \* txMutexes: per name the generation of its mutex, 0 for none
  refs,        \* txMutexRefCounts
  tickets,     \* callers holding or awaiting a mutex, in order of arrival
  tx,          \* per caller its transaction
  unsure,      \* history: rows whose last set() failed or met a clear()
  latest       \* history: per row what a reader may find committed

keyVars == <<stored, cached, cacheQueue, io, table, refs,
             tickets, tx, unsure, latest>>
storeVars == <<stored, cached, unsure>>
cacheVars == <<cacheQueue, io>>
mutexVars == <<table, refs, tickets>>

Fresh == [at |-> "idle", row |-> CHOOSE r \in Rows : TRUE, base |-> Missing, new |-> Missing, tries |-> 0]

KeysInit ==
  /\ stored = [r \in Rows |-> 1]
  /\ cached = [r \in Rows |-> Missing]
  /\ cacheQueue = <<>>
  /\ io = [c \in Callers |-> Missing]
  /\ table = [n \in MutexNames |-> 0]
  /\ refs = [n \in MutexNames |-> 0]
  /\ tickets = <<>>
  /\ tx = [c \in Callers |-> Fresh]
  /\ unsure = {}
  /\ latest = [r \in Rows |-> {1}]

KeysTypeOK ==
  /\ stored \in [Rows -> Nat]
  /\ cached \in [Rows -> Nat \cup {Missing}]
  /\ cacheQueue \in Seq(Callers)
  /\ table \in [MutexNames -> Nat]
  /\ refs \in [MutexNames -> Nat]
  /\ \A c \in Callers :
       /\ tx[c].at \in {"idle", "queued", "working", "awaitsType", "reading", "committing",
                        "retrying", "settling", "getting", "clearing", "done"}
       /\ tx[c].tries \in 0..MaxRetries

Goes(c, at) == tx' = [tx EXCEPT ![c].at = at]

-----------------------------------------------------------------------------
(* The mutex table *)

Locked(name, gen) == \E i \in DOMAIN tickets : tickets[i].name = name /\ tickets[i].gen = gen

(* getTxMutex(name), and runExclusive() takes a place in its queue.  A new *)
(* mutex is none that anybody still holds.                                 *)
Enter(c, name, owned) ==
  LET gen == IF table[name] # 0 THEN table[name]
             ELSE CHOOSE g \in 1..(Len(tickets) + 1) : ~Locked(name, g)
  IN /\ table' = [table EXCEPT ![name] = gen]
     /\ refs' = [refs EXCEPT ![name] = @ + owned]
     /\ tickets' = Append(tickets, [by |-> c, name |-> name, gen |-> gen])

(* No ticket of its mutex is before the one of c.  A mutex is not          *)
(* re-entrant: a second ticket of c waits for the first.                   *)
Holds(c, name) ==
  \A i \in DOMAIN tickets : tickets[i].by = c /\ tickets[i].name = name =>
    \A j \in 1..(i - 1) : tickets[j].name # name \/ tickets[j].gen # tickets[i].gen

Leave(c, name) ==
  \E i \in DOMAIN tickets :
    tickets[i].by = c /\ tickets[i].name = name /\ tickets' = RemoveAt(tickets, i)

(* Mutant: whoever finishes drops the mutex, waiting callers or not. *)
BugReleaseRef(name) ==
  /\ table' = [table EXCEPT ![name] = 0]
  /\ refs' = [refs EXCEPT ![name] = 0]

(* releaseTxMutexRef(): the last one out drops the mutex, unless it is     *)
(* held or awaited by then.                                                *)
ReleaseRef(name) ==
  IF refs[name] <= 1 /\ ~Locked(name, table[name])
  THEN table' = [table EXCEPT ![name] = 0] /\ refs' = [refs EXCEPT ![name] = 0]
  ELSE UNCHANGED table /\ refs' = [refs EXCEPT ![name] = @ - 1]

-----------------------------------------------------------------------------
(* transaction() *)

(* runExclusive() settles: the context is gone and the mutex free. *)
Settles(c) ==
  /\ tx' = [tx EXCEPT ![c] = [Fresh EXCEPT !.at = "settling", !.row = tx[c].row]]
  /\ Leave(c, KeyOf[tx[c].row])

CallTransaction(c, r) ==
  /\ tx[c].at = "idle"
  /\ tx' = [tx EXCEPT ![c].at = "queued", ![c].row = r]
  /\ Enter(c, KeyOf[r], 1)
  /\ UNCHANGED <<storeVars, cacheVars, latest>>

TransactionStarts(c) ==
  /\ tx[c].at = "queued"
  /\ Holds(c, KeyOf[tx[c].row])
  /\ Goes(c, "working")
  /\ UNCHANGED <<storeVars, cacheVars, mutexVars, latest>>

(* Mutant: the read is guarded by the transaction's own mutex. *)
BugReadMutex(c) == KeyOf[tx[c].row]

(* get() of a row the context has not seen takes the mutex of its type. *)
ReadMutex(c) == tx[c].row

CallRead(c) ==
  /\ tx[c].at = "working"
  /\ tx[c].base = Missing
  /\ Enter(c, ReadMutex(c), 0)
  /\ Goes(c, "awaitsType")
  /\ UNCHANGED <<storeVars, cacheVars, latest>>

ReadStarts(c) ==
  /\ tx[c].at = "awaitsType"
  /\ Holds(c, ReadMutex(c))
  /\ cacheQueue' = Append(cacheQueue, c)
  /\ Goes(c, "reading")
  /\ UNCHANGED <<storeVars, io, mutexVars, latest>>

(* The deletion of a pre-key counts only when the context holds it. *)
DeletionCounts(c) == tx[c].row \in PreKeys => tx[c].base \notin {Missing, 0}

(* set() stays in the context: a deletion, or a value made from the read.  *)
WorkWrites(c, value) ==
  /\ tx[c].at = "working"
  /\ tx[c].new = Missing
  /\ tx' = [tx EXCEPT ![c].new = value]
  /\ UNCHANGED <<storeVars, cacheVars, mutexVars, latest>>

(* The work has returned: mutations are committed, if there are any. *)
WorkReturns(c) ==
  /\ tx[c].at = "working"
  /\ IF tx[c].new = Missing
     THEN Settles(c) /\ UNCHANGED cacheQueue
     ELSE /\ Goes(c, "committing")
          /\ cacheQueue' = Append(cacheQueue, c)
          /\ UNCHANGED tickets
  /\ UNCHANGED <<storeVars, io, table, refs, latest>>

(* Mutant: the mutex is given back where the work fails, and again at the  *)
(* end.                                                                    *)
BugWorkThrows(c) ==
  /\ tx[c].at = "working"
  /\ Settles(c)
  /\ refs' = [refs EXCEPT ![KeyOf[tx[c].row]] = @ - 1]
  /\ UNCHANGED <<storeVars, cacheVars, table, latest>>

(* The work throws: the context is forgotten. *)
WorkThrows(c) ==
  /\ tx[c].at = "working"
  /\ Settles(c)
  /\ UNCHANGED <<storeVars, cacheVars, table, refs, latest>>

(* The delay between two attempts is over. *)
RetryStarts(c) ==
  /\ tx[c].at = "retrying"
  /\ cacheQueue' = Append(cacheQueue, c)
  /\ Goes(c, "committing")
  /\ UNCHANGED <<storeVars, io, mutexVars, latest>>

(* The `finally` around runExclusive(). *)
TransactionEnds(c) ==
  /\ tx[c].at = "settling"
  /\ ReleaseRef(KeyOf[tx[c].row])
  /\ tx' = [tx EXCEPT ![c] = [Fresh EXCEPT !.at = "done"]]
  /\ UNCHANGED <<storeVars, cacheVars, tickets, latest>>

-----------------------------------------------------------------------------
(* The caching store *)

(* Mutant: get() and set() of the caching store do not exclude each other. *)
BugCacheTurn(c, at) == tx[c].at \in at

(* c is in a call to the caching store and has its mutex. *)
CacheTurn(c, at) == tx[c].at \in at /\ Head(cacheQueue) = c

Asks(c, value) == io' = [io EXCEPT ![c] = value]

CacheDone(c) ==
  /\ cacheQueue' = Tail(cacheQueue)
  /\ Asks(c, Missing)

(* get() of a user of the caching store, outside any transaction. *)
CallGet(c, r) ==
  /\ tx[c].at = "idle"
  /\ tx' = [tx EXCEPT ![c].at = "getting", ![c].row = r]
  /\ cacheQueue' = Append(cacheQueue, c)
  /\ UNCHANGED <<storeVars, io, mutexVars, latest>>

(* get() answers.  A transaction's leaves the type's mutex. *)
Answer(c, value) ==
  /\ IF tx[c].at = "reading"
     THEN Leave(c, ReadMutex(c)) /\ tx' = [tx EXCEPT ![c].at = "working", ![c].base = value]
     ELSE UNCHANGED tickets /\ Goes(c, "done")
  /\ CacheDone(c)
  /\ UNCHANGED <<stored, unsure, table, refs, latest>>

Reading == {"reading", "getting"}

CacheHits(c) ==
  /\ CacheTurn(c, Reading)
  /\ io[c] = Missing
  /\ cached[tx[c].row] # Missing
  /\ Answer(c, cached[tx[c].row])
  /\ UNCHANGED cached

CacheMisses(c) ==
  /\ CacheTurn(c, Reading)
  /\ io[c] = Missing
  /\ cached[tx[c].row] = Missing
  /\ Asks(c, stored[tx[c].row])
  /\ UNCHANGED <<storeVars, cacheQueue, mutexVars, tx, latest>>

(* An absent row is not cached. *)
CacheFills(c) ==
  /\ CacheTurn(c, Reading)
  /\ io[c] # Missing
  /\ cached' = IF io[c] = 0 THEN cached ELSE [cached EXCEPT ![tx[c].row] = io[c]]
  /\ Answer(c, io[c])

(* set() writes the cache first and then asks the store. *)
CacheSets(c) ==
  /\ CacheTurn(c, {"committing"})
  /\ io[c] = Missing
  /\ cached' = [cached EXCEPT ![tx[c].row] = tx[c].new]
  /\ Asks(c, tx[c].new)
  /\ UNCHANGED <<stored, unsure, cacheQueue, mutexVars, tx, latest>>

(* The store has written: the transaction is committed. *)
StoreSets(c) ==
  /\ CacheTurn(c, {"committing"})
  /\ io[c] # Missing
  /\ stored' = [stored EXCEPT ![tx[c].row] = tx[c].new]
  /\ unsure' = unsure \ {tx[c].row}
  /\ latest' = [latest EXCEPT ![tx[c].row] = {tx[c].new}]
  /\ CacheDone(c)
  /\ Settles(c)
  /\ UNCHANGED <<cached, table, refs>>

(* It has failed, with or without effect; the cache keeps the new value.   *)
(* After the last attempt the transaction fails.                           *)
StoreFails(c) ==
  LET r == tx[c].row
  IN /\ CacheTurn(c, {"committing"})
     /\ io[c] # Missing
     /\ stored' \in {stored, [stored EXCEPT ![r] = tx[c].new]}
     /\ unsure' = unsure \cup {r}
     /\ latest' = [latest EXCEPT ![r] = @ \cup {tx[c].new}]
     /\ CacheDone(c)
     /\ IF tx[c].tries + 1 = MaxRetries
        THEN Settles(c)
        ELSE UNCHANGED tickets /\ tx' = [tx EXCEPT ![c].tries = @ + 1, ![c].at = "retrying"]
     /\ UNCHANGED <<cached, table, refs>>

(* The time to live of an entry is over.  Bound: while nobody is using the *)
(* cache.                                                                  *)
CacheExpires(r) ==
  /\ cached[r] # Missing
  /\ cacheQueue = <<>>
  /\ cached' = [cached EXCEPT ![r] = Missing]
  /\ UNCHANGED <<stored, unsure, cacheVars, mutexVars, tx, latest>>

(* Rows that a get() or set() in progress has asked the store about. *)
InCache == {tx[c].row : c \in {d \in Callers : io[d] # Missing}}

(* clear() takes no mutex: flushAll(), and then the store. *)
CallClear(c) ==
  /\ tx[c].at = "idle"
  /\ Goes(c, "clearing")
  /\ cached' = [r \in Rows |-> Missing]
  /\ unsure' = unsure \cup InCache
  /\ UNCHANGED <<stored, cacheVars, mutexVars, latest>>

Committing(r) == \E c \in Callers : tx[c].at \in {"committing", "retrying"} /\ tx[c].row = r

StoreClears(c) ==
  /\ tx[c].at = "clearing"
  /\ stored' = [r \in Rows |-> 0]
  /\ latest' = [r \in Rows |-> latest[r] \cup {0}]
  /\ unsure' = unsure \cup {r \in Rows : cached[r] # Missing} \cup InCache
  /\ Goes(c, "done")
  /\ UNCHANGED <<cached, cacheVars, mutexVars>>

-----------------------------------------------------------------------------
KeysStep(c) ==
  \/ TransactionStarts(c)
  \/ CallRead(c)
  \/ ReadStarts(c)
  \/ DeletionCounts(c) /\ WorkWrites(c, 0)
  \/ tx[c].base # Missing /\ WorkWrites(c, tx[c].base + 1)
  \/ WorkReturns(c)
  \/ WorkThrows(c)
  \/ RetryStarts(c)
  \/ TransactionEnds(c)
  \/ CacheHits(c)
  \/ CacheMisses(c)
  \/ CacheFills(c)
  \/ CacheSets(c)
  \/ StoreSets(c)
  \/ StoreFails(c)
  \/ StoreClears(c)

KeysNext ==
  \/ \E c \in Callers :
       \/ \E r \in Rows : CallTransaction(c, r) \/ CallGet(c, r)
       \/ CallClear(c)
       \/ KeysStep(c)
  \/ \E r \in Rows : CacheExpires(r)

(* The work of a transaction ends and the store settles; nobody has to call. *)
KeysFairness == \A c \in Callers : WF_keyVars(KeysStep(c))

KeysSpec == KeysInit /\ [][KeysNext]_keyVars /\ KeysFairness

-----------------------------------------------------------------------------
(* Transactions of one key follow one another: what a transaction commits  *)
(* was made from a value that was committed, or left behind by a failed    *)
(* commit or a clear(), never from one that another transaction has        *)
(* replaced since (auth-utils.ts, getTxMutex to releaseTxMutexRef).        *)
Register == INSTANCE RowRegister WITH RegisterRows <- Rows, value <- latest
ImplementsRegister == Register!RegisterSpec

(* The cache never differs from the store, except while a set() is in      *)
(* progress, after one that failed and where a clear() met another call    *)
(* (auth-utils.ts, makeCacheableSignalKeyStore).                           *)
CacheAgrees ==
  \A r \in Rows \ unsure :
    cached[r] # Missing /\ ~Committing(r) => cached[r] = stored[r]

(* Every transaction ends; no two wait for each other's mutex. *)
TransactionsEnd == \A c \in Callers : (tx[c].at = "queued") ~> (tx[c].at = "done")
=============================================================================
