# A specification of baileyrs

TLA+ models, TLC runs and TLAPS proofs of the parts of baileyrs
(`src/src/`) whose correctness depends on the order in which things happen:
the life of a socket and of the bridge client it owns, the stores that keep the
Signal state, the key-store utilities and the legacy adapter, the event buffer
and the dispatch of events. The engine itself (whatsapp-rust, compiled to
WebAssembly) is a dependency; it appears as the environment: promises that
settle, events that arrive, writes that land.

## How JavaScript becomes steps

Code between two awaits runs to completion, so one action is one such
segment. An awaited promise may settle in any order relative to everything
else in progress, and may reject wherever the code catches or propagates the
rejection. A microtask that must run before anything else can observe the
state is merged into the segment that queues it; one that others can overtake
(`Promise.resolve().then(...)` in `close()` of the owner and of the transport)
is an action of its own. Delivery of events is synchronous, so the event
buffer has a call stack instead. Time is abstract: a timer that is armed may
fire at any later moment, an entry with a time to live may expire at any moment.

## The system and what is hard about it

| Part (source under `src/src/`) | State | Operations | Talks to | What is hard | What makes it correct |
|---|---|---|---|---|---|
| Client owner, `Socket/bridge-client-owner.ts` | union `state`, `done`, pending releases | `adopt`, `peek`, `isClosing`, `close`, `discard` | `init()`, `end()`, teardown and release callbacks | close overtakes startup, discard overtakes close | every client released exactly once, none ownerless, `done` settles last |
| Terminal-close reporter, `Socket/terminal-close-reporter.ts` | the claim, the watchdog, the publish promise | `reportAfter`, `reportNow`, `published`, `hasReported` | event dispatcher, `logout()`, `init()`'s catch | watchdog against teardown, two claims | one close per socket, after the release, and always eventually |
| Socket lifecycle, `Socket/core.ts` | init promise, end handlers, `runningEndHandlers`, stores to flush | `init`, `end`, `logout`, teardown, release, run observer | all of the above, the stores, the consumer's handlers | everything calls `end()`; handlers may call it too; the engine writes late | end resolves with the state persisted and the client freed, nothing waits for itself |
| Transport wrapper, `Compatibility/websocket-client.ts` | `closeState`, listeners, mutation depth | `connect`, `close`, `on` ... `removeAllListeners`, `emit` | owner (`peek`), engine's `disconnect()` and forwarding flag, the waiter | the user closes and reopens while teardown does; listeners that come before the client and go during an emission | the client is not freed under a `disconnect()`; stanzas are forwarded while somebody listens |
| Tagged-message waiter, `Compatibility/tagged-message-waiter.ts` | one promise, timer and listeners per call | `waitForMessage` | transport wrapper | answer, error and timeout race, listeners taken away | answered within its timeout, leaves no listener |
| Per-key store, `Utils/use-bridge-store.ts` | pending writes, certified bytes, uncertain keys, one chain per key, admitted operations | `get`, `set`, `delete`, batches, `listKeys`, `deletePrefix`, `flush` | engine callbacks, teardown, the file system | failures after a rename, skipped writes, flush against new work, listings against deletes, crashes | reads answer what was acknowledged, acknowledged data survive, no write is forgotten, a listing misses nothing |
| Event buffer, `Utils/event-buffer.ts` | buffered data, count, two timers, pending upsert type, history cache | `emit`, `buffer`, `flush`, `createBufferedFunction`, `destroy` | dispatcher, listeners (which may call back) | listeners that call back or throw, type changes, merging out of order, undecided conditional updates | nothing lost or doubled but where a listener throws or a conditional update takes it, nothing mixed or reordered; the newest value wins; buffers end |
| Snapshot transactions and rollback, `Utils/snapshot-*.ts`, `process-file-lock.ts` | one snapshot file, proof and archive, a process-wide lock | `read`, `transaction`, `flush`, offline export | atomic callbacks, legacy snapshot store | a power loss between any two directory operations, two processes | a transaction is all or nothing; a proof never vouches for the wrong archive |
| Combined file store, `Utils/transactional-file-store.ts`, `flush-deadline.ts` | admission count, pending callbacks | callbacks, `flush` with a deadline | per-key store, snapshot store | callbacks that admit callbacks; a failure between two passes; a callback that never settles | a resolved flush means both backends are quiet and no failure was swallowed |
| Atomic rows, `Utils/atomic-store.ts`, `use-memory-store.ts` | rows and indexes | `commitPatch`, tc-token callbacks | snapshot store, memory store | tokens out of order | newest token wins, index equals rows |
| Signal key utilities, `Compatibility/public-api/auth-utils.ts`, `pre-key-manager.ts` | cache, mutex table with counts, queues, transaction context | `get`, `set`, `transaction`, `clear` | consumer's key store | nested locks, failing commits, cache before store, expiry | serialised transactions, cache agrees with the store |
| Legacy adapter, `Compatibility/legacy-store/` | credentials, native mirror | reads that import, writes that mirror | consumer's key store | two stores written in parallel, a read that writes, other owners | the exact bytes come back, or what another owner wrote |
| Retry manager, `Compatibility/public-api/message-retry-manager.ts` | recent messages, index, counters, timers | add, get, mark, schedule, cancel | consumer | expiry against re-adding, cancelled timers | index and map agree, a success ends everything |
| Identity handler, `Compatibility/public-api/identity-change-handler.ts` | debounce cache | `handleIdentityChange` | consumer | overlapping handlers of one contact | one refresh per mark |
| Event dispatcher, `Socket/events-core.ts` | connection, history-sync flags and timer, auto-reconnect flag | one handler per engine event, batches | event buffer, reporter | timers against terminal events, throwing listeners | order kept, one status per sync, one close |
| WebSocket transport, `Socket/transport.ts` | current socket, socket to disconnect | `connect`, `send`, `disconnect` | engine | overlapping sockets at reconnect | depends on the engine's order of calls |
| Socket methods, adaptation, media, encodings, hosts | none of their own, or payload caches | one engine call and a conversion each | engine | data, not order | outside this project |

`PROJECT.json` lists every component with its files, and every hazard with the
line where it bites and the property that would catch it.

Three flows connect the parts. **Ending**: the engine announces a terminal
event (or `end()`, `logout()`, a failed `init()` or the end of `run()` does);
the reporter claims the close and ends the socket; `owner.close()` runs the
teardown (transport, a barrier of two event-loop turns, flush of the stores,
end handlers) and then the release (disconnect, barrier, flush, free); the
reporter publishes. **Persisting**: engine callbacks go to the combined store,
which sends atomic namespaces to the snapshot and all others to the per-key
store; teardown flushes both. **Telling**: dispatcher handlers emit into the
buffer, which delivers to listeners, at once or consolidated.

## Modules

| Module | Models | Composition |
|---|---|---|
| `ClientOwner` | the owner; its callbacks' outcomes are chosen freely | the abstract specification that `SocketLifecycle` implements |
| `TerminalCloseReporter` | the reporter's state and operations | instantiated by `SocketLifecycle` |
| `SocketLifecycle` | `init`, teardown, release, `end`, `logout`, handlers, the transport wrapper, the writes a disconnect enqueues | `Owner` and `Reporter` are `INSTANCE`s of both |
| `BridgeStore` | the per-key store, its disk and crashes | stands alone |
| `StoreSweep` | `listKeys()` and `deletePrefix()` over the per-key store | extends `BridgeStore` |
| `CombinedFlush` | admission to and flush of the combined store, with the snapshot's own flush | abstracts `BridgeStore` and `SnapshotStore` to callbacks |
| `SnapshotStore` | transactions and offline export of the atomic snapshot, its lock, directory and crashes | stands alone |
| `AtomicRows` | the changes of several rows committed as one | stands alone |
| `RowRegister` | what a store with transactions promises | abstract specification, implemented by `SignalKeys` |
| `SignalKeys` | transactions, mutex table and caching store of the key utilities | `Register` is an `INSTANCE` of `RowRegister` |
| `LegacyMirror` | a record kept in an upstream auth state and in a native mirror | stands alone |
| `EventBuffer` | the control of the event buffer, with listeners that call back or throw | stands alone |
| `BufferMerge` | the merging of the payloads of one entity | the data `EventBuffer` leaves out |
| `MessageBatch` | dispatch of a batch of messages | stands alone |
| `ConnectionEvents` | connection events and history-sync statuses | the reporter's part is in `SocketLifecycle` |
| `RetryManager` | recent messages, retry counters, phone requests | stands alone |
| `IdentityChange` | the debounced identity handler | stands alone |
| `RawNodes` | raw-stanza listeners of the wrapper with the engine's forwarding flag, and the waiters that use them | composes wrapper, waiter and the end of `init()` |
| `Parts` | the parts that share nothing, side by side | extends eleven of them |
| `ClientOwnerProofs`, `SocketLifecycleProofs`, `BridgeStoreProofs`, `CombinedFlushProofs`, `SnapshotStoreProofs`, `SignalKeysProofs`, `EventBufferProofs` | theorems | extend their component; `SocketLifecycleProofs` uses those of `ClientOwnerProofs`, `BridgeStoreProofs` also extends `StoreSweep` |
| `PartsProofs` | theorems of eight small parts (`RawNodes`, `IdentityChange`, `ConnectionEvents`, `LegacyMirror`, `BufferMerge`, `RetryManager`, `AtomicRows`, `MessageBatch`) and of the composition | extends `Parts` and the proofs of the owner, the key utilities and the combined flush |

Definitions keep the names of the code where one action is one function; where
a function has several awaits its actions are named for the segment that ends
there (`TeardownStarts`, `TeardownDisconnects`, `TeardownFlushes`, ...). The
operators named `Bug...` are mutants: each changes one definition the way a
plausible mistake in the code would, and the property it is paired with in
`PROJECT.json` is violated by it.

**Parts.** Eleven modules that share no state are checked in one run. `part` is
chosen in the initial state and never changes, and only the actions of that
part are enabled: the reachable states are the sum of those of the parts and not
their product, and every behaviour of each part is a behaviour of the
composition. A property that speaks of one part holds trivially in the
behaviours of the others. The fairness conditions are those of each part's own
specification, guarded by `part`. Where components do interact they are
composed for real, in `SocketLifecycle` and `StoreSweep`.

**ClientOwner.** `phase` and `held` are the union. `closer` says how far
`runClose()` has come, `tracked` is `pendingReleases`. `releaseCalls` is a
history of calls of the release callback. `drainReleases()` loops over
snapshots of the set until it is empty; it is one step enabled when it is.

**SocketLifecycle.** `init` is the position of `init()` and its `.catch`,
`teardown` and `release` the positions of the two callbacks, `call` the
position of every caller of `end()` or `logout()`. `link` says that the engine
has a session, `writes` where the ratchet writes of its disconnect are. Which
disconnect takes effect (the transport's, teardown's or release's) is whichever
comes first. Assumed, since the code awaits them without a deadline:
`createWhatsAppClient()`, `disconnect()`, store flushes and the engine's
`logout()` settle. An end handler may hang. A `disconnect()` that throws
enqueues no write. Two turns of the event loop suffice for the store callbacks
of a disconnect that finished, which is what the barrier in the code relies on.
The disconnect inside the engine's own `logout()` is not modelled. With
`LateReopen = TRUE` users may also call `ws.connect()` between teardown's
`ws.close()` and the free; `NoFreeDuringDisconnect` then fails
(`websocket-client.ts:206`). The repository's `bridge-free-safety.test.ts`
reports that bridge releases since 0.23.1 survive a free at that point, so this
is kept as a known limit and not as a finding.

**BridgeStore.** `disk` is what the file system answers, `stable` what it would
answer after a power loss; the kernel may write an entry back at any time. A
failed rename may have happened. File contents are always whole, because
`durableWrite` syncs the temp file before renaming it; temp files are not
represented, nor the retry for a name that exists. `job[k]`, `stage[k]` and
`waiting[k]` are the promise chain of a key. Cache eviction may drop any other
key: that is more than the code's choice of the oldest. `acked` is a history
variable: the content a caller was last told of, or `Unknown` after a failure
that leaves it open. A batch is a sequence of single admissions, as in the code.
A directory sync covers the whole folder, as `fsync` of a directory does.

**StoreSweep.** One caller, `Sweeper`, makes enumerating calls one after
another while the others set, get, delete and flush. A prefix is a whole class
of keys (critical or debounced), as a namespace is. A sweep calls the same
`flush()` as everybody, reads the directory, adds the queued keys, and for
`deletePrefix()` awaits the deletes together and rejects at the first failure.
There is no crash here: what one leaves is the subject of `BridgeStore`. A
`deletePrefix()` repeated after a failure finds no file for a key whose unlink
took effect, so it does not repeat the directory sync for it, which a repeated
`delete()` does (`use-bridge-store.ts:595`); `PrefixIsGone` exempts keys whose
delete is uncertain in that way.

**CombinedFlush.** A callback belongs to one of the backends, may never settle,
may fail, and may fail between two passes before any flush has it in a snapshot.
The snapshot's callbacks settle in order, the others in any order; those may
leave a debounced write. `flush`, `snapDrain` and `ordDrain` are the combined
loop and the two drains of its pass, all three loops over snapshots of what was
admitted. A flush that has awaited nothing in a pass looks again after one turn
of the event loop. The deadline may pass whenever somebody waits.

**SnapshotStore.** `op[p]` is the one operation a process has in its chain and
the lock; `at` names the await it stands at. `dir` is the directory as programs
see it, `images` what it has been since its last sync: a power loss brings back
one of these, or, when `ordered` is false, a mixture name by name. A failing
call may have taken effect and rejects the operation; processes die and come
back without memory. A row's value is the number of the transaction that wrote
it. `mayBe` is a history: the rows a reader may see, given what was acknowledged
and what failed without certainty. Exports are offline, as the comment on
`exportAuthSnapshot()` demands: none starts while a transaction runs, and no
transaction starts during one. After the user has lost a snapshot
(`Lose`) only exports are tried. The options `migrate` and `shouldPersist`,
`read()` and the validation of rows and file names are left out.

`MaySee(r)` says what a reader may find. On an ordered file system `r` is one of
`mayBe`, the rows after whole transactions. On an unordered one each row of `r`
is that row of some member of `mayBe`, for two paths in the code cannot do
better there. An export whose snapshot was published without its directory sync
publishes the records one by one before it syncs (`snapshot-rollback.ts:64-67`),
so a power loss may keep some of them and drop the snapshot. And
`clearRollbackProof()` syncs the directory only when it has unlinked a proof
itself: after an unlink whose sync failed, the next transaction finds none,
returns at once (`snapshot-rollback-proof.ts:19`), and a power loss may bring
the old proof back beside what that transaction published.

**AtomicRows.** Each change reads rows, stages writes and applies them in order
at the end, or none when it throws. The keys of a patch are handled one by one
and the index is rewritten once per patch, so one key of `mutation_mac` stands
for all. An index row may hold something that is no list of keys.

**SignalKeys.** A mutex is its key and a generation, because the table drops a
mutex when its last holder leaves and makes a new one for the next caller.
Transactions take the mutex of their key, then for their first read the mutex of
the key type; the cached store has its own queue. A cache entry may expire at any moment. A
commit is retried `MaxRetries` times; a failed `set()` may have taken effect.
`clear()` empties the store and then the cache without waiting for the
transactions. `DeletionCounts` is the pre-key rule: a deletion in a transaction
counts only for rows the transaction has in its cache, which is upstream's rule
too. `KeysAssumption` excludes a transaction whose key is the name of a key
type: it would wait for itself.

**LegacyMirror.** Payloads `a` and `a2` have one legacy projection, so the
exact bytes survive only in the mirror; `x` has no projection. `AfterFailure` says what
a failed write may leave: the row it wrote may be one that an older envelope
belongs to. Operations do not overlap, which `bridgeTransaction` guarantees when
the auth state has it; without it a `get()` that repairs the mirror may
overwrite a later one, after which the digest differs and the legacy row is
answered.

**EventBuffer.** An event is a number and a kind. `others` and `conditionals`
are the parts of `data` besides the upserts. `frames` is the stack of calls that
are delivering; a listener may call the buffer at each level.

Any of these calls may end in a listener that throws. Out of `emit()`'s release
of pending upserts (`event-buffer.ts:543`) that skips the clearing at 546, and the
upsert at hand is never buffered (`ReleaseThrows`); out of a flush (line 502) it
skips the replacement of `data` at 503, and the conditional updates carried over
are gone with the object that was to hold them (`FlushThrows`). `abandoned` holds
the events lost so, `repeatable` the delivered ones left in `data`, which a later
release delivers again. An event counts as delivered once its delivery begins: a
listener that throws may keep it from the listeners after it, and the model does
not say which.

Of the chats one is followed: its rows (`chats.upsert`, and a new row in
`messaging-history.set`), updates, conditional updates and deletes. An update
goes into the row if there is one and otherwise into the chat's one entry in
`data.chatUpdates`. An undecided conditional update replaces that entry, whatever
it holds (line 212), and an update that finds an undecided one is folded into it
and shares its fate (lines 209-211). `swallowed` holds the events lost so:
replaced, or dropped with an entry whose condition fails. Upstream Baileys does
the same, and nothing in `src/src` emits conditional updates: they come only
through the public `sock.ev.emit`. `withdrawn` holds what a later event took back
(a `messages.delete` of buffered upserts, a `chats.delete`) and conditional
updates whose own condition failed.

**BufferMerge.** A behaviour follows one chat, contact or message. A payload
gives some fields the number of its event, and `consumer` is what somebody holds
who applies every released event in the order of a flush: history, upsert,
update, deletion. History rows may be older than live events, so a field they
filled is exempt.

**MessageBatch.** Ordinary messages of two upsert types, messages with a
reaction or protocol message beside the upsert, messages of ignored chats (which
release the messages before them when they carry a reaction or protocol message)
and other events, in any order; messages may carry a push name to announce. Any
emission may be one whose listener throws.

**ConnectionEvents.** The engine is `up`, `down`, `leaving` (it has dispatched
`disconnected` and not yet tested the auto-reconnect flag) or `stopped`. The
timer of a paused history sync remembers which clean-up had happened when it
was armed. A chunk may still arrive between the clean-up and the free and arm it
again; such a status is not counted as late.

**RetryManager.** The expiring map is a sequence in order of use, the index by
id a set of at most one key. `shared` exempts ids under which two chats have
recent messages: removing one takes the other's index entry
(`message-retry-manager.ts:69`), and ids are random.

**IdentityChange.** Notifications of one contact overlap at both awaits of the
handler, and the mark may expire between any two steps. The mark stays also
when the handler then skips or fails.

**RawNodes.** An emission is one step together with everything its listeners do
synchronously, which is what `mutateListeners()` makes of it: only the outermost
change compares. `client` follows `init()` as far as the flag is concerned: no
client, adopted, running after the flag was replayed. A waiter's `error` listener
comes and goes with the one for its tag; removing all listeners takes both
away, and only the timeout answers then. Nothing in the sources emits `close` on
the wrapper, although the waiter listens for it and its unit test emits it by
hand: a waiter without a timeout outlives its socket, and one with a timeout is
answered with `undefined` and not with the connection-closed error.

## Runs

| Run | Question | Bounds |
|---|---|---|
| `parts` | What does each of the eleven small parts promise its callers, and does what was started end? | below, per part |
| `socket_lifecycle` | What do `end()`, `logout()` and the published close guarantee? | two outside callers, one handler that may call back or hang, one reopening |
| `socket_liveness` | Is every close published and every call answered? Is the owner's specification kept? | one outside caller, one handler, one reopening |
| `socket_end_during_handlers` | finding 1 | as `socket_lifecycle` |
| `bridge_store` | Do cache, file system, stable storage and acknowledgements agree? | a critical and a debounced key, two contents, two flushers, three calls, one power loss |
| `bridge_store_flush` | Do listings and prefix deletes see what is there, and does every call settle? | module `StoreSweep`: one content, two flushers of which one sweeps, three calls, no crash |
| `bridge_store_restart` | finding 2 | one flusher, one process crash |
| `event_buffer` | What may be lost or doubled? Is anything mixed, reordered, or kept for ever? | two upsert types, three events of nine kinds, one buffered function, two other calls, delivery depth two, listeners that emit or throw |
| `event_buffer_reentrant` | finding 3 | three events, listeners that may also start buffering |
| `buffer_chat_clear` | finding 4 | `BufferMerge`, four events |
| `batch_listener_throws` | finding 5 | `MessageBatch`, three messages |
| `snapshot_store` | Is a transaction all or nothing, an export complete, a proof never stale? | two processes, two keys, three transactions, two exports, two faults, both kinds of file system |

Why these bounds are enough for the cases of interest:

- *Socket.* Two outside callers give one that starts a close and one that joins
  it, while the handler re-enters.
- *Per-key store.* Operations on different keys meet only in the directory
  sync, the flush, the listing and the cache limit, so one key of each class
  suffices; three calls give a value, its replacement and an operation between,
  with a flush overlapping either. With four calls and one flusher (12 million
  states) the same invariants hold. `MaxPasses` is 2 in place of
  `FLUSH_MAX_PASSES`, which makes reaching the cap cheap; nothing depends on
  its value.
- *Snapshot.* Two processes lose an update when the lock fails, two keys tear
  when a write is not atomic, and the shortest stale proof takes two transactions
  and an export between them; a second export and a third transaction follow
  those up. Two faults make a failed call and a power loss after it (2.8 million
  states). The theorems cover any number of each. Processes and keys are
  interchangeable, so the two are reduced by symmetry; no liveness is checked
  there.
- *Event buffer.* Three events are a change of type or a throw with an event on
  either side of it, and a conditional update that finds one update and is found by
  another (1.3 million states); the theorems cover any number.
- *Parts.* Owner: three clients show one captured, its replacement and one
  refused. Keys: three callers hold, await and arrive at a mutex; one row is
  enough since rows meet only in `clear()` and the cache queue. Flush: one flush
  and two callbacks, one of either backend; the theorems cover any number. Merge:
  two fields, four events, a value before and after each kind of event. Batch:
  three messages, one before, at and after a change of type. Rows: one contact,
  three stamps in any order, two tokens. Retries: two chats and two ids over a
  map of two. Identity: three notifications, two expiries. Raw stanzas: two waiters
  beside the user's permanent and one-time listener.

Deadlock is not checked because every one of these parts may come to rest: a
closed socket, a store nobody calls, a silent buffer. What must not stop is
stated as a liveness property.

### What the properties say

- *Owner.* `ReleasedExactlyOnce` (a client handed to `adopt()` is held or its
  release has started, and none is released twice), `SettledMeansReleased`,
  `CloseTerminates`.
- *Socket.* `NoFreeDuringDisconnect` (the wasm client is not freed under a
  disconnect). `SettledMeansDone`: a resolved `end()` means that the last
  ratchet writes are on disk, unless release's own flush failed, which the code
  only logs; an `end()` that joined the close returns when nothing is left, also
  when it overtook startup; and a resolved `logout()` means a close.
  `OneCloseAfterRelease` (one close, after the release or the watchdog).
  `CloseIsPublished`, `CallsAnswered`.
- *Per-key store.* `CertifiedIsStable`, `ReadsLastAcknowledged`,
  `AcknowledgedSurvives`, `NoForgottenWrite`, `FlushResolvesDurable` (an action
  property of the step that resolves a flush). `ListingIsExact` (what was there
  from the call to the listing is listed, what was never there is not),
  `PrefixIsGone` (a resolved `deletePrefix()` leaves no key that was there at
  the call and not set since), `StoreCallsSettle`.
- *Combined store.* `FlushedMeansQuiet`, `NoFailureSwallowed`,
  `CombinedFlushSettles`.
- *Snapshot.* `AllOrNothing` (a reader finds rows it may see, after any crash
  and halfway through an export: with directory operations in order, those of
  whole transactions, the acknowledged ones among them), `ExportMeansExported` (a
  resolved export is durable and its records are complete) and `NoStaleProof` (a
  proof that verifies is of rows a reader may see).
- *Rows and keys.* `NewestTokenIndexed`; `CacheAgrees` (a row in the cache is
  the row in the store, except where the last `set()` failed or met a `clear()`);
  `ImplementsRegister`; `TransactionsEnd`; `MirrorReadsExact`.
- *Buffer and dispatcher.* `NoEventLost`: every event is delivered, buffered, in
  the hands of a call, taken back, or lost in one of two ways: an upsert when a
  listener of the upserts it releases throws, a `chats.update` when a conditional
  one of the chat was emitted. `DeliveredOnceInOrder`: nothing lost or taken back is
  delivered later, only what a throw left in `data` is delivered twice, and upserts
  keep their order but for those repeats. `BufferEnds`;
  `ReleasedIsNewest`, except where a history row met live events in the buffer;
  `DispatchedInOrder`; `StatusSound`, `RecentSyncReported`, `StopIsAnnounced`.
- *Raw stanzas.* `ForwardingFollowsListeners`, `WaitersSettle`.
- *Retry and identity.* `RetriesAreForgotten` (the index finds exactly the
  recent message of an id, so that a finished retry leaves none behind, and every
  timeout that will fire belongs to a request that can be cancelled),
  `OneRefreshPerMark`.

`PartsProgress` is the conjunction of the progress properties of the parts and
`PartsTypeOK` that of their type invariants.

### Refinement

`SocketLifecycle` implements `ClientOwner`: its `Owner` instance substitutes the
socket's variables, a step of the composition is a step of the owner or a
stutter (`RefinesOwner`), and unless an end handler hangs, the owner's fairness
follows from the socket's. `ImplementsOwner` is the conjunction of the two,
`RefinesOwner /\ ([]~HandlerHung => Owner!Fairness)`, which TLC checks in
`socket_liveness`; the first is also proved (`OwnerRefined`). `SignalKeys`
implements `RowRegister`: the register's `value` is `latest`, the set of contents
a reader may find for a row, and every commit is made from a value in that set
(`ImplementsRegister`, proved as `RegisterRefined`). A lost update, two
transactions that hold different mutexes of one name for example, is a step the
register does not have.

### Fairness

All of it is weak fairness of steps the JavaScript runtime performs by itself:
microtasks run, timers fire, settled promises resume their continuations, and
the operations listed above settle. No caller has to call, no engine event has
to come, no file operation has to fail, no handler, callback or buffered
function has to return. `CallsAnswered` therefore excepts a socket whose handler
hangs, and `CloseIsPublished` does not: the watchdog covers that case.
`CombinedFlushSettles` needs no fairness of callbacks: the deadline covers
those. `RecentSyncReported` also needs that a sync sends finitely many chunks,
since every chunk starts its timer anew: in the model a timer that stays armed
fires in the end, however many chunks arrive.

## Findings

1. **`end()` during the end handlers answers everybody.** The comment above
   `end()` promises later callers a promise that settles after the shutdown.
   While end handlers run, `end()` resolves at once for any caller, not only
   for a handler (`core.ts:827`), so outside code that awaits it may open a
   second writer on the auth folder. In the trace the client was adopted, teardown
   has tried to disconnect it and flushed, and the answer comes before the release
   that flushes again and frees it.
2. **Certification after a restart.** A failed directory sync makes a key
   uncertain in memory only. A restarted process certifies what it reads
   (`use-bridge-store.ts:582`), so the identical retry of a failed critical
   write is skipped, against the header of the module.
3. **A listener that buffers loses its events.** `flush()` delivers before it
   replaces its data (`event-buffer.ts:502-503`); what a listener buffers in
   between is dropped. Upstream has the same order. With listeners that emit
   upserts or flush during a release, a batch may in the same way be delivered
   twice or lost; `event_buffer` therefore lets listeners emit other events
   only.
4. **A chat cleared while events are buffered stays uncleared.**
   `messages.delete` has a form for a whole chat, which `events-core.ts:951`
   emits; `append()` looks for keys (`event-buffer.ts:319`) and does nothing with
   that form, so it is never released. Upstream's `append()` ignores it as well.
5. **A throwing listener costs more than its message.** The `try` of
   `dispatchCanonicalBatch` also covers the release of the messages collected
   before (`events-core.ts:1118`), and two releases have none: the next message
   is lost, the collected ones are handed out twice, or the rest of the batch is
   dropped, where the comment says that only that message is skipped.

## Proofs

For every value of the constants, checked by TLAPS.

**`ClientOwnerProofs`.** The invariant `OwnerIInv` adds to the checked properties
what they need to be inductive: phase and position of the close move together
(`PhaseMatchesCloser`), which client each phase carries (`HeldMatchesPhase`), a
held client's release has not started and calls are counted exactly
(`ReleasesMatch`), and a release in flight is tracked or is the one `runClose()`
awaits (`RunningIsAwaited`). `ExactlyOneRelease` and `SettledCloseReleases` are
consequences. The only assumption is that "no client" is not a client.

**`SocketLifecycleProofs`.** The socket supplies the owner's callbacks and its
`init()`, so the refinement comes first: every action is a step of the owner or a
stutter (`OwnerRefined`), and the owner's own invariant, proved above, holds of the
socket through `OwnerProofs`, an instance of that module. `IInv` then ties the
socket to it: the release and teardown callbacks stand where the owner says they
do (`ReleaseMatches`, `TeardownMatches`), a close captures what was adopted
(`AdoptedIsCaptured`), a refused client is released before `init()` settles
(`RefusalIsJoined`), the reporter's promise and timer match its claim
(`ReportMatches`), and a call that joined the close is answered after it
(`CallsMatch`). `CloseIsReportedOnce` needs no more. `FreedWhenDisconnected` and
`AnswersAreKept` assume `~LateReopen` and add two invariants: a transport that
teardown saw closed stays closed (`TransportStaysClosed`), and the writes of a
disconnect are on disk once a flush after it is done (`WritesReachDisk`). With a
`ws.connect()` between teardown's `ws.close()` and the free both are false, and so
is `NoFreeDuringDisconnect`, as described under SocketLifecycle above.

`NothingWaitsForItself` needs no such proviso. It follows the promises from a call
in progress to the close, to teardown or the release, to the end handlers or
`init()`, and to the publication, and says that one of them can take its next step
unless a handler of the consumer never returns. `WaitInv` is what makes each link
hold: an owner that closes has a promise, and a release it tracks is running
(`CloseIsPromised`); `init()` has not offered the client it is still creating
(`ClientIsNew`); whoever waits for a close has begun one (`WaitersHaveClosed`); a
publication to come has its timer (`PublishIsTimed`); the transport is closing as
long as its `close()` is in flight, also under teardown (`TransportCloses`); and an
end handler joins nothing that would wait for it (`HandlersJoinNothing`). That "can go on" is `ENABLED` of a step with fairness was
checked by TLC only.

**`BridgeStoreProofs`.** `TypeCorrect` first, action by action. The durability
argument is per key: `KeyInv(k)` says that a barrier-certified value is stable
unless the operation in progress is replacing it (`BarrierClosed`,
`CacheOnDisk`), who may be writing and what (`WriterKnown`), what a delete holds
aside (`DeleteCaptured`), and that the acknowledged content is held somewhere
(`AckedIsHeld`). Every action touches one chain, except a directory sync, the
flush calls and a crash; `SameKeeps` says that an untouched key keeps its
invariant also when another key's sync makes everything stable. `CacheIsStable`,
`ReadYourWrites` and `AcknowledgedIsDurable` follow. These theorems assume
`~ProcessCrashes`: after a crash of the process alone finding 2 breaks the
first property, and a second crash the other two.

`WritesAreRemembered` assumes nothing of crashes: a queued entry keeps its timer, or the
timer fired and its own `flushOne` is on the key's chain, or a failed flush has
recorded it (`TimersInv`). `FlushIsDurable`, again under
`~ProcessCrashes`, needs that the requests a flush
waits for can be told apart (tracked requests were admitted and have their own
numbers) and that a flush which leaves an entry behind knows it: every reason to
skip one is a failure the flush has recorded, or a delete it waits for, whose
failure would put the entry back. A flush with nothing recorded therefore
resolves over idle chains and empty queues, where `KeyInv` says that what was
acknowledged is stable.

The sweeps extend this state and have no crash. `ListingsAreExact` rests on the
two histories of a sweep including what the store shows now (`Observed`), and on
what the flush has left and the directory read has found by each point of the
call (`FlushSound`, `ListSound`); `PrefixesAreGone` on `DeletesSound`: the delete
of a key the sweep found is still on that key's chain, or has failed before the
sweep, or the file is gone, unless the key was set or left uncertain meanwhile. Both assume
only that the set of keys is finite.

`FlushNeverStalls` and `SweepNeverStalls` are the part of the liveness property
that is about safety: no flush waits for a promise that nobody will settle.
`AwaitedInv` says that every admitted number belongs to a request on some chain,
that what a barrier waits for is admitted, that the chain of a key being drained
holds that flush's own request, and that a pass is left. For a sweep, the numbers
`deletePrefix()` waits for are admitted too, each the delete of some key. Nothing is
assumed of crashes. That the head of such a chain has a step enabled was checked by
TLC only; that the operation then ends is fairness, and so is left to
`StoreCallsSettle`.

**`CombinedFlushProofs`.** The inductive invariant is the conjunction of
`NoFailureSwallowed` with what it and the barrier need: the types (`FlushTypes`, whence
`FlushTypeCorrect`), that loops refer to callbacks that exist (`LoopsRefer`), that a pending callback is
held where the next pass will find it (`PendingIsHeld`), that a drain belongs to
a pass in progress or to a flush past its deadline (`DrainsBelong`), that what a
pass has awaited and what failed is recorded (`PassRecorded`), and the fact the
barrier rests on, that when a pass awaited nothing and nothing was admitted
since it began, nothing is pending and no debounced write is left
(`AlonePassIsQuiet`). `FailuresAreReported` and `FlushBarrier`, an action
property of the step that resolves a flush, follow. The assumption is that the
bound of callbacks is a number and 0 names no flush; the theorems hold for every
such bound.

**`SnapshotStoreProofs`.** The invariant speaks of what a power loss could bring
back. `Sound(i, j)` is a property of a pair of images: the snapshot and the proof
may come from `i` and the records from `j`. With directory operations in order
`i` and `j` are one image (`Beside`), and then a proof is of exactly the records
beside it; otherwise any two images combine, and each of the three is of rows a
reader may see. `TransactionsHold` and `ExportsHold` say what the open operations
have read and published so far, `Exclusive` that exports are offline. The four
theorems have no hypothesis but the assumption on the constants, and hold for
both kinds of file system. The attempt to prove them showed that stronger claims
about whole transactions on an unordered file system were false beyond the bounds
of the run (three faults, or three keys); the two paths are described under
SnapshotStore.

**`SignalKeysProofs`.** `KeysIInv` says that every ticket for a mutex is of the
generation now in the table (`TicketsMatch`), that whoever asks the store is the head of the cache's queue (`QueueMatches`), that a
transaction at work holds the mutex of its key and its context was read from a
value still in `latest` (`ContextsMatch`), and that a cached row is the stored
one unless a `set()` is in progress or the row is unsure (`CacheMatches`). From it
follow `TransactionsExclude`, `CacheIsTrue` and `RegisterRefined`: the steps that
change a row are register steps from a value of `latest`, all others leave it
alone.

`PlacesIInv` says where callers stand: nobody has two tickets of a mutex or two
places in the cache's queue (`TicketsOnce`, `TypeTickets`, `QueueOnce`), a
reference count is the number of transactions that entered and have not left
(`RefsCount`), and tries are bounded (`TriesBounded`). `KeysTypeCorrect` and
`ReferencesAreCounted` follow. So does `CallersNeverDeadlock`: a caller that is
not `Ready` waits for the holder of its key's mutex, that one for the holder of
a type's mutex, that one for the head of the cache's queue, always in this
order, and one of them is `Ready`. That `Ready` is `ENABLED` of the
caller's step was checked by TLC only.

**`EventBufferProofs`.** Assumes `ListenersOnlyEmit`: listeners make no call but
an `emit()` of something other than an upsert. Only then are releases and flushes
outermost calls. `StackMatches` says so, and what such a call is delivering;
`BufferedOnce` that what is buffered has not been delivered, except by the call
that is at it; `KindsMatch` that the pending upserts are of the type remembered.
With `flush` or `upsert` allowed, or `emit` together with `buffer`, TLC finds one of
the two properties violated: finding 3 and the sentences after it. Listeners may
throw: a throw out of an outermost release or flush leaves delivered events in
`data`, so `BufferedOnce` exempts the `repeatable` ones, and `KindsMatch` says which
kinds of events can be lost.

**`PartsProofs`.** One section for each of eight parts, and one for their
composition.

- *Raw stanzas.* `ForwardingFollowsListeners` speaks of a running client; what the
  end of `init()` needs is `FlagBeforeReplay`: no flag is set without a client, and
  an adopted client's is on only while somebody listens. Every way to change the
  listeners goes through `mutateListeners()`, so one lemma, `MutationKeeps`, serves
  four actions. `FlagFollowsListeners` assumes nothing of the constants.
- *Identity.* That two notifications were not admitted in the same window says
  nothing of a third. `MarkCoversWindow` does: a notification is admitted in a
  window that has begun, and in the current one only while its mark stands.
  `OneAdmissionPerMark` assumes that the bound of expiries is a number.
- *History sync.* `SyncsEndOnce`: a status and its flag are set together, and
  whatever ends the socket disarms the timer that could report another.
- *Mirror.* `MirrorIsExact`: what a `get()` would answer now, from the mirror or
  by import, is always acceptable, and an envelope for an acknowledged payload
  belongs to the legacy row. Assumed: "nothing" is no payload, row or envelope.
- *Merging.* `MergeKeepsNewest` looks through the buffer: `Merged` is what the
  consumer would hold if everything were released now, and every payload but a
  late history row changes it as if it had been applied last, whichever buffered
  entry it is folded into. It also needs that a waiting update of a message is
  newer than what it will be merged with. Assumed: "absent" is no row.
- *Retries.* `RetriesForgotten`: the expiring map lists no key twice, and the index
  names for an id at most one key, one the map holds, and the only one unless the
  id is shared. It holds for any number of chats, ids and recent messages.
- *Rows.* `NewestTokenKept`: nothing heard of a contact is newer than its row, and
  the indexes list the rows. Timestamps are any integers; assumed is that "no row"
  and a spoilt index are neither rows nor sets of keys.
- *Batches.* `BatchesKeepOrder`: as long as no listener throws, what was handed out
  is in order and is exactly what the events handled so far owe, except that the
  messages collected are still owed (`Dispatched`). Every step appends up to four
  emissions; `ReleaseKeeps`, `PushKeeps` and `OwnKeeps` say what each kind does to
  that. That no upsert mixes types holds also after a throw.
- *Composition.* In `Parts` one component moves at a time, and every step of
  `PartsNext` is a step of one component with the variables of the others
  unchanged (`StepsOfParts`). `PartsIInv` is the conjunction of the components'
  inductive invariants and types; each is kept by its own component's lemma and
  by stuttering in the others. `PartsTypeCorrect` and `PartsAreSafe` are its
  consequences, `PartsRefine` carries the three action properties over. None
  uses the fairness of `PartsSpec`.

The inductive invariants were checked with TLC before they were proved.

Only model-checked: every liveness property, among them that the socket keeps
the owner's fairness unless a handler hangs: fairness and `ENABLED` are outside the
prover. The five properties under Findings are false, so there is nothing to prove.

## Not modelled

- *WebSocket transport.* Which socket a `disconnect()` closes depends on the
  order in which the engine calls `connect()` and `disconnect()` across a
  reconnect, and that order is not in this repository: any property would be one
  of the assumed caller.
- *Inside modelled parts.* Unread counts, reactions, receipts, group updates,
  what conditional updates merge to (their control is in `EventBuffer`), and
  `destroy()` of the event buffer;
  `set()` of the key utilities outside a transaction and transactions nested in
  one another; raw records, batches, the flush (the snapshot's loop again) and
  the atomic callbacks of the legacy adapter; statistics and base keys of the
  retry manager; pairing and connection waits of the socket.
- *No order to get wrong.* Conversions between Baileys and engine shapes,
  encodings, media and cryptography are computations on payloads. The request
  methods of the socket forward one call to the engine each. The
  participating refresh is fire and forget; history-sync admission is a pure
  function of a decoded message.
- *Outside the program.* The WebAssembly engine is not in the repository; test
  harnesses, fuzzers, audit scripts and generated protocol code are not the
  system.

## Plan

Done: the client owner, the reporter, the socket lifecycle, the per-key store
with its sweeps, the combined flush, the snapshot store, the atomic rows, the
key utilities and the register they implement, the legacy mirror, control and
merging of the event buffer, batches and connection events of the dispatcher,
the retry manager, the identity handler, the raw-stanza listeners with their
waiters, and the theorems above.

Left, in this order:

1. Transactions nested in one another and `set()` outside a transaction.
2. Unread counts, reactions and receipts in `BufferMerge`.
3. The legacy adapter's atomic callbacks.
