----------------------------- MODULE ClientOwner -----------------------------
(***************************************************************************)
(* The owner of the bridge client (src/src/Socket/bridge-client-owner.ts): *)
(* one discriminated union `state`, the teardown that close() starts once, *)
(* and the releases of clients that adopt() and discard() start outside    *)
(* it.  The owner's two callbacks, `teardown` and `release`, are calls     *)
(* whose outcome the environment chooses here; module SocketLifecycle      *)
(* supplies the real ones and implements this specification.               *)
(*                                                                         *)
(* One action is one run-to-completion segment of JavaScript: what the     *)
(* code does between two awaits.                                           *)
(***************************************************************************)
EXTENDS Naturals

CONSTANTS
  Clients,    \* bridge clients that startup may hand to adopt()
  NoClient    \* "no client": the union's member carries none

ASSUME NoClientAssumption == NoClient \notin Clients

VARIABLES
  phase,        \* state.phase
  held,         \* state.client of a running or closing owner
  closer,       \* how far runClose() has come
  captured,     \* the client close() captured and handed to runClose()
  teardownOk,   \* whether teardown() resolved; FALSE until it does
  done,         \* the promise close() returns
  offered,      \* clients that have been passed to adopt()
  adopted,      \* clients that adopt() published
  releasing,    \* release() per client: not called, in flight, finished
  releaseCalls, \* how many times release() was called per client
  tracked       \* pendingReleases: the clients whose release is tracked

vars == <<phase, held, closer, captured, teardownOk, done, offered, adopted,
          releasing, releaseCalls, tracked>>

TypeOK ==
  /\ phase \in {"starting", "running", "closing", "closed"}
  /\ held \in Clients \cup {NoClient}
  /\ closer \in {"idle", "scheduled", "teardown", "release", "drain", "settled"}
  /\ captured \in Clients \cup {NoClient}
  /\ teardownOk \in BOOLEAN
  /\ done \in {"none", "pending", "resolved", "rejected"}
  /\ offered \subseteq Clients
  /\ adopted \subseteq offered
  /\ releasing \in [Clients -> {"none", "running", "finished"}]
  /\ releaseCalls \in [Clients -> Nat]
  /\ tracked \subseteq Clients

Init ==
  /\ phase = "starting"
  /\ held = NoClient
  /\ closer = "idle"
  /\ captured = NoClient
  /\ teardownOk = FALSE
  /\ done = "none"
  /\ offered = {}
  /\ adopted = {}
  /\ releasing = [c \in Clients |-> "none"]
  /\ releaseCalls = [c \in Clients |-> 0]
  /\ tracked = {}

IsClosing == phase \in {"closing", "closed"}

(* peek(): the client of a running or closing owner. *)
Peek == IF phase \in {"running", "closing"} THEN held ELSE NoClient

(* releaseQuietly(c) up to its first await: release() has been called. *)
CallRelease(c) ==
  /\ releasing' = [releasing EXCEPT ![c] = "running"]
  /\ releaseCalls' = [releaseCalls EXCEPT ![c] = @ + 1]

(* trackRelease(c): the same, joinable through settled(). *)
TrackRelease(c) ==
  /\ CallRelease(c)
  /\ tracked' = tracked \cup {c}

NoRelease == UNCHANGED <<releasing, releaseCalls, tracked>>

(* adopt() in the starting phase publishes the client ... *)
AdoptPublishes(c) ==
  /\ phase = "starting"
  /\ phase' = "running"
  /\ held' = c
  /\ adopted' = adopted \cup {c}
  /\ NoRelease

(* Mutant: the refused client is left to the caller, which has stopped. *)
BugAdoptForgets(c) ==
  /\ phase # "starting"
  /\ UNCHANGED <<phase, held, adopted>>
  /\ NoRelease

(* ... and in every other phase releases it, for nobody else owns it. *)
AdoptRefuses(c) ==
  /\ phase # "starting"
  /\ TrackRelease(c)
  /\ UNCHANGED <<phase, held, adopted>>

Adopt(c) ==
  /\ c \notin offered
  /\ offered' = offered \cup {c}
  /\ AdoptPublishes(c) \/ AdoptRefuses(c)
  /\ UNCHANGED <<closer, captured, teardownOk, done>>

(* The first close(): `closing` is stored, carrying the client, before any *)
(* teardown work runs.  A later close() returns `done` and changes nothing. *)
Close ==
  /\ ~IsClosing
  /\ phase' = "closing"
  /\ captured' = Peek
  /\ held' = Peek
  /\ closer' = "scheduled"
  /\ done' = "pending"
  /\ UNCHANGED <<teardownOk, offered, adopted>>
  /\ NoRelease

(* The microtask close() deferred runClose() to: teardown() is called. *)
RunClose ==
  /\ closer = "scheduled"
  /\ closer' = "teardown"
  /\ UNCHANGED <<phase, held, captured, teardownOk, done, offered, adopted>>
  /\ NoRelease

(* The `finally` of runClose(), whether teardown() resolved or rejected:   *)
(* `closed` is stored and the captured client's release starts.            *)
TeardownSettles(ok) ==
  /\ closer = "teardown"
  /\ phase' = "closed"
  /\ held' = NoClient
  /\ teardownOk' = ok
  /\ IF captured # NoClient
     THEN CallRelease(captured) /\ closer' = "release" /\ UNCHANGED tracked
     ELSE closer' = "drain" /\ NoRelease
  /\ UNCHANGED <<captured, done, offered, adopted>>

(* release(c) settles; releaseQuietly() has swallowed its failure, and a   *)
(* tracked release leaves pendingReleases.                                 *)
ReleaseSettles(c) ==
  /\ releasing[c] = "running"
  /\ releasing' = [releasing EXCEPT ![c] = "finished"]
  /\ tracked' = tracked \ {c}
  /\ UNCHANGED <<phase, held, closer, captured, teardownOk, done, offered,
                 adopted, releaseCalls>>

(* runClose() resumes from `await releaseQuietly(client)`. *)
CloseReleased ==
  /\ closer = "release"
  /\ releasing[captured] = "finished"
  /\ closer' = "drain"
  /\ UNCHANGED <<phase, held, captured, teardownOk, done, offered, adopted>>
  /\ NoRelease

(* Mutant: runClose() does not drain the releases started outside it. *)
BugSettleWithoutDrain ==
  /\ closer = "drain"
  /\ closer' = "settled"
  /\ done' = IF teardownOk THEN "resolved" ELSE "rejected"
  /\ UNCHANGED <<phase, held, captured, teardownOk, offered, adopted>>
  /\ NoRelease

(* drainReleases() finds no pending release and `done` settles the way     *)
(* teardown() did.                                                         *)
CloseSettles ==
  /\ closer = "drain"
  /\ tracked = {}
  /\ closer' = "settled"
  /\ done' = IF teardownOk THEN "resolved" ELSE "rejected"
  /\ UNCHANGED <<phase, held, captured, teardownOk, offered, adopted>>
  /\ NoRelease

(* Mutant: discard() during a close releases the client close() owns. *)
BugDiscardWhileClosing ==
  /\ Peek # NoClient
  /\ phase' = "starting"
  /\ held' = NoClient
  /\ TrackRelease(held)
  /\ UNCHANGED <<closer, captured, teardownOk, done, offered, adopted>>

(* discard() of a running owner: back to `starting`, with the release      *)
(* tracked.  In every other phase it changes nothing: it returns, or joins *)
(* `done` without adopting its failure.                                    *)
Discard ==
  /\ phase = "running"
  /\ phase' = "starting"
  /\ held' = NoClient
  /\ TrackRelease(held)
  /\ UNCHANGED <<closer, captured, teardownOk, done, offered, adopted>>

Next ==
  \/ \E c \in Clients : Adopt(c)
  \/ Close
  \/ RunClose
  \/ \E ok \in BOOLEAN : TeardownSettles(ok)
  \/ \E c \in Clients : ReleaseSettles(c)
  \/ CloseReleased
  \/ CloseSettles
  \/ Discard

(***************************************************************************)
(* Microtasks run, and the two callbacks settle.  Nobody is obliged to     *)
(* call adopt(), close() or discard().                                     *)
(***************************************************************************)
Fairness ==
  /\ WF_vars(RunClose)
  /\ WF_vars(\E ok \in BOOLEAN : TeardownSettles(ok))
  /\ \A c \in Clients : WF_vars(ReleaseSettles(c))
  /\ WF_vars(CloseReleased)
  /\ WF_vars(CloseSettles)

Spec == Init /\ [][Next]_vars

FairSpec == Spec /\ Fairness

-----------------------------------------------------------------------------
(* No client is handed to release() twice, whatever the order of adopt(),  *)
(* discard() and close(): two disconnect/free sequences on one wasm handle *)
(* corrupt the heap (bridge-client-owner.ts, discard()).                   *)
ReleasedAtMostOnce == \A c \in Clients : releaseCalls[c] <= 1

(* No client is ever ownerless: one that was handed to adopt() is held by  *)
(* the owner or its release has been started.  In particular a closed      *)
(* owner, which holds none, has started the release of every client.       *)
NeverOwnerless ==
  \A c \in offered : c = held \/ releasing[c] # "none"

(* Every client handed to adopt() is released once and only once.          *)
ReleasedExactlyOnce == ReleasedAtMostOnce /\ NeverOwnerless

(* When close() settles, resolved or rejected, every client the owner ever *)
(* published has been released completely, including one a discard() was   *)
(* still releasing when close() found no client to capture.                *)
SettledMeansReleased ==
  done \in {"resolved", "rejected"} => \A c \in adopted : releasing[c] = "finished"

(* A started close settles. *)
CloseTerminates == (phase = "closing") ~> (done \in {"resolved", "rejected"})
=============================================================================
