-------------------------- MODULE ClientOwnerProofs --------------------------
(***************************************************************************)
(* Safety of the client owner, for every set of clients.  The invariants   *)
(* TLC checks are not inductive: that no client is released twice needs    *)
(* "a held client's release has not started", and that a settled close has *)
(* released everything needs "a release in flight is tracked, or it is the *)
(* release of the captured client".                                        *)
(***************************************************************************)
EXTENDS ClientOwner, TLAPS

(* The union and the close move together: nothing is closing before        *)
(* close(), and teardown is over once the owner is closed.                 *)
PhaseMatchesCloser ==
  /\ phase \in {"starting", "running"} <=> closer = "idle"
  /\ phase = "closing" <=> closer \in {"scheduled", "teardown"}
  /\ done \in {"resolved", "rejected"} <=> closer = "settled"

(* Which client each phase carries. *)
HeldMatchesPhase ==
  /\ phase \in {"starting", "closed"} => held = NoClient
  /\ phase = "running" => held # NoClient
  /\ phase = "closing" => held = captured
  /\ closer = "idle" => captured = NoClient
  /\ held # NoClient => held \in adopted
  /\ captured # NoClient => captured \in adopted

(* The release of a held client has not started, nor that of one nobody    *)
(* has seen, and a count above zero means that it has.                     *)
ReleasesMatch ==
  /\ held # NoClient => releasing[held] = "none"
  /\ \A c \in Clients : c \notin offered => releasing[c] = "none"
  /\ \A c \in Clients : releaseCalls[c] = IF releasing[c] = "none" THEN 0 ELSE 1

(* A release in flight is tracked, or runClose() itself awaits it. *)
RunningIsAwaited ==
  /\ \A c \in Clients : releasing[c] = "running" => c \in tracked \/ c = captured
  /\ closer = "release" => captured # NoClient
  /\ closer \in {"drain", "settled"} =>
       captured = NoClient \/ releasing[captured] = "finished"
  /\ closer = "settled" => \A c \in adopted : releasing[c] = "finished"

OwnerIInv ==
  /\ TypeOK
  /\ PhaseMatchesCloser
  /\ HeldMatchesPhase
  /\ ReleasesMatch
  /\ NeverOwnerless
  /\ RunningIsAwaited

-----------------------------------------------------------------------------
(* A fresh owner satisfies the invariant. *)
LEMMA InitOwnerIInv == Init => OwnerIInv
<1> SUFFICES ASSUME Init PROVE OwnerIInv
  OBVIOUS
<1> USE DEF Init
<1>1. TypeOK
  BY DEF TypeOK
<1>2. PhaseMatchesCloser
  BY DEF PhaseMatchesCloser
<1>3. HeldMatchesPhase
  BY DEF HeldMatchesPhase
<1>4. ReleasesMatch /\ NeverOwnerless
  BY DEF ReleasesMatch, NeverOwnerless
<1>5. RunningIsAwaited
  BY DEF RunningIsAwaited
<1> QED
  BY <1>1, <1>2, <1>3, <1>4, <1>5 DEF OwnerIInv

(* Every step keeps the invariant. *)
LEMMA NextOwnerIInv == OwnerIInv /\ [Next]_vars => OwnerIInv'
<1> SUFFICES ASSUME OwnerIInv, [Next]_vars PROVE OwnerIInv'
  OBVIOUS
<1> USE NoClientAssumption
           DEF OwnerIInv, TypeOK, PhaseMatchesCloser, HeldMatchesPhase, ReleasesMatch,
               NeverOwnerless, RunningIsAwaited
<1>1. ASSUME NEW c \in Clients, Adopt(c) PROVE OwnerIInv'
  <2>1. CASE AdoptPublishes(c)
    BY <1>1, <2>1 DEF Adopt, AdoptPublishes, NoRelease
  <2>2. CASE AdoptRefuses(c)
    BY <1>1, <2>2 DEF Adopt, AdoptRefuses, TrackRelease, CallRelease
  <2> QED
    BY <1>1, <2>1, <2>2 DEF Adopt
<1>2. CASE Close
  BY <1>2 DEF Close, IsClosing, Peek, NoRelease
<1>3. CASE RunClose
  BY <1>3 DEF RunClose, NoRelease
<1>4. ASSUME NEW ok \in BOOLEAN, TeardownSettles(ok) PROVE OwnerIInv'
  BY <1>4 DEF TeardownSettles, CallRelease, NoRelease
<1>5. ASSUME NEW c \in Clients, ReleaseSettles(c) PROVE OwnerIInv'
  BY <1>5 DEF ReleaseSettles
<1>6. CASE CloseReleased
  BY <1>6 DEF CloseReleased, NoRelease
<1>7. CASE CloseSettles
  BY <1>7 DEF CloseSettles, NoRelease
<1>8. CASE Discard
  BY <1>8 DEF Discard, TrackRelease, CallRelease
<1>9. CASE UNCHANGED vars
  BY <1>9 DEF vars
<1> QED
  BY <1>1, <1>2, <1>3, <1>4, <1>5, <1>6, <1>7, <1>8, <1>9 DEF Next

THEOREM OwnerInvariance == Spec => []OwnerIInv
<1>1. Init => OwnerIInv
  BY InitOwnerIInv
<1>2. OwnerIInv /\ [Next]_vars => OwnerIInv'
  BY NextOwnerIInv
<1> QED
  BY <1>1, <1>2, PTL DEF Spec

(* The owner's variables keep their types. *)
THEOREM OwnerTypeCorrect == Spec => []TypeOK
<1>1. OwnerIInv => TypeOK
  BY DEF OwnerIInv
<1> QED
  BY <1>1, OwnerInvariance, PTL

LEMMA OwnerReleases == OwnerIInv => ReleasedExactlyOnce
<1>1. ASSUME OwnerIInv, NEW c \in Clients PROVE releaseCalls[c] <= 1
  <2>1. releaseCalls[c] = 0 \/ releaseCalls[c] = 1
    BY <1>1 DEF OwnerIInv, ReleasesMatch
  <2> QED
    BY <2>1
<1> QED
  BY <1>1 DEF OwnerIInv, ReleasedExactlyOnce, ReleasedAtMostOnce

LEMMA OwnerSettles == OwnerIInv => SettledMeansReleased
BY DEF OwnerIInv, PhaseMatchesCloser, RunningIsAwaited, SettledMeansReleased

(* No client is released twice, whatever the order of adopt(), discard()   *)
(* and close(): a release is only ever started for a client that is held   *)
(* or was never seen, and neither has one.                                 *)
THEOREM NoDoubleRelease == Spec => []ReleasedAtMostOnce
BY OwnerReleases, OwnerInvariance, PTL DEF ReleasedExactlyOnce

(* Every client handed to adopt() is held or being released. *)
THEOREM NoOwnerlessClient == Spec => []NeverOwnerless
BY OwnerReleases, OwnerInvariance, PTL DEF ReleasedExactlyOnce

(* Both together: every client handed to adopt() is released once and only *)
(* once, by adopt() itself, discard() or close().                          *)
THEOREM ExactlyOneRelease == Spec => []ReleasedExactlyOnce
BY OwnerReleases, OwnerInvariance, PTL

(* A settled close() has released every client the owner ever published. *)
THEOREM SettledCloseReleases == Spec => []SettledMeansReleased
BY OwnerSettles, OwnerInvariance, PTL
=============================================================================
