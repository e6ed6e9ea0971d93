------------------------------- MODULE RawNodes -------------------------------
(***************************************************************************)
(* Raw stanzas for the listeners of sock.ws                                *)
(* (src/src/Compatibility/websocket-client.ts) and for the callers of      *)
(* waitForMessage() (src/src/Compatibility/tagged-message-waiter.ts).  The *)
(* engine forwards stanzas only while a flag is set, which the wrapper     *)
(* moves when the first raw listener comes and the last one goes.          *)
(*                                                                         *)
(* An emission is synchronous: one step with whatever its listeners do.    *)
(* The emissions of one stanza are steps of their own, which allows more   *)
(* than the code.  A waiter waits for a tag of its own, and its `error`    *)
(* listener comes and goes with the one for the tag.                       *)
(***************************************************************************)
CONSTANT Waiters   \* callers of waitForMessage()

VARIABLES
  client,     \* none, adopted, running (init() has replayed the flag), released
  forwarding, \* the engine's flag
  listeners,  \* raw listeners attached, by owner
  waiter      \* per caller: idle, timed, untimed (no timeout), settled

rawVars == <<client, forwarding, listeners, waiter>>

(* The user's, for callback patterns: attached with on() and with once().  *)
Users == {"on", "once"}

RawTypeOK ==
  /\ client \in {"none", "adopted", "running", "released"}
  /\ forwarding \in BOOLEAN
  /\ listeners \subseteq Waiters \cup Users
  /\ waiter \in [Waiters -> {"idle", "timed", "untimed", "settled"}]

RawInit ==
  /\ client = "none" /\ forwarding = FALSE
  /\ listeners = {}
  /\ waiter = [w \in Waiters |-> "idle"]

Waiting(w) == waiter[w] \in {"timed", "untimed"}
Settled(ws) == [w \in Waiters |-> IF w \in ws /\ Waiting(w) THEN "settled" ELSE waiter[w]]

-----------------------------------------------------------------------------
(* mutateListeners(): the outermost change compares before and after, and  *)
(* tells the client that getClient() finds.                                *)
Mutates(after) ==
  /\ listeners' = after
  /\ forwarding' = IF client \in {"adopted", "running"} /\ (after = {}) # (listeners = {})
                   THEN after # {} ELSE forwarding

(* on(), once(), off(), removeAllListeners() *)
UserMutates ==
  /\ \E after \in {listeners \cup {u} : u \in Users} \cup {listeners \ {u} : u \in Users} \cup {{}} :
       Mutates(after)
  /\ UNCHANGED <<client, waiter>>

(* Mutant: an emission does not look at the listeners it leaves. *)
BugEmissionEnds(after) == listeners' = after /\ UNCHANGED forwarding

(* emit() is itself a mutation: once() listeners go with it. *)
EmissionEnds(after) == Mutates(after)

(* A callback pattern: the user's listeners may change theirs, drop all,   *)
(* and wait for messages.                                                  *)
EmitCallback ==
  /\ client = "running" /\ forwarding
  /\ listeners \cap Users # {}
  /\ \E users \in SUBSET Users, calling \in SUBSET {w \in Waiters : waiter[w] = "idle"},
        kept \in {listeners \cap Waiters, {}} :
       /\ EmissionEnds(kept \cup users \cup calling)
       /\ waiter' = [w \in Waiters |-> IF w \in calling THEN "timed" ELSE waiter[w]]
  /\ UNCHANGED client

EmitTag(w) ==
  /\ client = "running" /\ forwarding
  /\ w \in listeners
  /\ waiter' = Settled({w})
  /\ EmissionEnds(listeners)
  /\ UNCHANGED client

(* connect() of the wrapper fails: `error` rejects whoever waits. *)
ConnectFails ==
  /\ client \in {"adopted", "running"}
  /\ waiter' = Settled(listeners)
  /\ UNCHANGED <<client, forwarding, listeners>>

-----------------------------------------------------------------------------
(* waitForMessage() *)

CallWaiter(w, kind) ==
  /\ waiter[w] = "idle"
  /\ Mutates(listeners \cup {w})
  /\ waiter' = [waiter EXCEPT ![w] = kind]
  /\ UNCHANGED client

(* Mutant: no timer is set. *)
BugTimesOut(w) == FALSE

TimesOut(w) ==
  /\ waiter[w] = "timed"
  /\ waiter' = Settled({w})
  /\ UNCHANGED <<client, forwarding, listeners>>

(* The `finally`: the timer is cleared, the listeners go. *)
WaiterEnds(w) ==
  /\ waiter[w] = "settled"
  /\ Mutates(listeners \ {w})
  /\ waiter' = [waiter EXCEPT ![w] = "idle"]
  /\ UNCHANGED client

-----------------------------------------------------------------------------
(* init() *)

Adopts ==
  /\ client = "none"
  /\ client' = "adopted"
  /\ UNCHANGED <<forwarding, listeners, waiter>>

(* Mutant: listeners that came before the client are forgotten. *)
BugReplaysForwarding ==
  /\ client = "adopted" /\ client' = "running"
  /\ UNCHANGED <<forwarding, listeners, waiter>>

(* Listeners may be older than the client. *)
ReplaysForwarding ==
  /\ client = "adopted" /\ client' = "running"
  /\ forwarding' = (forwarding \/ listeners # {})
  /\ UNCHANGED <<listeners, waiter>>

ClientReleased ==
  /\ client' = "released"
  /\ UNCHANGED <<forwarding, listeners, waiter>>

RawNext ==
  \/ UserMutates \/ EmitCallback \/ ConnectFails
  \/ \E w \in Waiters :
       \/ EmitTag(w) \/ TimesOut(w) \/ WaiterEnds(w)
       \/ \E kind \in {"timed", "untimed"} : CallWaiter(w, kind)
  \/ Adopts \/ ReplaysForwarding \/ ClientReleased

(* Timers fire and settled promises resume; no stanza has to come. *)
RawFairness == \A w \in Waiters : WF_rawVars(TimesOut(w)) /\ WF_rawVars(WaiterEnds(w))

RawSpec == RawInit /\ [][RawNext]_rawVars /\ RawFairness

-----------------------------------------------------------------------------
(* Whenever init() has run and the client lives, the engine forwards raw   *)
(* stanzas if and only if somebody listens: whatever came before the       *)
(* client, whatever an emission's listeners did, and however a waiter      *)
(* ended (websocket-client.ts, mutateListeners; core.ts, init).            *)
ForwardingFollowsListeners == client = "running" => forwarding = (listeners # {})

(* A waiter with a timeout is answered, also when its listeners are taken  *)
(* away or the socket is gone (tagged-message-waiter.ts).                  *)
WaitersSettle == \A w \in Waiters : waiter[w] = "timed" ~> waiter[w] = "idle"
=============================================================================
