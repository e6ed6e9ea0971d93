---------------------------- MODULE IdentityChange ----------------------------
(***************************************************************************)
(* The standalone handler of identity notifications                        *)
(* (src/src/Compatibility/public-api/identity-change-handler.ts), for the  *)
(* notifications of one contact: each is debounced by a mark in a cache,   *)
(* then asks whether a session exists and has it refreshed.  Calls overlap *)
(* at both awaits, and the mark may expire at any moment.                  *)
(***************************************************************************)
EXTENDS Naturals

CONSTANTS
  Notices,    \* notifications with an identity node, from the contact's phone
  MaxWindows  \* bound: times the mark expires

ASSUME IdentityAssumption == MaxWindows \in Nat

VARIABLES
  marked,    \* the contact is in the debounce cache
  window,    \* history: how often its mark has expired
  notice,    \* per notification: where its handler stands
  admittedIn \* history: per notification the window it was admitted in

identityVars == <<marked, window, notice, admittedIn>>

Answers == {"debounced", "rejected", "skipped_no_session", "skipped_offline",
            "session_refreshed", "session_refresh_failed"}

IdentityTypeOK ==
  /\ marked \in BOOLEAN
  /\ window \in 0..MaxWindows
  /\ notice \in [Notices -> {"none", "validating", "asserting"} \cup Answers]
  /\ admittedIn \in [Notices -> 0..MaxWindows]

IdentityInit ==
  /\ marked = FALSE
  /\ window = 0
  /\ notice = [n \in Notices |-> "none"]
  /\ admittedIn = [n \in Notices |-> 0]

Proceeds(n, to) == notice' = [notice EXCEPT ![n] = to]

-----------------------------------------------------------------------------
IsDebounced(n) ==
  /\ notice[n] = "none"
  /\ marked
  /\ Proceeds(n, "debounced")
  /\ UNCHANGED <<marked, window, admittedIn>>

(* Mutant: the mark is set when the session has been validated. *)
BugAdmits(n) ==
  /\ notice[n] = "none"
  /\ ~marked
  /\ admittedIn' = [admittedIn EXCEPT ![n] = window]
  /\ Proceeds(n, "validating")
  /\ UNCHANGED <<marked, window>>

(* The mark is tested and set in one turn, before the first await. *)
Admits(n) ==
  /\ notice[n] = "none"
  /\ ~marked
  /\ marked' = TRUE
  /\ admittedIn' = [admittedIn EXCEPT ![n] = window]
  /\ Proceeds(n, "validating")
  /\ UNCHANGED window

(* validateSession() settles; a rejection leaves the handler. *)
Validated(n, answer) ==
  /\ notice[n] = "validating"
  /\ answer \in {"rejected", "skipped_no_session", "skipped_offline", "asserting"}
  /\ Proceeds(n, answer)
  /\ UNCHANGED <<marked, window, admittedIn>>

(* assertSessions() settles; its rejection is an answer. *)
Asserted(n, answer) ==
  /\ notice[n] = "asserting"
  /\ answer \in {"session_refreshed", "session_refresh_failed"}
  /\ Proceeds(n, answer)
  /\ UNCHANGED <<marked, window, admittedIn>>

(* The cache's time to live. *)
MarkExpires ==
  /\ marked
  /\ window < MaxWindows
  /\ marked' = FALSE
  /\ window' = window + 1
  /\ UNCHANGED <<notice, admittedIn>>

IdentityNext ==
  \/ \E n \in Notices :
       \/ IsDebounced(n)
       \/ Admits(n)
       \/ \E answer \in Answers \cup {"asserting"} : Validated(n, answer) \/ Asserted(n, answer)
  \/ MarkExpires

IdentitySpec == IdentityInit /\ [][IdentityNext]_identityVars

-----------------------------------------------------------------------------
(* However the handlers of a contact's notifications overlap, at most one  *)
(* of them is admitted while a mark lasts, so that a session is asked for  *)
(* and refreshed once (identity-change-handler.ts, debounceCache).         *)
OneRefreshPerMark ==
  \A n, other \in Notices :
    /\ n # other
    /\ {notice[n], notice[other]} \cap {"none", "debounced"} = {}
    => admittedIn[n] # admittedIn[other]
=============================================================================
