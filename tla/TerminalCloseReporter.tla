------------------------ MODULE TerminalCloseReporter ------------------------
(***************************************************************************)
(* The reporter of the terminal `connection.update { close }`              *)
(* (src/src/Socket/terminal-close-reporter.ts).  A socket has one terminal *)
(* generation: the first claim wins.  reportAfter() publishes when the     *)
(* teardown it was given settles, or when the watchdog fires first;        *)
(* reportNow() publishes at once.                                          *)
(*                                                                         *)
(* Module SocketLifecycle supplies the teardown and the rest of a socket.  *)
(***************************************************************************)
EXTENDS Naturals

VARIABLES
  claim,      \* who claimed the close: nobody, reportAfter() or reportNow()
  watchdog,   \* the 60 s timer that bounds how long the publish may wait
  awaiting,   \* the teardown handed to reportAfter() has not settled
  published,  \* publishedPromise: none, pending, resolved
  deliveries  \* how many times `publish` was invoked

reporterVars == <<claim, watchdog, awaiting, published, deliveries>>

ReporterTypeOK ==
  /\ claim \in {"none", "after", "now"}
  /\ watchdog \in {"off", "armed", "fired", "cancelled"}
  /\ awaiting \in BOOLEAN
  /\ published \in {"none", "pending", "resolved"}
  /\ deliveries \in Nat

ReporterInit ==
  /\ claim = "none"
  /\ watchdog = "off"
  /\ awaiting = FALSE
  /\ published = "none"
  /\ deliveries = 0

(* Claimed, not delivered: logout() relies on the difference. *)
HasReported == claim # "none"

(* A second report of either kind is ignored entirely. *)
ReportNow ==
  IF HasReported
  THEN UNCHANGED reporterVars
  ELSE /\ claim' = "now"
       /\ published' = "resolved"
       /\ deliveries' = deliveries + 1
       /\ UNCHANGED <<watchdog, awaiting>>

(* Mutant: the watchdog is not armed, so a hung teardown loses the close. *)
BugReportWithoutWatchdog ==
  IF HasReported
  THEN UNCHANGED reporterVars
  ELSE /\ claim' = "after"
       /\ awaiting' = TRUE
       /\ published' = "pending"
       /\ UNCHANGED <<watchdog, deliveries>>

(* reportAfter() up to and including the call of teardown(). *)
ReportAfter ==
  IF HasReported
  THEN UNCHANGED reporterVars
  ELSE /\ claim' = "after"
       /\ watchdog' = "armed"
       /\ awaiting' = TRUE
       /\ published' = "pending"
       /\ UNCHANGED deliveries

(* Mutant: watchdog and teardown each publish. *)
BugPublishOnce == published' = "resolved" /\ deliveries' = deliveries + 1

(* makeOnce: one publish, then the waiters of published() resume.  A       *)
(* listener that throws is contained, so both outcomes are this step.      *)
PublishOnce ==
  IF published = "pending"
  THEN published' = "resolved" /\ deliveries' = deliveries + 1
  ELSE UNCHANGED <<published, deliveries>>

WatchdogFires ==
  /\ watchdog = "armed"
  /\ watchdog' = "fired"
  /\ PublishOnce
  /\ UNCHANGED <<claim, awaiting>>

(* finish(): the teardown settled, either way.  The caller says when. *)
ReportFinishes ==
  /\ awaiting
  /\ awaiting' = FALSE
  /\ watchdog' = IF watchdog = "armed" THEN "cancelled" ELSE watchdog
  /\ PublishOnce
  /\ UNCHANGED claim

ReporterNext == ReportNow \/ ReportAfter \/ WatchdogFires \/ ReportFinishes

ReporterSpec == ReporterInit /\ [][ReporterNext]_reporterVars

-----------------------------------------------------------------------------
(* Every listener sees at most one terminal close for a socket, although   *)
(* the dispatcher, the run-completion observer, a failed init() and every  *)
(* logout() may each report one, and watchdog and teardown race to publish *)
(* (terminal-close-reporter.ts, header).                                   *)
AtMostOneClose == deliveries <= 1
=============================================================================
