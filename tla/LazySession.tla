----------------------------- MODULE LazySession -----------------------------
(***************************************************************************)
(* The active Sessions a Core has open (worker/worker_tui_session.ts):     *)
(* LazyWorkerSession starts its Worker generation when a task or a change  *)
(* first needs it, lets a cancellation abort that start, and closes what   *)
(* it has started.  The coordinator behind it (ExecutionCoordinator) is    *)
(* seen by its answers only.  CoreService composes these actions.          *)
(***************************************************************************)
EXTENDS Naturals, FiniteSets

CONSTANT Services

VARIABLES
  host,      \* the fields host and starting: none, starting, failed, up, closed
  prepared,  \* preparedStartup of the last start
  aborted,   \* the signal of startupAbort
  pending,   \* pendingAdmission: where admit awaits, or how the last one ended
  cancelled, \* its flag; of a turn, whether the user cancelled it
  told,      \* whether the coordinator knows of that
  watchdog,  \* pendingAdmission.watchdog is armed
  turn,      \* the coordinator runs a turn
  close      \* where close awaits

sessionVars == <<host, prepared, aborted, pending, cancelled, told, watchdog, turn, close>>

StartVars == <<host, prepared, aborted>>
AdmissionVars == <<pending, cancelled, told, watchdog>>

SessionInit ==
  /\ host = [s \in Services |-> "none"] /\ pending = [s \in Services |-> "none"]
  /\ close = [s \in Services |-> "open"]
  /\ prepared = [s \in Services |-> FALSE] /\ aborted = [s \in Services |-> FALSE]
  /\ cancelled = [s \in Services |-> FALSE] /\ told = [s \in Services |-> FALSE]
  /\ watchdog = [s \in Services |-> FALSE] /\ turn = [s \in Services |-> FALSE]

SessionTypeOK ==
  \A s \in Services :
    /\ host[s] \in {"none", "starting", "failed", "up", "closed"}
    /\ pending[s] \in {"none", "start", "record", "seal", "host", "accepted", "rejected"}
    /\ close[s] \in {"open", "start", "host", "data", "done", "failed"}
    /\ prepared[s] \in BOOLEAN /\ aborted[s] \in BOOLEAN /\ cancelled[s] \in BOOLEAN
    /\ told[s] \in BOOLEAN /\ watchdog[s] \in BOOLEAN /\ turn[s] \in BOOLEAN

Admitting(s) == pending[s] \in {"start", "record", "seal", "host"}

\* ensureStarted: a start under way is shared, one that failed is kept.
EnsureStarted(s) ==
  /\ host' = [host EXCEPT ![s] = IF @ = "none" THEN "starting" ELSE @]
  /\ UNCHANGED <<prepared, aborted>>

\* admit ends without a turn: the finally block drops the reservation and its watchdog.
AdmissionEnds(s, answer) ==
  /\ pending' = [pending EXCEPT ![s] = answer]
  /\ watchdog' = [watchdog EXCEPT ![s] = FALSE]
  /\ cancelled' = [cancelled EXCEPT ![s] = FALSE]

\* admit up to its first await.
Admit(s) ==
  /\ close[s] = "open" /\ ~Admitting(s)
  /\ EnsureStarted(s)
  /\ pending' = [pending EXCEPT ![s] = CASE host[s] = "up" -> "host"
                                         [] host[s] = "failed" -> "rejected"
                                         [] OTHER -> "start"]
  /\ cancelled' = [cancelled EXCEPT ![s] = FALSE]
  /\ told' = [told EXCEPT ![s] = FALSE]
  /\ UNCHANGED <<watchdog, turn, close>>

-----------------------------------------------------------------------------
(* The start of the Worker.                                                *)

StartupPrepared(s) ==
  /\ host[s] = "starting" /\ ~prepared[s]
  /\ prepared' = [prepared EXCEPT ![s] = TRUE]
  /\ UNCHANGED <<host, aborted, AdmissionVars, turn, close>>

\* The generation is ready: the admission that waits for it goes on to the coordinator
\* with the cancellation it has had, and a close that waits closes it.
StartSucceeds(s) ==
  /\ host[s] = "starting" /\ ~aborted[s]
  /\ host' = [host EXCEPT ![s] = "up"]
  /\ IF pending[s] = "start"
     THEN /\ pending' = [pending EXCEPT ![s] = "host"]
          /\ told' = [told EXCEPT ![s] = cancelled[s]]
     ELSE UNCHANGED <<pending, told>>
  /\ close' = [close EXCEPT ![s] = IF @ = "start" THEN "host" ELSE @]
  /\ prepared' = [prepared EXCEPT ![s] = FALSE]
  /\ UNCHANGED <<aborted, cancelled, watchdog, turn>>

\* It fails: only an aborted start is forgotten.  A cancelled admission that knows the
\* configuration of the Worker is recorded in Data all the same.
StartFails(s) ==
  /\ host[s] = "starting"
  /\ host' = [host EXCEPT ![s] = IF aborted[s] THEN "none" ELSE "failed"]
  /\ \/ /\ pending[s] = "start" /\ cancelled[s] /\ prepared[s]
        /\ pending' = [pending EXCEPT ![s] = "record"]
        /\ UNCHANGED <<watchdog, cancelled>>
     \/ /\ pending[s] = "start" /\ ~(cancelled[s] /\ prepared[s])
        /\ AdmissionEnds(s, "rejected")
     \/ /\ pending[s] # "start"
        /\ UNCHANGED <<pending, watchdog, cancelled>>
  /\ close' = [close EXCEPT ![s] = IF @ = "start" THEN "data" ELSE @]
  /\ prepared' = [prepared EXCEPT ![s] = FALSE]
  /\ aborted' = [aborted EXCEPT ![s] = FALSE]
  /\ UNCHANGED <<told, turn>>

\* executionAdmitStartup and sealGeneration of an admission cancelled during the start.
Recorded(s, ok) ==
  /\ pending[s] \in {"record", "seal"}
  /\ \/ /\ ok /\ pending[s] = "record"
        /\ pending' = [pending EXCEPT ![s] = "seal"]
        /\ UNCHANGED <<watchdog, cancelled>>
     \/ /\ ok /\ pending[s] = "seal"
        /\ AdmissionEnds(s, "accepted")
     \/ /\ ~ok
        /\ AdmissionEnds(s, "rejected")
  /\ UNCHANGED <<StartVars, told, turn, close>>

\* The coordinator answers admit; the turn keeps the cancellation of its admission.
HostAdmits(s, ok) ==
  /\ pending[s] = "host"
  /\ IF ok
     THEN /\ pending' = [pending EXCEPT ![s] = "accepted"]
          /\ watchdog' = [watchdog EXCEPT ![s] = FALSE]
          /\ UNCHANGED cancelled
     ELSE AdmissionEnds(s, "rejected")
  /\ turn' = [turn EXCEPT ![s] = ok]
  /\ UNCHANGED <<StartVars, told, close>>

TurnEnds(s) ==
  /\ turn[s]
  /\ turn' = [turn EXCEPT ![s] = FALSE]
  /\ pending' = [pending EXCEPT ![s] = "none"]
  /\ cancelled' = [cancelled EXCEPT ![s] = FALSE]
  /\ told' = [told EXCEPT ![s] = FALSE]
  /\ UNCHANGED <<StartVars, watchdog, close>>

-----------------------------------------------------------------------------
(* Cancellation and close.                                                 *)

\* cancelActiveTurn, where there is something to cancel that is not cancelled yet.
CancelActiveTurn(s) ==
  /\ Admitting(s) \/ turn[s]
  /\ ~cancelled[s]
  /\ cancelled' = [cancelled EXCEPT ![s] = TRUE]
  /\ told' = [told EXCEPT ![s] = host[s] = "up"]
  /\ watchdog' = [watchdog EXCEPT ![s] = pending[s] = "start"]
  /\ UNCHANGED <<StartVars, pending, turn, close>>

MutantWatchdogFires(s) ==
  /\ watchdog[s]
  /\ watchdog' = [watchdog EXCEPT ![s] = FALSE]
  /\ aborted' = [aborted EXCEPT ![s] = @ \/ (host[s] = "starting" /\ prepared[s])]
  /\ UNCHANGED <<host, prepared, pending, cancelled, told, turn, close>>

\* The grace of a cancelled admission ends: the start is aborted, if it still is one.
WatchdogFires(s) ==
  /\ watchdog[s]
  /\ watchdog' = [watchdog EXCEPT ![s] = FALSE]
  /\ aborted' = [aborted EXCEPT ![s] = @ \/ host[s] = "starting"]
  /\ UNCHANGED <<host, prepared, pending, cancelled, told, turn, close>>

\* close up to its await.
Close(s) ==
  /\ close[s] = "open"
  /\ close' = [close EXCEPT ![s] = CASE host[s] = "up" -> "host"
                                     [] host[s] = "starting" -> "start"
                                     [] OTHER -> "data"]
  /\ UNCHANGED <<StartVars, AdmissionVars, turn>>

\* The coordinator is closed, its turn with it.
HostCloses(s) ==
  /\ close[s] = "host"
  /\ close' = [close EXCEPT ![s] = "data"]
  /\ host' = [host EXCEPT ![s] = "closed"]
  /\ turn' = [turn EXCEPT ![s] = FALSE]
  /\ UNCHANGED <<prepared, aborted, AdmissionVars>>

\* closeSession of Data and the writes of the task service end the close.
Closed(s, ok) ==
  /\ close[s] = "data"
  /\ close' = [close EXCEPT ![s] = IF ok THEN "done" ELSE "failed"]
  /\ UNCHANGED <<StartVars, AdmissionVars, turn>>

=============================================================================
