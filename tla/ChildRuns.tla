------------------------------ MODULE ChildRuns ------------------------------
(***************************************************************************)
(* The Host's registry of the child runs of one parent execution           *)
(* (ChildRunRegistry): spawn with its awaits, the messages of a child's    *)
(* Worker, the three ways a run is settled (the Worker's own terminal, the *)
(* seal of a lost or cancelled run, the forced seal after the grace), the  *)
(* finalisation of a settled run, and the cleanup of one run and of all    *)
(* the runs of the parent.                                                 *)
(*                                                                         *)
(* An action is the code between two awaits.  The Data Worker appears by   *)
(* what its requests do (DataSession has them in full), the Agent Worker   *)
(* of a child by the messages it answers.                                  *)
(***************************************************************************)
EXTENDS Integers, Sequences, SequencesExt

CONSTANTS
  Runs,   \* identities of child runs
  Faults  \* what may fail

ASSUME ChildRunsAssumption ==
  Faults \subseteq {"open", "config", "filter", "boot", "admit", "settle", "seal", "error", "stop"}

VARIABLES
  parent,  \* active (activeParents), cleanup (parentCleanups) and the runs it awaits
  run      \* per identity: the ChildRun, where its procedures are, its Worker and its Data

vars == <<parent, run>>

Terminals == {"completed", "failed", "cancelled", "interrupted"}

TypeOK ==
  /\ parent \in [active : BOOLEAN, cleanup : {"none", "waiting", "done", "failed"},
                 awaits : SUBSET Runs]
  /\ \A r \in Runs : LET x == run[r] IN
       /\ x.spawn \in {"idle", "account", "opening", "capacity", "booting", "thrown",
                       "admitting", "answered", "rejected", "local", "ok", "refused"}
       /\ x.worker \in {"none", "booting", "idle", "running", "waiting", "ended", "terminated"}
       /\ x.physical \in {"none", "closing", "cleaning", "swallowed", "facts", "factsFailed",
                          "done", "failed"}
       /\ x.settle \in {"none", "proposal", "failure", "answered", "acknowledged", "error",
                        "done"}
       /\ {x.seal, x.force} \subseteq {"none", "terminating", "calling", "answered", "error",
                                       "finalizing", "done", "failed"}
       /\ x.sealer \in {"none", "failChild", "finishWithoutData"}
       /\ x.final \in {"none", "terminating", "closing", "done"}
       /\ x.clean \in {"none", "admission", "grace", "startup", "settlement", "forced",
                       "finalizing", "refused", "end", "done", "failed"}
       /\ {x.terminal, x.collected} \subseteq Terminals \cup {"none"}
       /\ x.session \in {"none", "open", "closed"}
       /\ x.exec \in Terminals \cup {"none", "admitted"}
       /\ x.unread \subseteq {"turn_settled", "closed", "error"}
       /\ {x.pending, x.queued, x.written} \subseteq Seq(1 .. x.next - 1)
       /\ {x.addressable, x.admitted, x.admissionError, x.executionRefused, x.attempted,
           x.forced, x.started, x.portClosed, x.heard, x.cancelRequested, x.cancelRecorded, x.cancelSent,
           x.durable} \subseteq BOOLEAN

Init ==
  /\ parent = [active |-> TRUE, cleanup |-> "none", awaits |-> {}]
  /\ run = [r \in Runs |->
       [spawn |-> "idle", addressable |-> TRUE, admitted |-> FALSE, admissionError |-> FALSE,
        executionRefused |-> FALSE, attempted |-> FALSE, forced |-> FALSE, started |-> FALSE,
        cancelRequested |-> FALSE, cancelRecorded |-> FALSE, cancelSent |-> FALSE,
        terminal |-> "none", durable |-> FALSE,
        settle |-> "none", seal |-> "none", sealer |-> "none", force |-> "none",
        final |-> "none", clean |-> "none", physical |-> "none",
        worker |-> "none", portClosed |-> FALSE, heard |-> FALSE,
        toWorker |-> <<>>, toHost |-> <<>>, unread |-> {},
        session |-> "none", exec |-> "none",
        next |-> 1, pending |-> <<>>, queued |-> <<>>, written |-> <<>>, cleanupFact |-> 0,
        collected |-> "none"]]

Settled(x) == x.final = "done"
StartupComplete(x) == x.spawn \in {"ok", "refused"}
Registered(x) == x.spawn \notin {"idle", "account"} /\ ~x.admissionError
\* Mutant: the spawn does not look again after its awaits.
MutantToStop(x) == x.spawn = "opening" /\ x.cancelRequested

ToStop(x) == x.cancelRequested \/ ~parent.active

\* The run's record changes, nothing else.
Becomes(r, x) == run' = [run EXCEPT ![r] = x] /\ UNCHANGED parent

-----------------------------------------------------------------------------
(* What the methods do to a run, up to their first await.                  *)

\* A fact takes its number when it is prepared; before the admission it is held back.
RecordExecutionControl(x) ==
  [x EXCEPT !.next = @ + 1,
            !.pending = IF x.admitted THEN @ ELSE Append(@, x.next),
            !.queued = IF x.admitted THEN Append(@, x.next) ELSE @]

\* postMessage to a terminated Worker is dropped without an error.
Send(x, message) ==
  IF x.worker \in {"ended", "terminated"} THEN x
  ELSE [x EXCEPT !.toWorker = Append(@, message)]

\* supervisor.terminate: nothing more is heard, and whoever waits is rejected.
Terminated(x) ==
  [x EXCEPT !.worker = "terminated", !.toWorker = <<>>, !.toHost = <<>>,
            !.spawn = IF @ = "booting" THEN "thrown" ELSE @,
            !.settle = IF @ = "acknowledged" THEN "error" ELSE @]

\* physicalCleanup happens once, gracefully or not as its first caller asks.
TerminateWorker(x, graceful) ==
  IF x.physical # "none" \/ x.worker = "none" THEN x
  ELSE IF graceful /\ x.started THEN [Send(x, "close") EXCEPT !.physical = "closing"]
  ELSE [Terminated(x) EXCEPT !.physical = "cleaning"]

WorkerIsOver(x) == x.physical = "done" \/ x.worker = "none"

CompleteLocal(x, terminal, durable, graceful) ==
  LET y == IF x.terminal # "none" THEN x
           ELSE [x EXCEPT !.terminal = terminal, !.durable = durable]
  IN IF y.final # "none" THEN y
     ELSE [TerminateWorker(y, graceful) EXCEPT !.final = "terminating"]

\* Mutant: the answer to a forced seal is taken for an interruption.
MutantCompleteFromData(x) ==
  IF x.terminal # "none" THEN x
  ELSE CompleteLocal(x, IF x.cancelRequested THEN "interrupted" ELSE x.exec, TRUE, TRUE)

\* The retained terminal of the child's execution becomes the run's.
CompleteFromData(x) ==
  IF x.terminal # "none" THEN x ELSE CompleteLocal(x, x.exec, TRUE, TRUE)

SettleUnstartedTerminal(x, terminal) ==
  IF x.attempted \/ x.terminal # "none" THEN x
  ELSE CompleteLocal([x EXCEPT !.attempted = TRUE], terminal, TRUE, FALSE)

BeginSeal(x, sealer) ==
  [TerminateWorker([x EXCEPT !.attempted = TRUE], FALSE)
     EXCEPT !.seal = "terminating", !.sealer = sealer]

FinishWithoutData(x, terminal) ==
  IF x.terminal # "none" \/ x.attempted THEN x
  ELSE IF x.admitted THEN BeginSeal(x, "finishWithoutData")
  ELSE CompleteLocal(x, terminal, TRUE, FALSE)

FailChild(x) ==
  IF x.terminal # "none" \/ x.attempted THEN x ELSE BeginSeal(x, "failChild")

RequestCancellation(x) ==
  LET asked == [x EXCEPT !.cancelRequested = TRUE, !.cancelRecorded = TRUE]
      y == IF x.cancelRecorded THEN asked ELSE RecordExecutionControl(asked)
  IN IF x.terminal # "none" THEN x
     ELSE IF y.cancelSent \/ y.worker = "none" THEN y
     ELSE RecordExecutionControl(Send([y EXCEPT !.cancelSent = TRUE], "cancel"))

\* cleanupRun: joins the cleanup under way.
CleanupRun(x) ==
  IF x.clean # "none" THEN x
  ELSE [RequestCancellation([x EXCEPT !.cancelRequested = TRUE]) EXCEPT !.clean = "admission"]

-----------------------------------------------------------------------------
(* Spawn.                                                                  *)

\* A spawn that names a ChatGPT model looks up the selected account first.
Spawn(r) ==
  /\ run[r].spawn = "idle" /\ parent.active
  /\ \E next \in {"account", "opening"} : Becomes(r, [run[r] EXCEPT !.spawn = next])

\* The run is created after the look-up, whatever became of the parent.
AccountKnown(r) ==
  /\ run[r].spawn = "account"
  /\ Becomes(r, [run[r] EXCEPT !.spawn = "opening"])

SessionOpened(r) ==
  LET x == [run[r] EXCEPT !.session = "open"] IN
  /\ run[r].spawn = "opening"
  /\ Becomes(r, IF ToStop(x)
                THEN [SettleUnstartedTerminal(x, "cancelled") EXCEPT !.spawn = "local"]
                ELSE [x EXCEPT !.worker = "booting", !.spawn = "capacity"])

OpenRefused(r) ==
  /\ run[r].spawn = "opening" /\ "open" \in Faults
  /\ Becomes(r, [run[r] EXCEPT !.spawn = "refused", !.admissionError = TRUE,
                               !.addressable = FALSE])

\* start() registers its waiter only now; a Worker terminated before is not noticed.
CapacityKnown(r) ==
  /\ run[r].spawn = "capacity"
  /\ Becomes(r, [run[r] EXCEPT !.spawn = "booting"])

Started(x) ==
  LET y == [x EXCEPT !.started = TRUE] IN
  IF ToStop(y) THEN [SettleUnstartedTerminal(y, "cancelled") EXCEPT !.spawn = "local"]
  ELSE [y EXCEPT !.spawn = "admitting"]

StartFailed(x, why) ==
  CASE why = "config" -> [CompleteLocal(x, "failed", TRUE, FALSE) EXCEPT !.spawn = "local"]
    [] why = "filter" -> [FinishWithoutData(x, "failed") EXCEPT !.spawn = "ok"]
    [] OTHER ->
         [SettleUnstartedTerminal(x, IF x.cancelRequested THEN "cancelled" ELSE "interrupted")
            EXCEPT !.spawn = "local"]

StartThrown(r) ==
  /\ run[r].spawn = "thrown"
  /\ Becomes(r, StartFailed(run[r], "terminated"))

DataAdmits(r) ==
  /\ run[r].spawn = "admitting"
  /\ \/ Becomes(r, [run[r] EXCEPT !.exec = "admitted", !.spawn = "answered"])
     \/ "admit" \in Faults
        /\ Becomes(r, [run[r] EXCEPT !.spawn = "rejected", !.executionRefused = TRUE])

\* Mutant: the facts held back are dropped.
FlushPendingExecutionControls(x) ==
  [x EXCEPT !.admitted = TRUE, !.queued = @ \o x.pending, !.pending = <<>>]

Admitted(r) ==
  LET x == FlushPendingExecutionControls(run[r]) IN
  /\ run[r].spawn = "answered"
  /\ Becomes(r, IF ToStop(x)
                THEN [FinishWithoutData(RequestCancellation(x), "cancelled")
                        EXCEPT !.spawn = "refused"]
                ELSE [Send(x, "turn") EXCEPT !.spawn = "ok"])

AdmissionRejected(r) ==
  /\ run[r].spawn = "rejected"
  /\ Becomes(r, [FinishWithoutData(run[r], "interrupted") EXCEPT !.spawn = "refused"])

LocalSettled(r) ==
  /\ run[r].spawn = "local" /\ run[r].final \in {"none", "done"}
  /\ Becomes(r, [run[r] EXCEPT !.spawn = "refused"])

-----------------------------------------------------------------------------
(* The child's Worker.                                                     *)

WorkerBoots(r) ==
  /\ run[r].worker = "booting" /\ run[r].spawn = "booting"
  /\ \/ Becomes(r, [run[r] EXCEPT !.worker = "idle", !.toHost = Append(@, "ready")])
     \/ \E why \in {"config", "filter", "boot"} \cap Faults :
          Becomes(r, [run[r] EXCEPT !.worker = "ended", !.toHost = Append(@, why)])

WorkerReceives(r) ==
  LET x == [run[r] EXCEPT !.toWorker = Tail(@)] IN
  /\ run[r].toWorker # <<>> /\ run[r].worker \in {"idle", "running", "waiting"}
  /\ Becomes(r, CASE Head(run[r].toWorker) = "turn" /\ ~x.portClosed ->
                       [x EXCEPT !.worker = "running"]
                  [] Head(run[r].toWorker) = "turn" /\ x.portClosed ->
                       [x EXCEPT !.toHost = Append(@, "error")]
                  [] Head(run[r].toWorker) = "cancel" ->
                       [x EXCEPT !.heard = @ \/ x.worker = "running",
                                 !.toHost = Append(@, "cancel_received")]
                  [] Head(run[r].toWorker) = "ack" ->
                       [x EXCEPT !.worker = "idle", !.toHost = Append(@, "turn_settled")]
                  [] Head(run[r].toWorker) = "close" ->
                       [x EXCEPT !.worker = "ended", !.toHost = Append(@, "closed")])

WorkerFinishes(r) ==
  /\ run[r].worker = "running"
  /\ \/ /\ ~run[r].portClosed
        /\ \E m \in {"proposal", "failure"} :
             Becomes(r, [run[r] EXCEPT !.worker = "waiting", !.toHost = Append(@, m)])
     \/ /\ "error" \in Faults
        /\ Becomes(r, [run[r] EXCEPT !.worker = "idle", !.toHost = Append(@, "error")])

\* An uncaught error closes the Worker's Data port and is reported; the Worker lives on.
WorkerErrs(r) ==
  /\ "error" \in Faults /\ run[r].worker \in {"idle", "running", "waiting"} /\ ~run[r].portClosed
  /\ Becomes(r, [run[r] EXCEPT !.portClosed = TRUE, !.toHost = Append(@, "error")])

SettleChildMessage(x, message) ==
  IF x.terminal # "none" \/ x.attempted \/ ~x.admitted THEN x
  ELSE [x EXCEPT !.attempted = TRUE, !.settle = message]

RouteChildMessage(r) ==
  LET x == [run[r] EXCEPT !.toHost = Tail(@)]
      m == Head(run[r].toHost)
      published == [x EXCEPT !.unread = @ \cup {m}]
  IN /\ run[r].toHost # <<>>
     /\ Becomes(r, CASE m = "ready" -> Started(x)
                     [] m \in {"config", "filter", "boot"} -> StartFailed(x, m)
                     [] m = "cancel_received" -> RecordExecutionControl(x)
                     [] m \in {"proposal", "failure"} -> SettleChildMessage(x, m)
                     [] m \in {"turn_settled", "closed"} -> published
                     [] m = "error" /\ x.admitted -> FailChild(published)
                     [] m = "error" /\ ~x.admitted -> published)

-----------------------------------------------------------------------------
(* Settlement.                                                             *)

DataSettles(r) ==
  /\ run[r].settle \in {"proposal", "failure"}
  /\ \/ /\ run[r].exec = "admitted"
        /\ \E t \in IF run[r].settle = "proposal" THEN {"completed"}
                    ELSE {"failed", "cancelled"} :
             Becomes(r, [run[r] EXCEPT !.exec = t, !.settle = "answered"])
     \/ /\ run[r].exec # "admitted" \/ "settle" \in Faults
        /\ Becomes(r, [run[r] EXCEPT !.settle = "error"])

\* Mutant: the facts are recorded and the message forgotten.
\* sendCommitAcknowledgement: two facts and the message.
Acknowledge(r) ==
  /\ run[r].settle = "answered"
  /\ Becomes(r, [Send(RecordExecutionControl(RecordExecutionControl(run[r])), "ack")
                   EXCEPT !.settle = "acknowledged"])

SettleAcknowledged(r) ==
  /\ run[r].settle = "acknowledged"
  /\ \E m \in run[r].unread \cap {"turn_settled", "error"} :
       Becomes(r, CompleteFromData([run[r] EXCEPT !.unread = @ \ {m}, !.settle = "done"]))

SettleFailed(r) ==
  LET x == [run[r] EXCEPT !.settle = "done"] IN
  /\ run[r].settle = "error"
  /\ Becomes(r, IF x.forced THEN x ELSE CompleteLocal(x, "interrupted", FALSE, FALSE))

DataSeals(x, decision) == [x EXCEPT !.exec = IF @ = "admitted" THEN decision ELSE @]

\* The seal of failChild and of finishWithoutData.
Seal(r) ==
  LET x == run[r] IN
  \/ /\ x.seal = "terminating" /\ x.physical \in {"done", "failed"}
     /\ Becomes(r, [x EXCEPT !.seal = IF x.physical = "done" THEN "calling" ELSE "failed"])
  \/ /\ x.seal = "calling"
     /\ \/ Becomes(r, [DataSeals(x, IF x.sealer = "failChild" THEN "interrupted"
                                    ELSE "cancelled") EXCEPT !.seal = "answered"])
        \/ "seal" \in Faults /\ Becomes(r, [x EXCEPT !.seal = "error"])
  \/ /\ x.seal = "answered"
     /\ Becomes(r, CompleteFromData([x EXCEPT !.seal = "done"]))
  \/ /\ x.seal = "error"
     /\ Becomes(r, IF x.sealer = "failChild" /\ x.forced THEN [x EXCEPT !.seal = "done"]
                   ELSE CompleteLocal([x EXCEPT !.seal = "done"], "interrupted", FALSE, FALSE))

\* forceSealAfterSettlementDeadline.
ForceSeal(r) ==
  LET x == run[r] IN
  \/ /\ x.force = "terminating" /\ WorkerIsOver(x)
     /\ Becomes(r, [x EXCEPT !.force = IF x.terminal = "none" THEN "calling" ELSE "done"])
  \/ /\ x.force = "terminating" /\ x.physical = "failed"
     /\ Becomes(r, [x EXCEPT !.force = "failed"])
  \/ /\ x.force = "calling"
     /\ \/ Becomes(r, [DataSeals(x, "interrupted") EXCEPT !.force = "answered"])
        \/ "seal" \in Faults /\ Becomes(r, [x EXCEPT !.force = "error"])
  \/ /\ x.force = "answered"
     /\ Becomes(r, CompleteFromData([x EXCEPT !.force = "finalizing"]))
  \/ /\ x.force = "error"
     /\ Becomes(r, CompleteLocal([x EXCEPT !.force = "finalizing"], "interrupted", FALSE, FALSE))
  \/ /\ x.force = "finalizing" /\ Settled(x)
     /\ Becomes(r, [x EXCEPT !.force = "done"])

-----------------------------------------------------------------------------
(* Physical cleanup, finalisation and control facts.                       *)

\* A worker_error answers a close as well; then a failed process cleanup is swallowed.
CloseAnswered(r) ==
  /\ run[r].physical = "closing"
  /\ \E m \in run[r].unread \cap {"closed", "error"} :
       Becomes(r, [Terminated([run[r] EXCEPT !.unread = @ \ {m}])
                     EXCEPT !.physical = IF m = "error" THEN "swallowed" ELSE "cleaning"])

ProcessesCleaned(r) ==
  LET fact == [RecordExecutionControl(run[r])
                 EXCEPT !.cleanupFact = IF run[r].admitted THEN run[r].next ELSE 0] IN
  /\ run[r].physical \in {"cleaning", "swallowed"}
  /\ \/ Becomes(r, [fact EXCEPT !.physical = "facts"])
     \/ /\ "stop" \in Faults /\ run[r].physical = "cleaning"
        /\ Becomes(r, [fact EXCEPT !.physical = "factsFailed"])

\* await run.controlWrites: a fact held back is not among them.
FactsAwaited(r) ==
  /\ run[r].physical \in {"facts", "factsFailed"}
  /\ ~Contains(run[r].queued, run[r].cleanupFact)
  /\ Becomes(r, [run[r] EXCEPT !.physical = IF @ = "facts" THEN "done" ELSE "failed"])

\* persistExecutionControl: one at a time; a refused write is ignored.
WriteFact(r) ==
  LET x == [run[r] EXCEPT !.queued = Tail(@)] IN
  /\ run[r].queued # <<>>
  /\ Becomes(r, IF x.session = "open" THEN [x EXCEPT !.written = Append(@, Head(run[r].queued))]
                ELSE x)

CloseSession(x) == [x EXCEPT !.session = IF @ = "open" THEN "closed" ELSE @]

Finalize(r) ==
  LET x == run[r] IN
  \/ /\ x.final = "terminating" /\ WorkerIsOver(x)
     /\ Becomes(r, [x EXCEPT !.final = "closing"])
  \/ /\ x.final = "terminating" /\ x.physical = "failed"
     /\ Becomes(r, [x EXCEPT !.final = "done", !.durable = FALSE])
  \/ /\ x.final = "closing"
     /\ Becomes(r, [CloseSession(x) EXCEPT !.final = "done"])

-----------------------------------------------------------------------------
(* What the parent asks.                                                   *)

\* collect_subagent (and status) answer with a terminal only when it is durable.
Collect(r) ==
  /\ run[r].spawn = "ok" /\ Settled(run[r]) /\ run[r].durable /\ run[r].collected = "none"
  /\ Becomes(r, [run[r] EXCEPT !.collected = run[r].terminal])

CancelChild(r) ==
  /\ run[r].spawn = "ok" /\ run[r].addressable /\ run[r].clean = "none"
  /\ Becomes(r, CleanupRun(run[r]))

CleanupParent ==
  LET runs == {r \in Runs : Registered(run[r])} IN
  /\ parent.cleanup = "none"
  /\ parent' = [active |-> FALSE, cleanup |-> "waiting", awaits |-> runs]
  /\ run' = [r \in Runs |-> IF r \in runs THEN CleanupRun([run[r] EXCEPT !.addressable = FALSE])
                            ELSE run[r]]

\* Promise.all: the first rejection is the answer.
ParentCleaned ==
  /\ parent.cleanup = "waiting"
  /\ \/ /\ \A r \in parent.awaits : run[r].clean = "done"
        /\ parent' = [parent EXCEPT !.cleanup = "done"]
     \/ /\ \E r \in parent.awaits : run[r].clean = "failed"
        /\ parent' = [parent EXCEPT !.cleanup = "failed"]
  /\ UNCHANGED run

-----------------------------------------------------------------------------
(* performCleanup.                                                         *)

CleanAdmission(r) ==
  /\ run[r].clean = "admission" /\ run[r].spawn # "opening"
  /\ Becomes(r, [run[r] EXCEPT !.clean = "grace"])

GraceEnds(r) ==
  LET x == [run[r] EXCEPT !.clean = "startup"] IN
  /\ run[r].clean = "grace" /\ ~StartupComplete(run[r])
  /\ Becomes(r, IF x.terminal = "none" THEN TerminateWorker(x, FALSE) ELSE x)

CleanStarted(r) ==
  LET x == run[r] IN
  /\ StartupComplete(x)
  /\ \/ x.clean = "grace"
     \/ x.clean = "startup" /\ (WorkerIsOver(x) \/ x.terminal # "none")
  /\ Becomes(r,
       CASE x.admissionError ->
              CompleteLocal([x EXCEPT !.clean = "finalizing"], "interrupted", FALSE, FALSE)
         [] ~x.admissionError /\ x.executionRefused /\ ~x.admitted ->
              CompleteLocal([x EXCEPT !.clean = "refused"], "interrupted", FALSE, FALSE)
         [] ~x.admissionError /\ ~x.executionRefused /\ ~x.admitted ->
              CompleteLocal([x EXCEPT !.clean = "finalizing"], "cancelled", TRUE, FALSE)
         [] x.admitted /\ x.terminal = "none" -> [x EXCEPT !.clean = "settlement"]
         [] x.admitted /\ x.terminal # "none" -> [x EXCEPT !.clean = "end"])

SettlementSeen(r) ==
  /\ \/ run[r].clean \in {"settlement", "finalizing"} /\ Settled(run[r])
     \/ run[r].clean = "forced" /\ run[r].force = "done"
  /\ Becomes(r, [run[r] EXCEPT !.clean = "end"])

\* Behind a refused admission the settlement is the end: what its finalisation could not
\* terminate or close, the cleanup does not look at.
RefusalSettled(r) ==
  /\ run[r].clean = "refused" /\ Settled(run[r])
  /\ Becomes(r, [run[r] EXCEPT !.clean = "done"])

\* Mutant: the deadline does not force the seal.
MutantSettlementDeadline(r) ==
  /\ run[r].clean = "settlement" /\ run[r].terminal # "none"
  /\ Becomes(r, [run[r] EXCEPT !.clean = "end"])

SettlementDeadline(r) ==
  LET x == run[r] IN
  /\ x.clean = "settlement" /\ ~Settled(x)
  /\ Becomes(r, IF x.terminal # "none" THEN [x EXCEPT !.clean = "end"]
                ELSE [TerminateWorker([x EXCEPT !.forced = TRUE, !.attempted = TRUE], FALSE)
                        EXCEPT !.force = "terminating", !.clean = "forced"])

\* Mutant: the Worker's end is not awaited.
CleanEnds(r) ==
  /\ run[r].clean = "end" /\ WorkerIsOver(run[r])
  /\ Becomes(r, [CloseSession(run[r]) EXCEPT !.clean = "done"])

CleanFails(r) ==
  /\ \/ run[r].clean \in {"startup", "end"} /\ run[r].physical = "failed"
     \/ run[r].clean = "forced" /\ run[r].force = "failed"
  /\ Becomes(r, [run[r] EXCEPT !.clean = "failed"])

-----------------------------------------------------------------------------
HostStep(r) ==
  \/ AccountKnown(r) \/ SessionOpened(r) \/ OpenRefused(r) \/ CapacityKnown(r)
  \/ StartThrown(r) \/ DataAdmits(r) \/ Admitted(r) \/ AdmissionRejected(r) \/ LocalSettled(r)
  \/ RouteChildMessage(r) \/ DataSettles(r) \/ Acknowledge(r) \/ SettleAcknowledged(r)
  \/ SettleFailed(r) \/ Seal(r) \/ ForceSeal(r) \/ CloseAnswered(r) \/ ProcessesCleaned(r)
  \/ FactsAwaited(r) \/ WriteFact(r) \/ Finalize(r)

CleanupStep(r) ==
  \/ CleanAdmission(r) \/ GraceEnds(r) \/ CleanStarted(r) \/ SettlementSeen(r)
  \/ RefusalSettled(r) \/ SettlementDeadline(r) \/ CleanEnds(r) \/ CleanFails(r)

Next ==
  \/ CleanupParent \/ ParentCleaned
  \/ \E r \in Runs :
       \/ Spawn(r) \/ Collect(r) \/ CancelChild(r)
       \/ WorkerBoots(r) \/ WorkerReceives(r) \/ WorkerFinishes(r) \/ WorkerErrs(r)
       \/ HostStep(r) \/ CleanupStep(r)

Spec == Init /\ [][Next]_vars

\* The event loop runs, Data answers, timers fire and a Worker that is alive answers its
\* messages; a turn need not end by itself and the capacity need not be resolved in time.
Fairness ==
  /\ WF_vars(ParentCleaned)
  /\ \A r \in Runs : WF_vars(HostStep(r)) /\ WF_vars(CleanupStep(r)) /\ WF_vars(WorkerReceives(r))

FairSpec == Spec /\ Fairness

-----------------------------------------------------------------------------
(* What the registry promises.                                             *)

\* A terminal that the registry calls durable is the one Data retains: the Worker's proposal,
\* the seal of a lost or cancelled run and the forced seal race, and whichever Data took first
\* is what the run reports, even when it was answered last (completeFromData, the forced path).
\* What the parent has collected is never replaced by a later cleanup, deadline or message.
DurableIsStored ==
  \A r \in Runs : LET x == run[r] IN
    /\ x.terminal # "none" /\ x.durable /\ x.exec # "none" => x.terminal = x.exec
    /\ x.collected \in {"none", x.terminal}

\* When the parent's cleanup has answered, each run it awaited has its terminal, its Worker and
\* its Data Session are gone, and none of its executions is left open in Data.  No other Worker
\* of the parent lives either, not even one of a spawn that was looking up its account when
\* the cleanup took the list of runs.  Only the Session of a run whose execution was refused
\* stays open, if the processes of its Worker could not be cleaned up either.
CleanupIsComplete ==
  parent.cleanup = "done" =>
    /\ \A r \in Runs : run[r].worker \in {"none", "terminated"}
    /\ \A r \in parent.awaits : LET x == run[r] IN
         /\ StartupComplete(x) /\ x.terminal # "none"
         /\ x.session # "open" \/ (x.executionRefused /\ x.physical = "failed")
         /\ x.exec # "admitted" \/ ~x.durable

\* A turn that runs while its run is being cleaned up hears of it: whatever point of its
\* start-up the spawn had reached when the cancellation came, no turn slips past it, and none
\* is sent behind a cancel that an idle Worker has already consumed.
CancelReachesTurn ==
  \A r \in Runs : LET x == run[r] IN
    x.cancelRequested /\ x.terminal = "none" /\ x.worker = "running"
      => x.heard \/ Contains(x.toWorker, "cancel")

\* A cleanup reaches every turn of its children and leaves nothing of them.
CleanupHolds == CleanupIsComplete /\ CancelReachesTurn

\* Control facts reach Data in the order of their numbers and without a gap, those recorded
\* before the admission included, and the Data Session is closed only after the fact of the
\* process cleanup, if that was recorded after the admission (one that is held back for an
\* admission under way is not waited for).
FactsInOrder ==
  \A r \in Runs : LET x == run[r] IN
    /\ x.written = [i \in 1 .. Len(x.written) |-> i]
    /\ x.session = "closed" /\ x.cleanupFact # 0 => Contains(x.written, x.cleanupFact)

\* The registry's records are well formed and tell the truth of what Data stores, the
\* terminal and the control facts.
RegistryInvariant == TypeOK /\ DurableIsStored /\ FactsInOrder

\* The grace ended while start() was resolving the capacity: nothing answers it any more.
StartAbandoned(x) == x.spawn = "booting" /\ x.worker = "terminated"

\* The cleanup of the parent ends, whatever its children are doing, unless a start was
\* abandoned.
CleanupConverges ==
  parent.cleanup = "waiting" ~>
    (parent.cleanup # "waiting" \/ \E r \in Runs : StartAbandoned(run[r]))

\* A child whose Worker has ended its turn, or reported an error, is settled, so that the
\* parent's collect returns, unless its processes could not be cleaned up.
FinishedIsSettled ==
  \A r \in Runs :
    run[r].admitted /\ (run[r].worker = "waiting" \/ Contains(run[r].toHost, "error"))
      ~> (Settled(run[r]) \/ run[r].physical = "failed")

\* Nobody waits for ever for a child: neither the parent's cleanup nor its collect.
ChildrenConverge == CleanupConverges /\ FinishedIsSettled

=============================================================================
