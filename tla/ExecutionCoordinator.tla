------------------------- MODULE ExecutionCoordinator -------------------------
(***************************************************************************)
(* The Worker Host of one Session: class ExecutionCoordinator with its     *)
(* WorkerSupervisor, driving turns through an Agent Worker and the Data    *)
(* Worker.                                                                 *)
(*                                                                         *)
(* Four coroutines of one thread interleave at their awaits: the           *)
(* reservation R (runReservation, variable pc), the settlement promise of  *)
(* settleProposal (commit), the settlement promise of seal (seal), and the *)
(* cancellation watchdog (watchdog, escalation).  terminalPromise is what  *)
(* the three share.  Calls to steer, cancel and close arrive in between.   *)
(* A state between two actions is a state in which every coroutine awaits. *)
(*                                                                         *)
(* The Data Worker is modelled by what its methods answer: its part is     *)
(* DataSession.  Its requests are served in the order they are sent, so a  *)
(* synchronous method takes effect when it is sent; settleFailure and      *)
(* prepareProposal may first wait for the Agent's data, so they take       *)
(* effect when they are answered.                                          *)
(*                                                                         *)
(* An operator whose name starts with "Mutant" is no part of the           *)
(* specification: it is what a plausible bug would make of the definition  *)
(* that follows it, and one of the properties is known to catch it.        *)
(***************************************************************************)
EXTENDS Integers, Sequences

CONSTANT MaxTurns  \* bound: turns submitted

ASSUME MaxTurnsAssumption == MaxTurns \in Nat

VARIABLES
  pc,               \* where R awaits; "idle": no reservation
  commit,           \* the promise of settleProposal
  seal,             \* the promise of seal
  terminalPromise,  \* execution.terminalPromise: "none", "commit" or "seal"
  cancelled,        \* reservation.cancelled and execution.cancelled
  forced,           \* execution.forced
  watchdog,         \* reservation.watchdog is armed
  staleWatchdog,    \* a watchdog of a finished reservation is armed
  escalation,       \* escalateCancellation awaits the process cleanup
  unavailable,      \* supervisor.unavailable
  needsReplacement, \* supervisor.needsReplacement
  worker,           \* the Agent Worker of the current generation
  steering,         \* steerActiveTurn has a registered waiter
  queue,            \* messages published and not yet taken, without their order
  data,             \* the execution at the Data Worker
  reported,         \* turn_end events of the execution: their committed flags
  submitted,        \* turns submitted
  closing,          \* close(): "no", "waiting" for the turn, "stopping" the Worker, "closed"
  disturbed         \* a deadline expired where the Host was not waiting for the Worker, a
                    \* cancel came while a turn was being finished, or a send has thrown

promiseVars    == <<commit, seal, terminalPromise>>
cancelVars     == <<cancelled, forced, watchdog, escalation>>
generationVars == <<unavailable, needsReplacement, worker, steering>>
serviceVars    == <<staleWatchdog, submitted, closing, disturbed>>
coordinatorVars ==
  <<pc, promiseVars, cancelVars, generationVars, queue, data, reported, serviceVars>>

\* R before there is an execution, and with one.
PreparingPcs == {"replacing", "capacity", "starting", "admit", "failedStart"}
ExecutingPcs == {"registration", "answer", "errorCleanup", "failureCleanup",
                 "settleFailure", "failureSettled", "failureProcess", "prepare",
                 "proposalCleanup", "metadata", "joinCommit", "joinSeal", "catch", "finally"}

\* "stuck": Data threw after it took its decision, or its journal failed; every
\* later call for the execution throws, and the row waits for a restart.
DataStates == {"none", "active", "prepared", "canonical", "non_canonical", "stuck"}
Decided == {"canonical", "non_canonical"}

CoordinatorTypeOK ==
  /\ pc \in {"idle"} \cup PreparingPcs \cup ExecutingPcs
  /\ commit \in {"none", "authorized", "refused", "settled", "process", "done", "failed"}
  /\ seal \in {"none", "cleanup", "sealed", "refused", "done", "failed"}
  /\ terminalPromise \in {"none", "commit", "seal"}
  /\ cancelled \in BOOLEAN /\ forced \in BOOLEAN
  /\ watchdog \in BOOLEAN /\ staleWatchdog \in BOOLEAN
  /\ unavailable \in BOOLEAN /\ needsReplacement \in BOOLEAN
  /\ steering \in BOOLEAN /\ disturbed \in BOOLEAN
  /\ escalation \in {"none", "process"}
  /\ worker \in {"idle", "starting", "running", "answered", "hooks", "dead"}
  /\ queue \subseteq {"proposal_ready", "failure_ready", "turn_settled", "worker_error"}
  /\ data \in DataStates
  /\ reported \in Seq(BOOLEAN) /\ Len(reported) <= 2
  /\ submitted \in 0 .. MaxTurns
  /\ closing \in {"no", "waiting", "stopping", "closed"}

HasExecution == pc \in ExecutingPcs

CoordinatorInit ==
  /\ pc = "idle"
  /\ commit = "none" /\ seal = "none" /\ terminalPromise = "none"
  /\ cancelled = FALSE /\ forced = FALSE /\ watchdog = FALSE /\ escalation = "none"
  /\ staleWatchdog = FALSE
  /\ unavailable = FALSE /\ needsReplacement = FALSE /\ worker = "idle" /\ steering = FALSE
  /\ queue = {}
  /\ data = "none"
  /\ reported = << >>
  /\ submitted = 0
  /\ closing = "no"
  /\ disturbed = FALSE

-----------------------------------------------------------------------------
(* The supervisor and its message queue.                                   *)

\* The messages the two waits of a turn accept.
Answers == {"proposal_ready", "failure_ready", "worker_error"}
Settlements == {"turn_settled", "worker_error"}

\* A registered waiter that no message has resolved.
ReadyPending    == pc = "starting"
AnswerPending   == pc = "answer" /\ queue \cap Answers = {}
FailurePending  == pc = "failureSettled" /\ queue \cap Settlements = {}
CommitPending   == commit = "settled" /\ queue \cap Settlements = {}
HostWaitsForWorker == ReadyPending \/ AnswerPending \/ FailurePending \/ CommitPending

\* markUnavailableForReplacement without its effect on R's and the commit
\* promise's waiters.  A rejected steering waiter only marks again.
GenerationLost ==
  /\ unavailable' = TRUE
  /\ needsReplacement' = TRUE
  /\ worker' = "dead"
  /\ steering' = FALSE

\* markUnavailable alone, and terminate: no replacement is asked for.
Terminated ==
  /\ unavailable' = TRUE /\ worker' = "dead" /\ steering' = FALSE
  /\ UNCHANGED needsReplacement

MutantRejectWaiters ==
  /\ pc' = IF ReadyPending THEN "failedStart"
           ELSE IF AnswerPending THEN "catch"
           ELSE pc
  /\ UNCHANGED commit

\* messages.fail: only the waiters registered by now are rejected.
RejectWaiters ==
  /\ pc' = IF ReadyPending THEN "failedStart"
           ELSE IF AnswerPending THEN "catch"
           ELSE IF FailurePending THEN "failureProcess"
           ELSE pc
  /\ commit' = IF CommitPending THEN "process" ELSE commit

\* ensureGeneration: the old generation's children and processes are cleaned up,
\* then replaceGeneration installs a new queue, capsule and generation.
ReplaceGeneration ==
  /\ pc = "replacing"
  /\ \/ /\ pc' = "capacity"
        /\ queue' = {}
        /\ unavailable' = FALSE
        /\ worker' = "starting"
        /\ steering' = FALSE
     \/ /\ pc' = "failedStart"
        /\ steering' \in {steering, FALSE}
        /\ UNCHANGED <<queue, unavailable, worker>>
  /\ UNCHANGED <<promiseVars, cancelVars, needsReplacement, data, reported, serviceVars>>

\* start: the model's capacity is resolved before the waiter for ready exists.
StartRegisters ==
  /\ pc = "capacity"
  /\ pc' = "starting"
  /\ UNCHANGED <<promiseVars, cancelVars, generationVars, queue, data, reported, serviceVars>>

\* ready, or an exception of start: the generation stays to be replaced.
FinishStart ==
  /\ \/ /\ pc = "starting" /\ ~unavailable
        /\ pc' = "admit"
        /\ needsReplacement' = FALSE
        /\ worker' = "idle"
        /\ UNCHANGED <<unavailable, steering>>
     \/ /\ pc \in {"capacity", "starting"}
        /\ pc' = "failedStart"
        /\ GenerationLost
  /\ UNCHANGED <<promiseVars, cancelVars, queue, data, reported, serviceVars>>

-----------------------------------------------------------------------------
(* Steps R shares between its paths.                                       *)

\* An exception in R's try block: catch marks the generation unless the turn was
\* cancelled, then awaits the process cleanup.
Throw ==
  /\ pc' = "catch"
  /\ IF cancelled \/ forced THEN UNCHANGED generationVars ELSE GenerationLost

\* R awaits the settlement promise that exists.
Join ==
  /\ terminalPromise # "none"
  /\ pc' = IF terminalPromise = "commit" THEN "joinCommit" ELSE "joinSeal"
  /\ UNCHANGED <<promiseVars, generationVars>>

\* seal(): join the promise that exists, or create one.
Seal ==
  \/ Join
  \/ /\ terminalPromise = "none"
     /\ terminalPromise' = "seal"
     /\ seal' = "cleanup"
     /\ GenerationLost
     /\ pc' = "joinSeal"
     /\ UNCHANGED commit

MutantFinish ==
  /\ pc' = "finally"
  /\ UNCHANGED watchdog

\* R enters finally, which clears the watchdog first.
Finish ==
  /\ pc' = "finally"
  /\ watchdog' = FALSE

\* sendSettlementAcknowledgement: the Worker goes on to its after_turn hooks.  A
\* terminated Worker does not get the message, and postMessage does not say so.
Acknowledge ==
  \/ /\ worker' = IF worker = "answered" THEN "hooks" ELSE worker
     /\ UNCHANGED <<unavailable, needsReplacement, steering, disturbed>>
  \/ disturbed' = TRUE /\ GenerationLost

-----------------------------------------------------------------------------
(* R: from admission to the Worker's answer.                               *)

\* The execution record of the new turn.
FreshExecution ==
  /\ commit' = "none" /\ seal' = "none" /\ terminalPromise' = "none"
  /\ data' = "none"
  /\ reported' = << >>

\* admit: a reservation for a generation that is usable or can be replaced.  A
\* seal promise of the previous turn that R did not join (its execution is
\* settled) is not followed further.
Submit(initiallyCancelled) ==
  /\ pc = "idle"
  /\ closing = "no"
  /\ ~unavailable \/ needsReplacement
  /\ submitted < MaxTurns
  /\ submitted' = submitted + 1
  /\ cancelled' = initiallyCancelled
  /\ forced' = FALSE
  /\ FreshExecution
  /\ pc' = IF needsReplacement THEN "replacing" ELSE "admit"
  /\ UNCHANGED <<watchdog, escalation, generationVars, queue, staleWatchdog,
                 closing, disturbed>>

\* executionAdmit answers.  One that throws may leave an active row behind.
Admitted ==
  /\ pc = "admit"
  /\ \/ pc' = "registration" /\ data' = "active"
     \/ pc' = "failedStart" /\ data' \in {"none", "stuck"}
  /\ UNCHANGED <<promiseVars, cancelVars, generationVars, queue, reported, serviceVars>>

\* A reservation that never became an execution ends.
AbortAdmission ==
  /\ pc = "failedStart"
  /\ pc' = "idle"
  /\ watchdog' = FALSE
  /\ UNCHANGED <<promiseVars, cancelled, forced, escalation, generationVars, queue, data,
                 reported, serviceVars>>

\* The registration id is here: a turn cancelled by now is sealed, any other is
\* sent to the Worker, in whatever state that is.
Registered ==
  /\ pc = "registration"
  /\ \/ Throw /\ UNCHANGED promiseVars
     \/ (cancelled \/ forced) /\ Seal
     \/ /\ ~(cancelled \/ forced)
        /\ pc' = "answer"
        /\ worker' = IF worker = "idle" THEN "running" ELSE worker
        /\ UNCHANGED <<promiseVars, unavailable, needsReplacement, steering>>
  /\ UNCHANGED <<cancelVars, queue, data, reported, serviceVars>>

\* The Worker's answer.  It precedes a worker_error of the same generation.
TakeAnswer ==
  /\ pc = "answer"
  /\ \E m \in queue \cap Answers :
       /\ m = "worker_error" => queue \cap Answers = {m}
       /\ queue' = queue \ {m}
       /\ \/ /\ m = "worker_error"
             /\ pc' = "errorCleanup"
             /\ GenerationLost
          \/ /\ m # "worker_error"
             /\ pc' = IF m = "failure_ready" THEN "failureCleanup" ELSE "prepare"
             /\ UNCHANGED generationVars
  /\ UNCHANGED <<promiseVars, cancelVars, data, reported, serviceVars>>

\* After a worker_error the processes and children are cleaned up, then sealed.
ErrorCleaned ==
  /\ pc = "errorCleanup"
  /\ (Throw /\ UNCHANGED promiseVars) \/ Seal
  /\ UNCHANGED <<cancelVars, queue, data, reported, serviceVars>>

MutantCatchSeals ==
  /\ pc = "catch"
  /\ \/ Seal /\ UNCHANGED watchdog
     \/ cancelled /\ Finish /\ UNCHANGED <<promiseVars, generationVars>>
  /\ UNCHANGED <<cancelled, forced, escalation, queue, data, reported, serviceVars>>

\* Process cleanup in the catch block, then seal.  A cancelled turn that is not
\* forced seals without that cleanup; the model lets others step before it too.
CatchSeals ==
  /\ pc = "catch"
  /\ Seal
  /\ UNCHANGED <<cancelVars, queue, data, reported, serviceVars>>

-----------------------------------------------------------------------------
(* R: a turn the Worker failed.                                            *)

\* Children cleaned up and metadata written; settleFailure is sent.
FailureCleaned ==
  /\ pc = "failureCleanup"
  /\ \/ pc' = "settleFailure" /\ UNCHANGED generationVars
     \/ Throw
  /\ UNCHANGED <<promiseVars, cancelVars, queue, data, reported, serviceVars>>

\* settleFailure answers.  If a seal was served first it returns that result, or
\* throws because the journal was sealed while it waited.
FailureReplied ==
  /\ pc = "settleFailure"
  /\ \/ /\ data = "active" \/ data \in Decided
        /\ data' = IF data = "active" THEN "non_canonical" ELSE data
        /\ Acknowledge
        /\ pc' = "failureSettled"
     \/ data' = (IF data = "active" THEN "stuck" ELSE data) /\ Throw /\ UNCHANGED disturbed
  /\ UNCHANGED <<promiseVars, cancelVars, queue, reported, staleWatchdog, submitted, closing>>

\* waitForTurnSettled of the failure path.
FailureSettled ==
  /\ pc = "failureSettled"
  /\ \E m \in queue \cap Settlements :
       /\ m = "worker_error" => queue \cap Settlements = {m}
       /\ queue' = queue \ {m}
       /\ IF m = "worker_error" THEN GenerationLost ELSE UNCHANGED generationVars
  /\ pc' = "failureProcess"
  /\ UNCHANGED <<promiseVars, cancelVars, data, reported, serviceVars>>

\* Processes cleaned up: the turn ends.  A cancellation the Worker could not
\* clean up after makes the generation unavailable, for good.
FailureProcessed ==
  /\ pc = "failureProcess"
  /\ Finish
  /\ reported' = Append(reported, FALSE)
  /\ \/ UNCHANGED generationVars
     \/ /\ cancelled
        /\ Terminated
  /\ UNCHANGED <<promiseVars, cancelled, forced, escalation, queue, data, serviceVars>>

-----------------------------------------------------------------------------
(* R: a turn the Worker proposes.                                          *)

\* prepareProposal answers.
Prepared ==
  /\ pc = "prepare"
  /\ \/ /\ data = "active"
        /\ data' = "prepared"
        /\ \/ Join
           \/ /\ terminalPromise = "none"
              /\ pc' = "proposalCleanup"
              /\ UNCHANGED <<promiseVars, generationVars>>
     \/ /\ data' \in IF data = "active" THEN {"active", "stuck"} ELSE {data}
        /\ Throw
        /\ UNCHANGED promiseVars
  /\ UNCHANGED <<cancelVars, queue, reported, serviceVars>>

\* Children cleaned up; the metadata is sent.
ProposalCleaned ==
  /\ pc = "proposalCleanup"
  /\ \/ Join
     \/ /\ terminalPromise = "none"
        /\ pc' = "metadata"
        /\ UNCHANGED <<promiseVars, generationVars>>
     \/ Throw /\ UNCHANGED promiseVars
  /\ UNCHANGED <<cancelVars, queue, data, reported, serviceVars>>

MutantMayCommit == ~forced /\ ~unavailable

\* The decision's conditions on the Host's own state.
MayCommit == ~cancelled /\ ~forced /\ ~unavailable

\* The metadata is written: the Host decides and sends authorizeCommit, without
\* another look at terminalPromise, which it replaces.  A child whose cleanup
\* failed turns an acceptance into a rejection.
Decide ==
  /\ pc = "metadata"
  /\ \/ /\ pc' = "joinCommit"
        /\ terminalPromise' = "commit"
        /\ \/ /\ data = "prepared"
              /\ data' \in (IF MayCommit THEN Decided ELSE {"non_canonical"})
              /\ commit' = "authorized"
           \/ data \in Decided /\ commit' = "authorized" /\ UNCHANGED data
           \/ data \in {"prepared", "stuck"} /\ commit' = "refused" /\ data' = "stuck"
        /\ UNCHANGED <<seal, generationVars>>
     \/ Throw /\ UNCHANGED <<promiseVars, data>>
  /\ UNCHANGED <<cancelVars, queue, reported, serviceVars>>

\* authorizeCommit answers.
CommitReplied ==
  /\ \/ commit = "authorized" /\ commit' = "settled" /\ Acknowledge
     \/ commit = "refused" /\ commit' = "failed" /\ UNCHANGED <<generationVars, disturbed>>
  /\ UNCHANGED <<pc, seal, terminalPromise, cancelVars, queue, data, reported, staleWatchdog,
                 submitted, closing>>

\* waitForTurnSettled of the commit promise.
CommitSettled ==
  /\ commit = "settled"
  /\ \E m \in queue \cap Settlements :
       /\ m = "worker_error" => queue \cap Settlements = {m}
       /\ queue' = queue \ {m}
       /\ IF m = "worker_error" THEN GenerationLost ELSE UNCHANGED generationVars
  /\ commit' = "process"
  /\ UNCHANGED <<pc, seal, terminalPromise, cancelVars, data, reported, serviceVars>>

\* Processes cleaned up: the turn ends as Data settled it.
CommitProcessed ==
  /\ commit = "process"
  /\ commit' = "done"
  /\ watchdog' = FALSE
  /\ reported' = Append(reported, data = "canonical")
  /\ UNCHANGED <<pc, seal, terminalPromise, cancelled, forced, escalation, generationVars,
                 queue, data, serviceVars>>

\* R resumes; a rejected promise is joined once more by the catch block.
CommitJoined ==
  /\ pc = "joinCommit"
  /\ commit \in {"done", "failed"}
  /\ Finish
  /\ IF commit = "failed" /\ ~cancelled /\ ~forced THEN GenerationLost
                                                   ELSE UNCHANGED generationVars
  /\ UNCHANGED <<promiseVars, cancelled, forced, escalation, queue, data, reported,
                 serviceVars>>

-----------------------------------------------------------------------------
(* The seal promise.                                                       *)

\* Processes and children cleaned up; sealGeneration is sent.
SealCleaned ==
  /\ seal = "cleanup"
  /\ \/ /\ data \in {"active", "prepared"} \cup Decided
        /\ data' = IF data \in Decided THEN data ELSE "non_canonical"
        /\ seal' = "sealed"
     \/ /\ data \notin Decided
        /\ data' = "stuck"
        /\ seal' = "refused"
  /\ UNCHANGED <<pc, commit, terminalPromise, cancelVars, generationVars, queue, reported,
                 serviceVars>>

\* sealGeneration answers: the turn is reported as not committed.
SealReplied ==
  /\ \/ /\ seal = "sealed"
        /\ seal' = "done"
        /\ reported' = Append(reported, FALSE)
        /\ watchdog' = FALSE
     \/ seal = "refused" /\ seal' = "failed" /\ UNCHANGED <<reported, watchdog>>
  /\ UNCHANGED <<pc, commit, terminalPromise, cancelled, forced, escalation, generationVars,
                 queue, data, serviceVars>>

SealJoined ==
  /\ pc = "joinSeal"
  /\ seal \in {"done", "failed"}
  /\ Finish
  /\ UNCHANGED <<promiseVars, cancelled, forced, escalation, generationVars, queue, data,
                 reported, serviceVars>>

\* The finally block: children, processes and control facts, then idle.  An
\* escalation awaits the same process cleanup and has resumed before that.  A
\* watchdog armed in the finally block is cleared by no one and outlives the turn.
FinishTurn ==
  /\ pc = "finally"
  /\ escalation = "none"
  /\ pc' = "idle"
  /\ watchdog' = FALSE
  /\ staleWatchdog' = (staleWatchdog \/ watchdog)
  /\ UNCHANGED <<promiseVars, cancelled, forced, escalation, generationVars, queue, data,
                 reported, submitted, closing, disturbed>>

-----------------------------------------------------------------------------
(* Cancellation, steering and close.                                       *)

Cancellable == pc \notin {"idle", "failedStart"} /\ ~cancelled

\* The effect of a command sent to the Worker outside R's own flow: a postMessage
\* that throws marks the generation.
SendCommand(late) ==
  \/ disturbed' = (disturbed \/ late) /\ UNCHANGED <<pc, commit, generationVars>>
  \/ disturbed' = TRUE /\ GenerationLost /\ RejectWaiters

MutantRequestCancel(late) ==
  /\ Cancellable
  /\ cancelled' = TRUE
  /\ SendCommand(late)
  /\ UNCHANGED watchdog

\* cancelActiveTurn arms the watchdog, also where the finally block has cleared it.
RequestCancel(late) ==
  /\ Cancellable
  /\ cancelled' = TRUE
  /\ SendCommand(late)
  /\ watchdog' = TRUE

Cancel ==
  /\ closing = "no"
  /\ RequestCancel(pc = "finally")
  /\ UNCHANGED <<seal, terminalPromise, forced, escalation, queue, data, reported,
                 staleWatchdog, submitted, closing>>

\* escalateCancellation, up to its wait for the processes.
WatchdogFires ==
  /\ watchdog
  /\ disturbed' = (disturbed \/ ~HostWaitsForWorker)
  /\ watchdog' = FALSE
  /\ forced' = HasExecution
  /\ escalation' = IF HasExecution THEN "process" ELSE "none"
  /\ GenerationLost
  /\ RejectWaiters
  /\ UNCHANGED <<seal, terminalPromise, cancelled, queue, data, reported, staleWatchdog,
                 submitted, closing>>

\* ... and after it: the turn is sealed unless its settlement has begun.
Escalate ==
  /\ escalation = "process"
  /\ escalation' = "none"
  /\ IF terminalPromise = "none"
       THEN /\ terminalPromise' = "seal"
            /\ seal' = "cleanup"
            /\ GenerationLost
            /\ RejectWaiters
       ELSE UNCHANGED <<pc, promiseVars, generationVars>>
  /\ UNCHANGED <<cancelled, forced, watchdog, queue, data, reported, serviceVars>>

\* The watchdog of a finished reservation finds another execution or none: it
\* marks whatever generation runs by then.
StaleWatchdogFires ==
  /\ staleWatchdog
  /\ staleWatchdog' = FALSE
  /\ GenerationLost
  /\ RejectWaiters
  /\ UNCHANGED <<seal, terminalPromise, cancelVars, queue, data, reported, submitted,
                 closing, disturbed>>

Steer ==
  /\ HasExecution
  /\ pc # "registration"
  /\ ~cancelled
  /\ ~steering
  /\ \/ /\ steering' = TRUE
        /\ UNCHANGED <<pc, commit, unavailable, needsReplacement, worker, disturbed>>
     \/ disturbed' = TRUE /\ GenerationLost /\ RejectWaiters
  /\ UNCHANGED <<seal, terminalPromise, cancelVars, queue, data, reported, staleWatchdog,
                 submitted, closing>>

SteerReply ==
  /\ steering
  /\ worker # "dead"
  /\ steering' = FALSE
  /\ UNCHANGED <<pc, promiseVars, cancelVars, unavailable, needsReplacement, worker, queue,
                 data, reported, serviceVars>>

\* The five seconds of a steering request are over, whatever R does by now.
SteerTimeout ==
  /\ steering
  /\ disturbed' = (disturbed \/ ~HostWaitsForWorker)
  /\ GenerationLost
  /\ RejectWaiters
  /\ UNCHANGED <<seal, terminalPromise, cancelVars, queue, data, reported, staleWatchdog,
                 submitted, closing>>

\* close: cancel the turn if there is one, and await its completion.
Close ==
  /\ closing = "no"
  /\ closing' = "waiting"
  /\ \/ RequestCancel(FALSE)
     \/ ~Cancellable /\ UNCHANGED <<pc, commit, generationVars, cancelled, watchdog, disturbed>>
  /\ UNCHANGED <<seal, terminalPromise, forced, escalation, queue, data, reported,
                 staleWatchdog, submitted>>

\* The turn is over: an available Worker is asked to close and gets as long as
\* its runtime_stop hooks take; any other is terminated.
StopWorker ==
  /\ closing = "waiting"
  /\ pc = "idle"
  /\ \/ ~unavailable /\ closing' = "stopping" /\ UNCHANGED generationVars
     \/ unavailable /\ closing' = "closed" /\ Terminated
  /\ UNCHANGED <<pc, promiseVars, cancelVars, queue, data, reported, staleWatchdog, submitted,
                 disturbed>>

\* A worker_error, or a timer that marks the generation, ends the wait as well.
StopFails ==
  /\ closing = "stopping"
  /\ unavailable \/ "worker_error" \in queue
  /\ closing' = "closed"
  /\ Terminated
  /\ UNCHANGED <<pc, promiseVars, cancelVars, queue, data, reported, staleWatchdog, submitted,
                 disturbed>>

-----------------------------------------------------------------------------
(* The Agent Worker, as the Host sees it.                                  *)

WorkerAnswers(m) ==
  /\ worker = "running"
  /\ worker' = "answered"
  /\ queue' = queue \cup {m}
  /\ UNCHANGED <<pc, promiseVars, cancelVars, unavailable, needsReplacement, steering, data,
                 reported, serviceVars>>

WorkerSettles ==
  /\ worker = "hooks"
  /\ worker' = "idle"
  /\ queue' = queue \cup {"turn_settled"}
  /\ UNCHANGED <<pc, promiseVars, cancelVars, unavailable, needsReplacement, steering, data,
                 reported, serviceVars>>

\* The answer to close: processes and hooks are finished.
WorkerCloses ==
  /\ closing = "stopping"
  /\ worker = "idle"
  /\ closing' = "closed"
  /\ Terminated
  /\ UNCHANGED <<pc, promiseVars, cancelVars, queue, data, reported, staleWatchdog, submitted,
                 disturbed>>

\* An uncaught exception: the capsule publishes a worker_error.
WorkerErrs ==
  /\ worker \in {"idle", "running", "answered", "hooks"}
  /\ worker' = "dead"
  /\ queue' = queue \cup {"worker_error"}
  /\ UNCHANGED <<pc, promiseVars, cancelVars, unavailable, needsReplacement, steering, data,
                 reported, serviceVars>>

-----------------------------------------------------------------------------
\* What the Host does by itself: its coroutines go on when what they await, the
\* Data Worker, the children and the processes, answers.
HostSteps ==
  \/ ReplaceGeneration \/ StartRegisters \/ Admitted \/ AbortAdmission \/ Registered
  \/ TakeAnswer \/ ErrorCleaned \/ CatchSeals
  \/ FailureCleaned \/ FailureReplied \/ FailureSettled \/ FailureProcessed
  \/ Prepared \/ ProposalCleaned \/ Decide \/ CommitJoined \/ SealJoined \/ FinishTurn

CloseSteps == StopWorker \/ StopFails

CommitSteps == CommitReplied \/ CommitSettled \/ CommitProcessed

SealSteps == SealCleaned \/ SealReplied

WorkerSteps ==
  \/ FinishStart
  \/ \E m \in {"proposal_ready", "failure_ready"} : WorkerAnswers(m)
  \/ WorkerSettles
  \/ WorkerCloses
  \/ WorkerErrs

UserSteps ==
  \/ \E initiallyCancelled \in BOOLEAN : Submit(initiallyCancelled)
  \/ Cancel \/ Steer \/ SteerReply \/ SteerTimeout \/ Close

CoordinatorNext ==
  \/ HostSteps \/ CloseSteps \/ CommitSteps \/ SealSteps \/ WorkerSteps \/ UserSteps
  \/ WatchdogFires \/ Escalate \/ StaleWatchdogFires

CoordinatorSpec == CoordinatorInit /\ [][CoordinatorNext]_coordinatorVars

\* Data answers every request, cleanup ends and timers fire; nothing is assumed
\* of the Agent Worker or the user.
CoordinatorFairness ==
  /\ WF_coordinatorVars(HostSteps)
  /\ WF_coordinatorVars(CommitSteps)
  /\ WF_coordinatorVars(SealSteps)
  /\ WF_coordinatorVars(WatchdogFires)
  /\ WF_coordinatorVars(Escalate)
  /\ WF_coordinatorVars(CloseSteps)

FairCoordinatorSpec == CoordinatorSpec /\ CoordinatorFairness

-----------------------------------------------------------------------------
(* Properties.                                                             *)

\* Once cancellation, the watchdog or the loss of the generation has reached the
\* Host, no turn is adopted: settleProposal decides on the state of the moment it
\* sends the decision, not on what it saw before its awaits.
CancelFencesCommit ==
  [][data # "canonical" /\ data' = "canonical" => ~cancelled /\ ~forced /\ ~unavailable]_coordinatorVars

\* The coordinator takes the next turn only when Data has settled the last one:
\* runReservation leaves its finally block after a settlement or after Data
\* refused one, on every path through failure, error, catch and escalation.
SettledBeforeIdle == pc = "idle" => data \notin {"active", "prepared"}

\* turn_end says committed exactly when Data adopted the turn, also where a seal
\* and a commit of one execution overlap.
ReportMatchesOutcome ==
  \A i \in DOMAIN reported : data = IF reported[i] THEN "canonical" ELSE "non_canonical"

\* The coordinator's state is well formed, between two turns nothing of the last one
\* is left open (runReservation, on every path to its finally block), and what was
\* reported of a turn is what Data has decided.
CoordinatorInvariant == CoordinatorTypeOK /\ SettledBeforeIdle /\ ReportMatchesOutcome

\* Every registered waiter can be resolved: whoever marks the generation
\* unavailable rejects it, and no one registers a waiter with a generation that
\* has been terminated, as long as nothing untimely has disturbed the Session: a deadline
\* that expires between two waits, or a send that throws, leaves the next waiter
\* to the watchdog.
NoWaitOnTerminatedWorker == HostWaitsForWorker /\ ~disturbed => ~unavailable

\* A Worker that runs a turn nobody cancelled or steers is not terminated by the
\* Host: what a finished turn leaves armed must not reach the next one.  The
\* exception is a cancel that came while that turn was being finished.
RunningTurnKeepsWorker ==
  [][pc = "answer" /\ worker = "running" /\ ~cancelled /\ ~steering =>
       ~unavailable' \/ disturbed']_coordinatorVars

\* A turn ends, whatever its Worker does, once the user has cancelled it or its
\* generation is lost: cancelActiveTurn arms the watchdog, escalation terminates
\* the generation and R's waiter is rejected, unless something untimely disturbs it.
TurnConverges ==
  watchdog \/ (HasExecution /\ (cancelled \/ unavailable)) ~> pc = "idle" \/ disturbed

\* A reservation submitted as cancelled has no watchdog until it is an execution.
Unwatched == cancelled /\ ~watchdog /\ pc \in PreparingPcs

\* close() gets past the running turn whatever the Worker does, and returns unless
\* it is left to an available Worker's runtime_stop hooks.  The exception is a
\* replacement Worker that never becomes ready for a turn that was submitted as
\* cancelled: nothing bounds that wait.
CloseConverges ==
  closing = "waiting" /\ ~Unwatched ~>
    closing = "closed" \/ (closing = "stopping" /\ ~unavailable) \/ disturbed

\* Neither a turn nor the close of a Session can be held up by a Worker.
CoordinatorConverges == TurnConverges /\ CloseConverges

=============================================================================
