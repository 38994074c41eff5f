------------------------------- MODULE AgentTurn -------------------------------
(***************************************************************************)
(* One turn of an Agent Worker: handleTurn of the bootstrap, runTurn of    *)
(* the WorkerGeneration and the agent loop, with the two owners they       *)
(* share with the Host's commands, TurnCancellationOwner and SteeringOwner.*)
(*                                                                         *)
(* pc is the await at which the turn stands; the Host's commands, and an   *)
(* uncaught exception that closes the Worker's Data port, come in between. *)
(* Model, tools, hooks and the Host are external: each may answer with     *)
(* whatever its contract allows.                                           *)
(*                                                                         *)
(* The wire cost of a message is one, and one more for each call it makes  *)
(* or answers.  Text, provider state and attribution of the messages and   *)
(* all events for display are left out.                                    *)
(*                                                                         *)
(* An operator whose name starts with "Mutant" is no part of the           *)
(* specification: it is what a plausible bug would make of the definition  *)
(* that follows it, and one of the properties is known to catch it.        *)
(***************************************************************************)
EXTENDS ContextProjection

CONSTANTS MaxSteps,  \* composition.maxSteps: model requests of a turn
          MaxCalls,  \* bound: calls of one model result
          MaxErrors, \* bound: uncaught exceptions of a turn
          Limits,    \* wire costs a request may have
          History    \* the earlier turns Data returns, oldest first: their messages

Messages == [role : {"user", "assistant", "tool"}, ids : SUBSET (Nat \X Nat)]

\* Every assistant message with calls is followed by the message that answers all of
\* them, and every tool message answers the calls of the one before it.
Paired(messages) ==
  /\ \A i \in DOMAIN messages :
       messages[i].ids # {} /\ messages[i].role = "assistant" =>
         /\ i < Len(messages)
         /\ messages[i + 1] = [role |-> "tool", ids |-> messages[i].ids]
  /\ \A i \in DOMAIN messages :
       messages[i].role = "tool" =>
         /\ i > 1 /\ messages[i].ids # {}
         /\ messages[i - 1] = [role |-> "assistant", ids |-> messages[i].ids]

ASSUME BoundAssumption ==
  /\ MaxSteps \in Nat \ {0}
  /\ MaxCalls \in Nat \ {0}
  /\ MaxErrors \in Nat
  /\ Limits \subseteq Nat
\* Data stores no turn but as a Worker proposed it (see TurnInvariant).
ASSUME HistoryAssumption ==
  /\ History \in Seq(Seq(Messages))
  /\ \A h \in Range(History) : Paired(h)

VARIABLES
  pc,          \* the await the turn stands at
  steps,       \* model requests made
  transcript,  \* the messages of the turn
  limit,       \* the input limit of the selected model
  omitted,     \* omittedCurrentMessageIndices
  request,     \* the request being made: history, and the positions kept of the turn
  batch,       \* the calls being executed: how many, how many done, a terminal result
  cancelState, \* TurnCancellationOwner.state
  aborted,     \* ... and its signal
  granted,     \* a cancel command was answered "requested"
  lane,        \* SteeringOwner.state; "none": there is no turn to steer
  accepted,    \* a steer command was answered "accepted"
  data,        \* the Agent Data client
  outcome,     \* the outcome of the turn
  posted       \* messages posted to the Host: proposal_ready, failure_ready, ...

cancelVars == <<cancelState, aborted, granted>>
steerVars  == <<lane, accepted>>
loopVars   == <<steps, transcript, omitted, request, batch>>
vars == <<pc, loopVars, limit, cancelVars, steerVars, data, outcome, posted>>

User == [role |-> "user", ids |-> {}]
Text == [role |-> "assistant", ids |-> {}]
Ids(step, n) == {step} \X (1 .. n)
NoBatch == [size |-> 0, done |-> 0, terminal |-> FALSE]

Outcomes == {"none", "final", "tool_terminal", "max_steps", "contract_failure", "cancelled"}
Successful == {"final", "tool_terminal"}

LoopPcs == {"project", "observe", "generate", "beforeTool", "dispatch", "afterTool"}
TurnPcs == {"beforeTurn", "drain", "commitAck", "failureAck", "afterTurn"} \cup LoopPcs

TypeOK ==
  /\ pc \in {"idle", "prepare", "over"} \cup TurnPcs
  /\ steps \in 0 .. MaxSteps
  /\ omitted \subseteq DOMAIN transcript
  /\ request.kept \subseteq DOMAIN transcript
  /\ batch.done \in 0 .. batch.size
  /\ cancelState \in {"active", "cancel_requested", "settled", "cleanup_failed"}
  /\ aborted \in BOOLEAN /\ granted \in BOOLEAN /\ accepted \in BOOLEAN
  /\ lane \in {"none", "open", "pending", "consumed", "closed"}
  /\ data \in {"idle", "open", "closed"}
  /\ outcome \in Outcomes

Init ==
  /\ pc = "idle"
  /\ steps = 0 /\ transcript = << >> /\ omitted = {} /\ batch = NoBatch
  /\ request = [history |-> << >>, kept |-> {}]
  /\ limit \in Limits
  /\ cancelState = "active" /\ aborted = FALSE /\ granted = FALSE
  /\ lane = "none" /\ accepted = FALSE
  /\ data = "idle"
  /\ outcome = "none"
  /\ posted = << >>

-----------------------------------------------------------------------------
(* How a turn ends.                                                        *)

\* requireAgentDataClient throws in failTurn as well: runTurn still posts
\* turn_settled from its finally block, then handleTurn reports the error.
Crash ==
  /\ pc' = "over"
  /\ posted' = posted \o <<"turn_settled", "worker_error">>
  /\ lane' = "none"
  /\ UNCHANGED <<cancelState, outcome>>

EndLoop(result) ==
  /\ outcome' = result
  /\ lane' = "closed"
  /\ pc' = "drain"
  /\ UNCHANGED posted

\* finishCancelled.
FinishCancelled ==
  IF cancelState = "cleanup_failed"
    THEN EndLoop("contract_failure") /\ UNCHANGED cancelState
    ELSE /\ EndLoop("cancelled")
         /\ cancelState' = IF cancelState = "cancel_requested" THEN "settled" ELSE cancelState

\* trySettleNormally, for finishNormal and finishContractFailure: a cancellation
\* that was requested before it wins.
Settle(result) ==
  IF cancelState = "active"
    THEN EndLoop(result) /\ cancelState' = "settled"
    ELSE FinishCancelled

\* finishContractFailure of a CancellationCleanupError.
FinishCleanupFailed ==
  /\ EndLoop("contract_failure")
  /\ cancelState' = IF cancelState = "settled" THEN cancelState ELSE "cleanup_failed"

\* An exception leaves the loop or comes before it: runTurn's catch block reports a
\* failure, unless the port is closed.
Throw ==
  IF data = "closed"
    THEN Crash
    ELSE /\ pc' = "drain"
         /\ outcome' = IF aborted THEN "cancelled" ELSE "contract_failure"
         /\ UNCHANGED <<posted, lane, cancelState>>

\* The head of the loop.
NextStep ==
  IF aborted THEN FinishCancelled
  ELSE IF steps >= MaxSteps THEN Settle("max_steps")
  ELSE pc' = "project" /\ UNCHANGED <<outcome, lane, posted, cancelState>>

-----------------------------------------------------------------------------
(* Before the loop.                                                        *)

\* The Host's turn command.
Begin ==
  /\ pc = "idle"
  /\ pc' = "prepare"
  /\ data' = "open"
  /\ UNCHANGED <<loopVars, limit, cancelVars, steerVars, outcome, posted>>

MutantPrepared ==
  /\ pc = "prepare"
  /\ data = "open"
  /\ pc' = "beforeTurn"
  /\ lane' = "open"
  /\ UNCHANGED <<loopVars, limit, cancelVars, accepted, data, outcome, posted>>

\* Data returned the context basis: runTurn begins, with a cancellation that was
\* requested while it was being prepared.
Prepared ==
  /\ pc = "prepare"
  /\ data = "open"
  /\ pc' = "beforeTurn"
  /\ lane' = "open"
  /\ aborted' = granted
  /\ cancelState' = IF granted THEN "cancel_requested" ELSE "active"
  /\ UNCHANGED <<loopVars, limit, granted, accepted, data, outcome, posted>>

\* ... or the request failed: there was no turn to settle.
PrepareFails ==
  /\ pc = "prepare"
  /\ pc' = "over"
  /\ posted' = Append(posted, "worker_error")
  /\ UNCHANGED <<loopVars, limit, cancelVars, steerVars, data, outcome>>

\* The before_turn hooks are done; the first messages are delivered.
HooksDone ==
  /\ pc = "beforeTurn"
  /\ transcript' = <<User>>
  /\ IF data = "closed" THEN Crash ELSE NextStep
  /\ UNCHANGED <<steps, omitted, request, batch, limit, aborted, granted, accepted, data>>

\* A before_turn hook failed.  The steering lane is left open.
BeforeTurnFails ==
  /\ pc = "beforeTurn"
  /\ Throw
  /\ UNCHANGED <<loopVars, limit, aborted, granted, accepted, data>>

-----------------------------------------------------------------------------
(* One model request.                                                      *)

Cost(messages) == FoldLeft(LAMBDA sum, m : sum + 1 + Cardinality(m.ids), 0, messages)

Fits(messages) == Cost(messages) <= limit

\* The positions of t without those in done and without its removable units up to
\* the one at cut.
Without(t, protected, done, cut) ==
  (DOMAIN t \ done) \ UNION {Unit(t, i) : i \in {s \in Removable(t, protected) : s <= cut}}

\* The oldest removable units are left out, one after the other, until the turn
\* fits: what remains of it.
KeptCurrent ==
  LET protected == CurrentProtected(transcript)
      cuts == {0} \cup {i \in Removable(transcript, protected) :
                          Unit(transcript, i) \cap omitted = {}}
      kept(cut) == Without(transcript, protected, omitted, cut)
      fitting == {cut \in cuts : Fits(Kept(transcript, kept(cut)))}
  IN  kept(IF fitting = {} THEN Max(cuts) ELSE Min(fitting))

\* Earlier turns, latest first, as long as they fit as a whole; of the latest, if it
\* does not, what is left when its oldest removable units are.
SelectedHistory(current) ==
  LET from(k) == FlattenSeq(SubSeq(History, k, Len(History)))
      starts == {k \in DOMAIN History : \A j \in k .. Len(History) : Fits(from(j) \o current)}
      latest == Last(History)
      protected == RecentHistoryProtected(latest)
      partial(cut) == Kept(latest, Without(latest, protected, {}, cut))
      cuts == {cut \in Removable(latest, protected) : Fits(partial(cut) \o current)}
  IN  IF Len(current) < Len(transcript) \/ History = << >> THEN << >>
      ELSE IF starts # {} THEN from(Min(starts))
      ELSE IF cuts # {} THEN partial(Min(cuts))
      ELSE << >>

\* projectParentRequestWithSources returned: the request is copied and counted.
Projected ==
  /\ pc = "project"
  /\ omitted' = DOMAIN transcript \ KeptCurrent
  /\ LET current == Kept(transcript, KeptCurrent) IN
       /\ data = "closed" => omitted' # {}
       /\ Fits(current)
       /\ IF aborted
            THEN FinishCancelled /\ UNCHANGED <<steps, request>>
            ELSE /\ request' = [history |-> SelectedHistory(current), kept |-> KeptCurrent]
                 /\ steps' = steps + 1
                 /\ pc' = "observe"
                 /\ UNCHANGED <<cancelState, outcome, lane, posted>>
  /\ UNCHANGED <<transcript, batch, limit, aborted, granted, accepted, data>>

\* What must stay does not fit, or Data did not return an earlier turn.
ProjectionFails ==
  /\ pc = "project"
  /\ omitted' = DOMAIN transcript \ KeptCurrent
  /\ Fits(Kept(transcript, KeptCurrent)) => omitted' = {}
  /\ IF aborted THEN FinishCancelled ELSE Settle("contract_failure")
  /\ UNCHANGED <<steps, transcript, request, batch, limit, aborted, granted, accepted, data>>

\* The request is posted to Data, whose answer nothing waits for, and made.
Observed ==
  /\ pc = "observe"
  /\ IF data = "closed"
       THEN Settle("contract_failure")
       ELSE pc' = "generate" /\ UNCHANGED <<cancelState, outcome, lane, posted>>
  /\ UNCHANGED <<loopVars, limit, aborted, granted, accepted, data>>

-----------------------------------------------------------------------------
(* The result of the model.                                                *)

\* Steering that waits becomes the next user message.
Steered(messages) ==
  IF lane = "pending" THEN Append(messages, User) ELSE messages

\* The step is complete: its last message is in messages.
NextRequest(messages) ==
  /\ transcript' = Steered(messages)
  /\ IF steps >= MaxSteps
       THEN Settle("max_steps")
       ELSE /\ pc' = "project"
            /\ lane' = IF lane = "pending" THEN "consumed" ELSE lane
            /\ UNCHANGED <<outcome, posted, cancelState>>

\* The model, or its transport, gives way to the cancellation, or was done by then.
GenerateCancelled ==
  /\ pc = "generate"
  /\ aborted
  /\ FinishCancelled
  /\ UNCHANGED <<loopVars, limit, aborted, granted, accepted, data>>

MutantModelFinal ==
  /\ pc = "generate"
  /\ ~aborted
  /\ data # "closed"
  /\ transcript' = Append(transcript, Text)
  /\ Settle("final")
  /\ UNCHANGED <<steps, omitted, request, batch, limit, aborted, granted, accepted, data>>

\* A final text: the turn goes on if the user has steered it.
ModelFinal ==
  /\ pc = "generate"
  /\ ~aborted
  /\ IF data = "closed"
       THEN transcript' = Append(transcript, Text) /\ Throw
     ELSE IF lane = "pending"
       THEN NextRequest(Append(transcript, Text))
     ELSE transcript' = Append(transcript, Text) /\ Settle("final")
  /\ UNCHANGED <<steps, omitted, request, batch, limit, aborted, granted, accepted, data>>

\* n calls; those of a terminal tool that is not alone are answered with errors.
ModelCalls(n, invalidTerminalBatch) ==
  /\ pc = "generate"
  /\ ~aborted
  /\ invalidTerminalBatch => n > 1
  /\ LET calls == [role |-> "assistant", ids |-> Ids(steps, n)]
         asked == Append(transcript, calls)
     IN  IF data = "closed"
           THEN transcript' = asked /\ Throw /\ UNCHANGED batch
         ELSE IF ~invalidTerminalBatch
           THEN /\ transcript' = asked
                /\ batch' = [size |-> n, done |-> 0, terminal |-> FALSE]
                /\ pc' = "beforeTool"
                /\ UNCHANGED <<outcome, lane, posted, cancelState>>
         ELSE /\ NextRequest(Append(asked, [calls EXCEPT !.role = "tool"]))
              /\ UNCHANGED batch
  /\ UNCHANGED <<steps, omitted, request, limit, aborted, granted, accepted, data>>

\* The model fails, or what it returns is no model result.
ModelFails ==
  /\ pc = "generate"
  /\ ~aborted
  /\ Settle("contract_failure")
  /\ UNCHANGED <<loopVars, limit, aborted, granted, accepted, data>>

\* The transport did not give up what the request held.
ModelCleanupFails ==
  /\ pc = "generate"
  /\ aborted
  /\ FinishCleanupFailed
  /\ UNCHANGED <<loopVars, limit, aborted, granted, accepted, data>>

-----------------------------------------------------------------------------
(* One call of the batch after the other.                                  *)

MutantCallDone(terminal) ==
  /\ batch' = [batch EXCEPT !.done = @ + 1, !.terminal = @ \/ terminal]
  /\ IF batch'.terminal
       THEN Settle("tool_terminal") /\ UNCHANGED transcript
     ELSE IF batch'.done < batch.size
       THEN IF aborted THEN FinishCancelled /\ UNCHANGED transcript
            ELSE /\ pc' = "beforeTool"
                 /\ UNCHANGED <<transcript, outcome, lane, posted, cancelState>>
     ELSE NextRequest(Append(transcript, [role |-> "tool", ids |-> Ids(steps, batch.size)]))

\* The result of a call is there: the next call, or the message with all results and
\* the end of the step.
CallDone(terminal) ==
  /\ batch' = [batch EXCEPT !.done = @ + 1, !.terminal = @ \/ terminal]
  /\ LET answered == Append(transcript, [role |-> "tool", ids |-> Ids(steps, batch.size)]) IN
       IF batch'.done < batch.size
         THEN IF aborted THEN FinishCancelled /\ UNCHANGED transcript
              ELSE /\ pc' = "beforeTool"
                   /\ UNCHANGED <<transcript, outcome, lane, posted, cancelState>>
       ELSE IF aborted
         THEN FinishCancelled /\ transcript' = answered
       ELSE IF batch'.terminal
         THEN Settle("tool_terminal") /\ transcript' = answered
       ELSE NextRequest(answered)

CallUnchanged ==
  UNCHANGED <<steps, omitted, request, limit, aborted, granted, accepted, data>>

\* The before_tool hooks are done; one that fails answers the call itself.
BeforeToolDone(failed) ==
  /\ pc = "beforeTool"
  /\ IF data = "closed"
       THEN Throw /\ UNCHANGED <<transcript, batch>>
     ELSE IF aborted
       THEN FinishCancelled /\ UNCHANGED <<transcript, batch>>
     ELSE IF failed
       THEN CallDone(FALSE)
     ELSE /\ pc' = "dispatch"
          /\ UNCHANGED <<transcript, batch, outcome, lane, posted, cancelState>>
  /\ CallUnchanged

\* A result or an error of the tool.  A terminal tool ends the turn with its result;
\* it is the only call of its batch.
Dispatched(terminal) ==
  /\ pc = "dispatch"
  /\ ~aborted
  /\ terminal => batch.size = 1
  /\ pc' = "afterTool"
  /\ batch' = [batch EXCEPT !.terminal = terminal]
  /\ UNCHANGED <<transcript, outcome, lane, posted, cancelState>>
  /\ CallUnchanged

\* The tool gives way to the cancellation, or was done by then.
DispatchCancelled ==
  /\ pc = "dispatch"
  /\ aborted
  /\ FinishCancelled
  /\ UNCHANGED <<transcript, batch>>
  /\ CallUnchanged

\* The tool did not give up what it held.
DispatchCleanupFails ==
  /\ pc = "dispatch"
  /\ FinishCleanupFailed
  /\ UNCHANGED <<transcript, batch>>
  /\ CallUnchanged

\* The after_tool hooks are done; one that fails only changes the text.
AfterToolDone ==
  /\ pc = "afterTool"
  /\ IF data = "closed"
       THEN Throw /\ UNCHANGED <<transcript, batch>>
       ELSE CallDone(FALSE)
  /\ CallUnchanged

-----------------------------------------------------------------------------
(* The end of the turn.                                                    *)

\* The evidence is complete: the turn is proposed, or reported as a failure.
Drained ==
  /\ pc = "drain"
  /\ IF data = "closed" THEN Crash
     ELSE /\ \/ /\ outcome \in Successful /\ pc' = "commitAck"
                /\ posted' = Append(posted, "proposal_ready")
             \/ /\ outcome \notin Successful /\ pc' = "failureAck"
                /\ posted' = Append(posted, "failure_ready")
          /\ UNCHANGED <<lane, cancelState, outcome>>
  /\ UNCHANGED <<loopVars, limit, aborted, granted, accepted, data>>

\* The Host's acknowledgement, of a proposal it accepted.  The Worker reports the end
\* of the turn, which needs the port.
HostAccepts ==
  /\ pc = "commitAck"
  /\ IF data = "closed" THEN Crash
     ELSE pc' = "afterTurn" /\ UNCHANGED <<lane, posted, cancelState, outcome>>
  /\ UNCHANGED <<loopVars, limit, aborted, granted, accepted, data>>

\* ... of a proposal it refused or of a failure, which Data has stored.
HostSettles ==
  /\ pc \in {"commitAck", "failureAck"}
  /\ pc' = "afterTurn"
  /\ UNCHANGED <<loopVars, limit, cancelVars, steerVars, data, outcome, posted>>

\* afterSettlement and the finally block of runTurn: the after_turn hooks are done and
\* Data has stored what they contribute.
AfterTurnDone ==
  /\ pc = "afterTurn"
  /\ pc' = "over"
  /\ lane' = "none"
  /\ posted' = Append(posted, "turn_settled")
  /\ UNCHANGED <<loopVars, limit, cancelVars, accepted, data, outcome>>

\* ... or Data has not.
AfterTurnFails ==
  /\ pc = "afterTurn"
  /\ pc' = "over"
  /\ lane' = "none"
  /\ posted' = Append(posted, "worker_error")
  /\ UNCHANGED <<loopVars, limit, cancelVars, accepted, data, outcome>>

-----------------------------------------------------------------------------
(* What comes in between.                                                  *)

\* The Host's cancel command, when it is answered "requested".
Cancel ==
  /\ \/ /\ pc = "prepare"
        /\ ~granted
        /\ UNCHANGED <<cancelState, aborted>>
     \/ /\ pc \in TurnPcs
        /\ cancelState = "active"
        /\ cancelState' = "cancel_requested"
        /\ aborted' = TRUE
  /\ granted' = TRUE
  /\ UNCHANGED <<pc, loopVars, limit, steerVars, data, outcome, posted>>

\* The Host's steer command, when it is answered "accepted".
Steer ==
  /\ lane = "open"
  /\ lane' = "pending"
  /\ accepted' = TRUE
  /\ UNCHANGED <<pc, loopVars, limit, cancelVars, data, outcome, posted>>

\* Mutant: the port stays open.
MutantUncaughtError ==
  /\ pc \in {"prepare"} \cup TurnPcs
  /\ Cardinality({i \in DOMAIN posted : posted[i] = "worker_error"}) < MaxErrors
  /\ posted' = Append(posted, "worker_error")
  /\ UNCHANGED <<pc, loopVars, limit, cancelVars, steerVars, data, outcome>>

\* An exception nothing catches (scope.onerror) closes the Data port and is reported at
\* once; the turn goes on and finds out when it next needs the port.
UncaughtError ==
  /\ pc \in {"prepare"} \cup TurnPcs
  /\ Cardinality({i \in DOMAIN posted : posted[i] = "worker_error"}) < MaxErrors
  /\ data' = "closed"
  /\ posted' = Append(posted, "worker_error")
  /\ UNCHANGED <<pc, loopVars, limit, cancelVars, steerVars, outcome>>

Generate ==
  \/ ModelFinal \/ ModelFails
  \/ \E n \in 1 .. MaxCalls, invalid \in BOOLEAN : ModelCalls(n, invalid)

Tool ==
  \/ \E failed \in BOOLEAN : BeforeToolDone(failed)
  \/ \E terminal \in BOOLEAN : Dispatched(terminal)
  \/ AfterToolDone

Next ==
  \/ Begin \/ Prepared \/ PrepareFails
  \/ HooksDone \/ BeforeTurnFails
  \/ Projected \/ ProjectionFails \/ Observed
  \/ Generate \/ GenerateCancelled \/ ModelCleanupFails
  \/ Tool \/ DispatchCancelled \/ DispatchCleanupFails
  \/ Drained \/ HostAccepts \/ HostSettles
  \/ AfterTurnDone \/ AfterTurnFails
  \/ Cancel \/ Steer \/ UncaughtError

Spec == Init /\ [][Next]_vars

\* What ends by itself: Data answers and hooks return, a model and a tool return once
\* they are aborted and not before, the Host acknowledges what it was sent.  No two of
\* these are awaited at once, so one condition is enough for all of them.
Awaited ==
  \/ Prepared \/ PrepareFails
  \/ HooksDone \/ BeforeTurnFails
  \/ Observed
  \/ GenerateCancelled \/ DispatchCancelled
  \/ \E failed \in BOOLEAN : BeforeToolDone(failed)
  \/ AfterToolDone
  \/ Drained
  \/ HostSettles
  \/ AfterTurnDone

\* The projection ends as well; something always follows it.
FairSpec ==
  /\ Spec
  /\ WF_vars(Awaited)
  /\ []<>(pc # "project")

-----------------------------------------------------------------------------
(* Properties.                                                             *)

\* The type invariant, and: what a turn proposes for the Session's history, at whichever
\* step it ended and whatever came in between, is a transcript no later request can be
\* refused for: it starts with the user's message, has a result for every call, and ends
\* with the answer.
TurnInvariant ==
  /\ TypeOK
  /\ pc = "commitAck" =>
       /\ transcript[1] = User
       /\ Paired(transcript)
       /\ Last(transcript).role = IF outcome = "final" THEN "assistant" ELSE "tool"

\* However a request is cut down to fit the model, it keeps every message of the user,
\* the steering included, and the latest exchange; calls and their results are left out
\* together, of earlier turns too; and earlier turns are only there while nothing of the
\* running one is left out.
RequestKeepsExchanges ==
  pc \in {"observe", "generate"} =>
    LET current == Kept(transcript, request.kept)
        exchanges == {i \in DOMAIN transcript : transcript[i].role = "assistant"}
    IN  /\ Fits(request.history \o current)
        /\ Paired(request.history \o current)
        /\ \A i \in DOMAIN transcript : transcript[i] = User => i \in request.kept
        /\ exchanges # {} => Unit(transcript, Max(exchanges)) \subseteq request.kept
        /\ request.history # << >> => request.kept = DOMAIN transcript

\* A turn does not end with an answer that was given before the steering the Worker
\* accepted was heard.
SteeringIsHeard ==
  accepted /\ outcome = "final" =>
    \E i \in 2 .. Len(transcript) - 1 : transcript[i] = User

\* A turn whose cancellation was accepted ends, whatever the model and the tools were
\* doing, without their help but for what they owe to the abort signal.
CancelEndsTurn == granted ~> pc = "over"

Contract == INSTANCE TurnContract WITH
  stage <- CASE pc = "idle" -> "idle"
             [] pc \in {"commitAck", "failureAck"} -> "answered"
             [] pc = "afterTurn" -> "hooks"
             [] pc = "over" -> "over"
             [] OTHER -> "running"

\* The loop, its hooks, its cancellation and its failures implement what the Host relies
\* on: one answer, one settlement, no proposal of a cancelled turn, and no answer behind an
\* error that was reported, however far the turn still gets without its port.
ImplementsContract == Contract!Spec

=============================================================================
