----------------------------- MODULE ProcessOwner -----------------------------
(***************************************************************************)
(* The tool processes of one Agent Worker generation: WorkerProcessOwner   *)
(* and LinuxProcessExecutor in the Host, WorkerProcessExecutor and the     *)
(* tool calls in the Worker, and for each operation the runner process     *)
(* that anchors a process group, its command, the command's background     *)
(* descendants, and one that may leave the group and keep its pipes.  *)
(*                                                                         *)
(* Host and Worker talk over two FIFO ports.  In the Host two coroutines   *)
(* per operation interleave at their awaits, manageLifetime (life) and     *)
(* stop (stop), with the cancellation of an execution and the close of the *)
(* generation.  Output bytes are left out: drained says that both readers  *)
(* have reached their end.                                                 *)
(***************************************************************************)
EXTENDS Integers, Sequences, FiniteSets, Functions

CONSTANTS Ops,      \* process operations
          MaxTurns, \* bound: executions of the generation
          Faulty,   \* bound: those whose runner may be killed or signal may fail
          Forking,  \* bound: those whose command leaves a process in the group
          Escaping  \* bound: those with a process that leaves the group

ASSUME OpsAssumption == IsFiniteSet(Ops) /\ Ops # {}
ASSUME BoundAssumption == MaxTurns \in Nat

VARIABLES
  proc,        \* the physical side of each operation and its two coroutines
  escaped,     \* per operation: a descendant outside the group holds its output pipes
  owned,       \* WorkerProcessOwner.operations and their flags
  cancellations, \* per cancelled execution: the operations its cancellation stops
  closing,     \* the owner's close: "no", "closing", "closed", "failed"
  closeOps,    \* the operations that close stops
  call,        \* the tool call of each operation in the Worker
  seen,        \* per operation: the events the Worker has received
  cancelSeen,  \* the Worker's signal is aborted
  turn,        \* the current execution
  settled,     \* "running"; the Worker has posted its settlement; the Host has it
  toOwner, toWorker

physicalVars == <<proc, escaped>>
ownerVars    == <<owned, cancellations, closing, closeOps>>
workerVars   == <<call, seen, cancelSeen>>
turnVars     == <<turn, settled>>
ports        == <<toOwner, toWorker>>
vars == <<physicalVars, ownerVars, workerVars, turnVars, ports>>

Turns == 1 .. MaxTurns

TypeOK ==
  /\ proc \in [Ops -> [runner : {"none", "launching", "ready", "dead"},
                       command : {"none", "running", "done"},
                       background : BOOLEAN,
                       status : {"pending", "known", "error"},
                       input : {"open", "ended"},
                       anchorReleased : BOOLEAN,
                       life : {"none", "spawn", "status", "polling", "joinStop", "exit",
                               "failing", "closed", "failed"},
                       stop : {"none", "ready", "anchored", "term", "kill", "exit", "done",
                               "failed"}]]
  /\ escaped \in [Ops -> BOOLEAN]
  /\ owned \in [Ops -> [in : BOOLEAN, turn : 0 .. MaxTurns, released : BOOLEAN,
                        drained : BOOLEAN, closed : BOOLEAN,
                        awaiting : SUBSET {"start", "stop"}]]
  /\ DOMAIN cancellations \subseteq Turns
  /\ \A t \in DOMAIN cancellations : cancellations[t] \subseteq Ops
  /\ closing \in {"no", "closing", "closed", "failed"}
  /\ closeOps \subseteq Ops
  /\ call \in [Ops -> {"none", "starting", "running", "stopping", "closing", "releasing",
                       "ended", "dirty"}]
  /\ seen \in [Ops -> SUBSET {"status", "closed", "error"}]
  /\ cancelSeen \in BOOLEAN
  /\ turn \in 1 .. (MaxTurns + 1)
  /\ settled \in {"running", "posted", "received"}
  /\ Len(toOwner) <= Cardinality(Ops)  \* one request of each call, or the settlement
  /\ toOwner \in Seq((Ops \X {"start", "stop", "release"}) \cup {<<"turn", "settled">>})
  /\ toWorker \in Seq(Ops \X {"started", "stopped", "released", "refused", "status", "closed",
                              "error"})

Init ==
  /\ proc = [o \in Ops |-> [runner |-> "none", command |-> "none", background |-> FALSE,
                            status |-> "pending", input |-> "open", anchorReleased |-> FALSE,
                            life |-> "none", stop |-> "none"]]
  /\ escaped = [o \in Ops |-> FALSE]
  /\ owned = [o \in Ops |-> [in |-> FALSE, turn |-> 0, released |-> FALSE, drained |-> FALSE,
                             closed |-> FALSE, awaiting |-> {}]]
  /\ cancellations = << >>
  /\ closing = "no" /\ closeOps = {}
  /\ call = [o \in Ops |-> "none"]
  /\ seen = [o \in Ops |-> {}]
  /\ cancelSeen = FALSE
  /\ turn = 1
  /\ settled = "running"
  /\ toOwner = << >> /\ toWorker = << >>

MutantLive(o) == proc[o].command = "running"

\* remaining(group): live members of the group other than the runner.
Live(o) == proc[o].command = "running" \/ proc[o].background

\* The promises of stop and closed that a caller of operation.stop() awaits.
Stopped(o)    == proc[o].stop = "done" /\ proc[o].life = "closed"
StopFailed(o) == proc[o].stop = "failed" \/ (proc[o].stop = "done" /\ proc[o].life = "failed")
Ended(o)      == proc[o].life \in {"closed", "failed"}

Cancelled(t) == t \in DOMAIN cancellations

WorkerAlive == closing = "no"

\* Posting to a terminated Worker has no effect.
Post(message) == toWorker' = IF WorkerAlive THEN Append(toWorker, message) ELSE toWorker

-----------------------------------------------------------------------------
(* The process group, as the operating system and the runner move it.      *)

\* The OwnedProcess is constructed and spawns its runner; if the spawn fails,
\* closed is rejected and nothing runs.
Spawn(o) ==
  /\ proc[o].life = "spawn"
  /\ \/ /\ proc' = [proc EXCEPT ![o].life = "status", ![o].runner = "launching"]
        /\ UNCHANGED ports
     \/ /\ proc' = [proc EXCEPT ![o].life = "failed", ![o].runner = "dead",
                                ![o].status = "error"]
        /\ Post(<<o, "error">>) /\ UNCHANGED toOwner
  /\ UNCHANGED <<escaped, ownerVars, workerVars, turnVars>>

\* The runner reports started, or ends before that.
RunnerStarts(o) ==
  /\ proc[o].runner = "launching"
  /\ \/ proc' = [proc EXCEPT ![o].runner = "ready", ![o].command = "running"]
     \/ proc' = [proc EXCEPT ![o].runner = "dead", ![o].status = "error"]
  /\ UNCHANGED <<escaped, ownerVars, workerVars, turnVars, ports>>

\* The command starts a process that outlives it in the group.
Forks(o) ==
  /\ o \in Forking
  /\ proc[o].command = "running" /\ ~proc[o].background
  /\ proc' = [proc EXCEPT ![o].background = TRUE]
  /\ UNCHANGED <<escaped, ownerVars, workerVars, turnVars, ports>>

\* The command ends, by itself, by TERM or by the runner's kill; a live runner
\* reports its status.
CommandExits(o) ==
  /\ proc[o].command = "running"
  /\ proc' = [proc EXCEPT ![o].command = "done",
                          ![o].status = IF proc[o].runner = "ready" THEN "known" ELSE @]
  /\ IF proc[o].runner = "ready" THEN Post(<<o, "status">>) ELSE UNCHANGED toWorker
  /\ UNCHANGED <<escaped, ownerVars, workerVars, turnVars, toOwner>>

BackgroundExits(o) ==
  /\ proc[o].background
  /\ proc' = [proc EXCEPT ![o].background = FALSE]
  /\ UNCHANGED <<escaped, ownerVars, workerVars, turnVars, ports>>

\* A process of the command goes into a session of its own (setsid), out of reach
\* of every signal to the group, with the output pipes it has inherited.
Escapes(o) ==
  /\ o \in Escaping
  /\ Live(o) /\ ~escaped[o]
  /\ escaped' = [escaped EXCEPT ![o] = TRUE]
  /\ UNCHANGED <<proc, ownerVars, workerVars, turnVars, ports>>

EscapedExits(o) ==
  /\ escaped[o]
  /\ escaped' = [escaped EXCEPT ![o] = FALSE]
  /\ UNCHANGED <<proc, ownerVars, workerVars, turnVars, ports>>

\* runProcessRunner ends when its command has ended and its input is closed.
RunnerExits(o) ==
  /\ proc[o].runner = "ready"
  /\ proc[o].command = "done"
  /\ proc[o].input = "ended"
  /\ proc' = [proc EXCEPT ![o].runner = "dead"]
  /\ UNCHANGED <<escaped, ownerVars, workerVars, turnVars, ports>>

\* Somebody else kills the runner: the end of its control pipe rejects status.
RunnerKilled(o) ==
  /\ o \in Faulty
  /\ proc[o].runner = "ready"
  /\ proc' = [proc EXCEPT ![o].runner = "dead",
                          ![o].status = IF @ = "pending" THEN "error" ELSE @]
  /\ UNCHANGED <<escaped, ownerVars, workerVars, turnVars, ports>>

-----------------------------------------------------------------------------
(* manageLifetime.                                                         *)

\* pipesClosed: the runner has been reaped and nobody holds the output pipes.
PipesClosed(o) == proc[o].runner = "dead" /\ ~Live(o) /\ ~escaped[o]

\* stop() creates its promise once.
WithStop(p) == IF p.stop = "none" THEN [p EXCEPT !.stop = "ready"] ELSE p

LifeStatus(o) ==
  /\ proc[o].life = "status"
  /\ \/ /\ proc[o].status = "known"
        /\ proc' = [proc EXCEPT ![o].life = "polling"]
     \/ /\ proc[o].status = "error"
        /\ proc' = [proc EXCEPT ![o] = [WithStop(@) EXCEPT !.life = "failing"]]
  /\ UNCHANGED <<escaped, ownerVars, workerVars, turnVars, ports>>

\* No member is left: join a stop that has begun, or release the anchor.
LifePolled(p) ==
  IF p.stop # "none"
  THEN [p EXCEPT !.life = "joinStop"]
  ELSE [p EXCEPT !.life = "exit", !.anchorReleased = TRUE, !.input = "ended"]

LifePolls(o) ==
  /\ proc[o].life = "polling"
  /\ proc[o].anchorReleased \/ ~Live(o)
  /\ proc' = [proc EXCEPT ![o] = LifePolled(@)]
  /\ UNCHANGED <<escaped, ownerVars, workerVars, turnVars, ports>>

\* The lifetime is over: the owner notes it, tells the Worker, and forgets an
\* operation that is released and drained.
LifeEnds(o) ==
  /\ \/ /\ proc[o].life = "joinStop" /\ proc[o].stop = "done"
        /\ proc' = [proc EXCEPT ![o].life = "exit", ![o].input = "ended"]
        /\ UNCHANGED <<owned, toWorker>>
     \/ /\ \/ proc[o].life = "joinStop" /\ proc[o].stop = "failed"
           \/ proc[o].life = "failing" /\ proc[o].stop \in {"done", "failed"}
        /\ proc' = [proc EXCEPT ![o].life = "failed"]
        /\ Post(<<o, "error">>)
        /\ UNCHANGED owned
     \/ /\ proc[o].life = "exit" /\ PipesClosed(o)
        /\ proc' = [proc EXCEPT ![o].life = "closed"]
        /\ owned' = [owned EXCEPT ![o].closed = TRUE,
                                  ![o].in = @ /\ ~(owned[o].released /\ owned[o].drained)]
        /\ Post(<<o, "closed">>)
  /\ UNCHANGED <<escaped, cancellations, closing, closeOps, workerVars, turnVars, toOwner>>

\* Both readers are done: at the end of the output, because a stop has finished
\* the capture, or because the call has detached from them.
Drain(o) ==
  /\ owned[o].in /\ ~owned[o].drained
  /\ \/ PipesClosed(o)
     \/ proc[o].stop \in {"anchored", "term", "kill", "exit", "done"}
     \/ call[o] \notin {"none", "starting"}
  /\ owned' = [owned EXCEPT ![o].drained = TRUE,
                            ![o].in = ~(owned[o].closed /\ owned[o].released)]
  /\ UNCHANGED <<escaped, proc, cancellations, closing, closeOps, workerVars, turnVars, ports>>

-----------------------------------------------------------------------------
(* stop.                                                                   *)

\* The runner's started message has come, or it never will.
StopBegins(o) ==
  /\ proc[o].stop = "ready"
  /\ proc[o].life # "spawn"
  /\ \/ /\ proc[o].command # "none"
        /\ proc' = [proc EXCEPT ![o].stop = IF proc[o].anchorReleased THEN "anchored" ELSE "term"]
     \/ /\ proc[o].command = "none" /\ proc[o].runner = "dead"
        /\ proc' = [proc EXCEPT ![o].stop = "failed"]
  /\ UNCHANGED <<escaped, ownerVars, workerVars, turnVars, ports>>

\* After TERM: nobody is left and the runner's input is closed, or the grace is
\* over and the runner is told to kill its command.
StopGrace(o) ==
  /\ proc[o].stop = "term"
  /\ \/ ~Live(o) /\ proc' = [proc EXCEPT ![o].stop = "exit", ![o].input = "ended"]
     \/ Live(o) /\ proc' = [proc EXCEPT ![o].stop = "kill"]
     \/ o \in Faulty /\ proc' = [proc EXCEPT ![o].stop = "failed"]
  /\ UNCHANGED <<escaped, ownerVars, workerVars, turnVars, ports>>

MutantKilled(p) ==
  [p EXCEPT !.stop = "exit", !.runner = "dead"]

\* KILL to the whole group, runner included.
Killed(p) ==
  [p EXCEPT !.stop = "exit", !.runner = "dead", !.command = "done", !.background = FALSE]

\* The command's status is awaited before the group is killed.
StopKills(o) ==
  /\ proc[o].stop = "kill"
  /\ \/ proc[o].status = "known" /\ proc' = [proc EXCEPT ![o] = Killed(@)]
     \/ proc[o].status = "error" /\ proc' = [proc EXCEPT ![o].stop = "failed"]
     \/ o \in Faulty /\ proc' = [proc EXCEPT ![o].stop = "failed"]
  /\ UNCHANGED <<escaped, ownerVars, workerVars, turnVars, ports>>

\* A stop that found the anchor released awaits the runner alone; the others
\* wait until the group is empty, and then for the end of the pipes.
StopEnds(o) ==
  /\ \/ proc[o].stop = "anchored" /\ proc[o].runner = "dead"
     \/ proc[o].stop = "exit" /\ PipesClosed(o)
  /\ proc' = [proc EXCEPT ![o].stop = "done", ![o].anchorReleased = TRUE]
  /\ UNCHANGED <<escaped, ownerVars, workerVars, turnVars, ports>>

-----------------------------------------------------------------------------
(* WorkerProcessOwner.                                                     *)

Requested(message) ==
  /\ toOwner # << >>
  /\ Head(toOwner) = message
  /\ toOwner' = Tail(toOwner)

\* A start for an execution whose cancellation is under way is stopped at once,
\* and answered when it has stopped.
StartedProcess(o) ==
  IF Cancelled(turn) THEN [WithStop(proc[o]) EXCEPT !.life = "spawn"]
                     ELSE [proc[o] EXCEPT !.life = "spawn"]

HandleStart(o) ==
  /\ Requested(<<o, "start">>)
  /\ closing = "no"
  /\ proc' = [proc EXCEPT ![o] = StartedProcess(o)]
  /\ owned' = [owned EXCEPT ![o].in = TRUE, ![o].turn = turn,
                            ![o].awaiting = IF Cancelled(turn) THEN {"start"} ELSE {}]
  /\ IF Cancelled(turn) THEN UNCHANGED toWorker ELSE Post(<<o, "started">>)
  /\ UNCHANGED <<escaped, cancellations, closing, closeOps, workerVars, turnVars>>

HandleStop(o) ==
  /\ Requested(<<o, "stop">>)
  /\ \/ /\ owned[o].in
        /\ proc' = [proc EXCEPT ![o] = WithStop(@)]
        /\ owned' = [owned EXCEPT ![o].awaiting = @ \cup {"stop"}]
        /\ UNCHANGED toWorker
     \/ /\ ~owned[o].in
        /\ Post(<<o, "refused">>)
        /\ UNCHANGED <<proc, owned>>
  /\ UNCHANGED <<escaped, cancellations, closing, closeOps, workerVars, turnVars>>

HandleRelease(o) ==
  /\ Requested(<<o, "release">>)
  /\ \/ /\ owned[o].in
        /\ owned' = [owned EXCEPT ![o].released = TRUE,
                                  ![o].in = ~(owned[o].closed /\ owned[o].drained)]
        /\ Post(<<o, "released">>)
     \/ /\ ~owned[o].in
        /\ Post(<<o, "refused">>)
        /\ UNCHANGED owned
  /\ UNCHANGED <<escaped, proc, cancellations, closing, closeOps, workerVars, turnVars>>

\* The stop that a request waits for has ended.
AnswerStop(o) ==
  /\ \E k \in owned[o].awaiting :
       /\ owned' = [owned EXCEPT ![o].awaiting = @ \ {k}]
       /\ \/ Stopped(o) /\ Post(<<o, IF k = "start" THEN "started" ELSE "stopped">>)
          \/ StopFailed(o) /\ Post(<<o, "refused">>)
  /\ UNCHANGED <<escaped, proc, cancellations, closing, closeOps, workerVars, turnVars, toOwner>>

Stop(S) == proc' = [o \in Ops |-> IF o \in S THEN WithStop(proc[o]) ELSE proc[o]]

\* cancelExecution: every operation of the execution that is not released.
CancelExecution ==
  /\ turn \in Turns
  /\ ~Cancelled(turn)
  /\ closing = "no"
  /\ LET S == {o \in Ops : owned[o].in /\ owned[o].turn = turn /\ ~owned[o].released}
     IN  /\ Stop(S)
         /\ cancellations' = [t \in DOMAIN cancellations \cup {turn} |->
                                IF t = turn THEN S ELSE cancellations[t]]
  /\ UNCHANGED <<escaped, owned, closing, closeOps, workerVars, turnVars, ports>>

HandleSettled ==
  /\ Requested(<<"turn", "settled">>)
  /\ settled' = "received"
  /\ UNCHANGED <<escaped, proc, ownerVars, workerVars, turn, toWorker>>

\* The promise of cancelExecution, a Promise.all of the stops: it is fulfilled by
\* all of them and rejected by the first that fails.
CancelFulfilled(t) == \A o \in cancellations[t] : Stopped(o)
CancelRejected(t)  == \E o \in cancellations[t] : StopFailed(o)

MutantCleanedUp == Cancelled(turn) => CancelFulfilled(turn) \/ CancelRejected(turn)

\* wait(executionId) has come to an end: the cancellation and then the close have,
\* or the cancellation was rejected, and nothing more is awaited.
CleanedUp ==
  \/ Cancelled(turn) /\ CancelRejected(turn)
  \/ (Cancelled(turn) => CancelFulfilled(turn)) /\ closing # "closing"

\* The coordinator ends the execution: the Worker has settled, or is lost.
FinishExecution ==
  /\ turn \in Turns
  /\ settled = "received" \/ closing # "no"
  /\ CleanedUp
  /\ cancellations' = Restrict(cancellations, DOMAIN cancellations \ {turn})
  /\ turn' = turn + 1
  /\ settled' = "running"
  /\ cancelSeen' = FALSE
  /\ UNCHANGED <<escaped, proc, owned, closing, closeOps, call, seen, ports>>

\* close: markUnavailable closes the owner and terminates the Worker.
CloseOwner ==
  /\ closing = "no"
  /\ closing' = "closing"
  /\ closeOps' = {o \in Ops : proc[o].life # "none" /\ ~Ended(o)}
  /\ Stop(closeOps')
  /\ toOwner' = << >> /\ toWorker' = << >>
  /\ UNCHANGED <<escaped, owned, cancellations, workerVars, turnVars>>

\* Every stop that close began has ended.
OwnerClosed ==
  /\ closing = "closing"
  /\ \A o \in closeOps : Stopped(o) \/ StopFailed(o)
  /\ closing' = IF \E o \in closeOps : StopFailed(o) THEN "failed" ELSE "closed"
  /\ owned' = [o \in Ops |-> [owned[o] EXCEPT !.in = FALSE]]
  /\ UNCHANGED <<escaped, proc, cancellations, closeOps, workerVars, turnVars, ports>>

-----------------------------------------------------------------------------
(* The Worker: WorkerProcessExecutor and the call that uses it.            *)

Send(message) == toOwner' = Append(toOwner, message)

StartCall(o) ==
  /\ WorkerAlive /\ turn \in Turns
  /\ settled = "running" /\ ~cancelSeen
  /\ call[o] = "none"
  /\ call' = [call EXCEPT ![o] = "starting"]
  /\ Send(<<o, "start">>)
  /\ UNCHANGED <<escaped, proc, ownerVars, seen, cancelSeen, turnVars, toWorker>>

\* The cancel command reaches the Worker.
CancelArrives ==
  /\ WorkerAlive /\ turn \in Turns /\ Cancelled(turn)
  /\ ~cancelSeen
  /\ cancelSeen' = TRUE
  /\ UNCHANGED <<escaped, proc, ownerVars, call, seen, turnVars, ports>>

\* operation.stop() of the Worker: a request, unless the operation is known to
\* have closed.
StopCall(o) ==
  IF seen[o] \cap {"closed", "error"} = {}
  THEN call' = [call EXCEPT ![o] = "stopping"] /\ Send(<<o, "stop">>)
  ELSE call' = [call EXCEPT ![o] = IF "error" \in seen[o] THEN "dirty" ELSE "closing"]
       /\ UNCHANGED toOwner

ReleaseCall(o) ==
  /\ call' = [call EXCEPT ![o] = "releasing"]
  /\ Send(<<o, "release">>)

\* The call's race is decided: a cancel or a timeout stops the process, the
\* command's status releases it.
CallDecides(o) ==
  /\ WorkerAlive
  /\ call[o] = "running"
  /\ \/ StopCall(o)
     \/ "status" \in seen[o] /\ ~cancelSeen /\ ReleaseCall(o)
  /\ UNCHANGED <<escaped, proc, ownerVars, seen, cancelSeen, turnVars, toWorker>>

\* Stopped, and the closed event is here: release.  A call that was released
\* already has ended.
CallStopped(o) ==
  /\ WorkerAlive
  /\ call[o] = "closing"
  /\ \/ "closed" \in seen[o] /\ ReleaseCall(o)
     \/ "error" \in seen[o] /\ call' = [call EXCEPT ![o] = "dirty"] /\ UNCHANGED toOwner
  /\ UNCHANGED <<escaped, proc, ownerVars, seen, cancelSeen, turnVars, toWorker>>

\* receive: a reply moves the call that waits for it, an event is noted.
Receive ==
  /\ WorkerAlive
  /\ toWorker # << >>
  /\ toWorker' = Tail(toWorker)
  /\ LET o == Head(toWorker)[1]
         m == Head(toWorker)[2]
     IN  \/ /\ m \in {"status", "closed", "error"}
            /\ seen' = [seen EXCEPT ![o] = @ \cup {m}]
            /\ UNCHANGED <<call, toOwner>>
         \/ /\ m = "started"
            /\ call' = [call EXCEPT ![o] = "running"]
            /\ UNCHANGED <<seen, toOwner>>
         \/ /\ m = "stopped"
            /\ call' = [call EXCEPT ![o] = "closing"]
            /\ UNCHANGED <<seen, toOwner>>
         \/ /\ m = "released"
            /\ IF cancelSeen /\ "closed" \notin seen[o] THEN StopCall(o)
               ELSE call' = [call EXCEPT ![o] = "ended"] /\ UNCHANGED toOwner
            /\ UNCHANGED seen
         \/ /\ m = "refused"
            /\ call' = [call EXCEPT ![o] = "dirty"]
            /\ UNCHANGED <<seen, toOwner>>
  /\ UNCHANGED <<escaped, proc, ownerVars, cancelSeen, turnVars>>

\* The turn ends when its calls have: the tools joined their processes.
WorkerSettles ==
  /\ WorkerAlive /\ turn \in Turns
  /\ settled = "running"
  /\ \A o \in Ops : call[o] \in {"none", "ended", "dirty"}
  /\ settled' = "posted"
  /\ Send(<<"turn", "settled">>)
  /\ UNCHANGED <<escaped, proc, ownerVars, workerVars, turn, toWorker>>

-----------------------------------------------------------------------------
SystemSteps(o) ==
  Spawn(o) \/ RunnerStarts(o) \/ RunnerExits(o)

\* What a runner that was told to kill its command does.
RunnerKillsCommand(o) == proc[o].stop = "kill" /\ CommandExits(o)

HostSteps(o) ==
  \/ LifeStatus(o) \/ LifePolls(o) \/ LifeEnds(o)
  \/ StopBegins(o) \/ StopGrace(o) \/ StopKills(o) \/ StopEnds(o)
  \/ HandleStart(o) \/ HandleStop(o) \/ HandleRelease(o) \/ AnswerStop(o)

Next ==
  \/ \E o \in Ops :
       \/ SystemSteps(o) \/ HostSteps(o)
       \/ Escapes(o) \/ EscapedExits(o)
       \/ Forks(o) \/ CommandExits(o) \/ BackgroundExits(o) \/ RunnerKilled(o) \/ Drain(o)
       \/ StartCall(o) \/ CallDecides(o) \/ CallStopped(o)
  \/ CancelExecution \/ HandleSettled \/ FinishExecution \/ CloseOwner \/ OwnerClosed
  \/ CancelArrives \/ Receive \/ WorkerSettles

Spec == Init /\ [][Next]_vars

\* The Host's coroutines and the operating system go on; no assumption on the
\* commands, the Worker or the user.
Fairness ==
  /\ \A o \in Ops :
       /\ WF_vars(SystemSteps(o)) /\ WF_vars(HostSteps(o)) /\ WF_vars(RunnerKillsCommand(o))
  /\ WF_vars(OwnerClosed)

FairSpec == Spec /\ Fairness

-----------------------------------------------------------------------------
(* Properties.                                                             *)

LeftBehind(o) == proc[o].command = "running" \/ proc[o].background

\* When stop() has fulfilled, the runner is reaped and no member of the group is
\* left, whichever of TERM, kill-command and group KILL it took.
StoppedIsGone ==
  \A o \in Ops : proc[o].stop = "done" => proc[o].runner = "dead" /\ ~LeftBehind(o)

\* A generation whose close() fulfilled has left no process behind, background
\* processes of released calls and starts that raced with close included, except
\* one whose stop was reported as failed.
CloseLeavesNothing ==
  closing = "closed" => \A o \in Ops : ~LeftBehind(o) \/ StopFailed(o)

\* TERM and KILL go to a group whose leader manageLifetime keeps alive, so that its
\* number cannot belong to anybody else: the anchor of a group that stop() is about
\* to signal is not released.
SignalsOwnGroup ==
  \A o \in Ops : proc[o].stop \in {"term", "kill"} => ~proc[o].anchorReleased

\* While an execution's cancellation is under way every operation of it that no
\* call has released is being stopped, also one started after the cancellation.
CancelReachesEveryStart ==
  \A o \in Ops :
    owned[o].in /\ ~owned[o].released /\ owned[o].turn \in Turns /\ Cancelled(owned[o].turn)
      => proc[o].stop # "none"

\* What a stop, a cancellation and a close promise, together: the owner never answers
\* for a process that is still there, never signals a group that is no longer its own,
\* and lets no start slip past a cancellation.
OwnerKeepsPromises ==
  TypeOK /\ StoppedIsGone /\ CloseLeavesNothing /\ SignalsOwnGroup /\ CancelReachesEveryStart

\* The coordinator ends a cancelled execution only when the processes of its
\* calls are gone, except that the first stop of the cancellation that fails ends
\* the wait for the others: what is left then is still being stopped.
FinishedCancelLeavesNothing ==
  [][turn' # turn /\ Cancelled(turn) =>
       \A o \in Ops : owned[o].turn = turn /\ ~owned[o].released =>
         \/ ~LeftBehind(o)
         \/ StopFailed(o)
         \/ CancelRejected(turn) /\ proc[o].stop # "none"]_vars

\* Everything in the group is gone and the stop waits for its pipes alone.
HeldOpen(o) == escaped[o] /\ ~LeftBehind(o)

\* Every stop that begins ends, and so does the close of a generation: neither a
\* command that ignores TERM nor the lifetime coroutine waiting for the stop it
\* shares state with can hold them up.  Only a descendant that left the group and
\* never lets go of its output can, and then nothing else is left.
StopConverges ==
  /\ \A o \in Ops :
       [](proc[o].stop # "none" => \/ <>(proc[o].stop \in {"done", "failed"})
                                  \/ <>[]HeldOpen(o))
  /\ [](closing = "closing" => \/ <>(closing \in {"closed", "failed"})
                               \/ \E o \in Ops : <>[]HeldOpen(o))

=============================================================================
