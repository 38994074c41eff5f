------------------------------- MODULE BashCall -------------------------------
(***************************************************************************)
(* One call of the bash tool: its race between the command's status, the   *)
(* timeout, the cancellation of the turn and the output limit; the drains  *)
(* of stdout and stderr; teardown; the saved output; release of the        *)
(* process and the re-examination of the cancellation after every await.   *)
(*                                                                         *)
(* The process operation (ProcessOwner) and the output store (BashOutput)  *)
(* appear by what their promises do.  ProcessOwner_proofs is about both    *)
(* ends of a call, hence the names here that ProcessOwner does not have.   *)
(***************************************************************************)
EXTENDS Integers, FiniteSets

CONSTANTS CallFaults  \* the process owner or the spool may fail

ASSUME CallAssumption == CallFaults \in BOOLEAN

Pipes == {"stdout", "stderr"}

VARIABLES
  aborted,  \* the turn's signal: cancellationRequested follows it
  process,  \* the operation: its status, whether its pipes are open, stop and release
  drain,    \* per stream: "reading", "done"
  output,   \* the capture: "open", "finished", "failed", "abandoned"
  stopEvent, \* outputStopEvent
  at,       \* where execute is
  td,       \* where teardown is, and how it was called
  thrown,   \* the error that the catch block handles
  outcome

callVars == <<aborted, process, drain, output, stopEvent, at, td, thrown, outcome>>

NoTeardown == [in |-> "none", byUser |-> FALSE, failed |-> FALSE, after |-> "none"]

CallTypeOK ==
  /\ aborted \in BOOLEAN
  /\ process \in [status : {"pending", "known", "error"}, pipes : {"open", "ended"},
                  stop : {"none", "begun", "done", "failed"}, released : BOOLEAN]
  /\ drain \in [Pipes -> {"reading", "done"}]
  /\ output \in {"open", "finished", "failed", "abandoned"}
  /\ stopEvent \in {"none", "limit", "persistence"}
  /\ at \in {"race", "capture", "raced", "captured", "finish", "finished", "release",
             "released", "abandon", "catch", "caught", "rethrow", "teardown", "end"}
  /\ td \in [in : {"none", "stop", "wait", "settle"}, byUser : BOOLEAN, failed : BOOLEAN,
             after : {"none", "capture", "raced", "abandon", "caught"}]
  /\ (td.in # "none") = (at = "teardown")
  /\ thrown \in {"none", "cancelled", "cleanup", "toolResult", "other"}
  /\ outcome \in {"none", "result", "cancelled", "cleanup", "toolResult", "other"}

CallInit ==
  /\ aborted = FALSE
  /\ process = [status |-> "pending", pipes |-> "open", stop |-> "none", released |-> FALSE]
  /\ drain = [s \in Pipes |-> "reading"]
  /\ output = "open" /\ stopEvent = "none"
  /\ at = "race" /\ td = NoTeardown
  /\ thrown = "none" /\ outcome = "none"

Settled == \A s \in Pipes : drain[s] = "done"

-----------------------------------------------------------------------------
(* What happens around the call.                                           *)

Cancel ==
  /\ ~aborted /\ at # "end"
  /\ aborted' = TRUE
  /\ UNCHANGED <<process, drain, output, stopEvent, at, td, thrown, outcome>>

\* The command ends; a descendant may keep the pipes open.
StatusArrives ==
  /\ process.status = "pending"
  /\ \/ \E p \in {"open", "ended"} :
          process' = [process EXCEPT !.status = "known", !.pipes = p]
     \/ CallFaults /\ process' = [process EXCEPT !.status = "error"]
  /\ UNCHANGED <<aborted, drain, output, stopEvent, at, td, thrown, outcome>>

PipesEnd ==
  /\ process.status # "pending" /\ process.pipes = "open"
  /\ process' = [process EXCEPT !.pipes = "ended"]
  /\ UNCHANGED <<aborted, drain, output, stopEvent, at, td, thrown, outcome>>

\* A drain reaches the end of its stream, which a stop of the process brings about.
DrainEnds(s) ==
  /\ drain[s] = "reading" /\ (process.pipes = "ended" \/ process.stop = "begun")
  /\ drain' = [drain EXCEPT ![s] = "done"]
  /\ UNCHANGED <<aborted, process, output, stopEvent, at, td, thrown, outcome>>

\* A drain's append reaches a limit, or the spool fails; the first event counts.
AppendStops(s) ==
  /\ drain[s] = "reading" /\ output \in {"open", "failed"}
  /\ \/ /\ output = "open"
        /\ stopEvent' = IF stopEvent = "none" THEN "limit" ELSE stopEvent
        /\ UNCHANGED output
     \/ /\ CallFaults
        /\ stopEvent' = IF stopEvent = "none" THEN "persistence" ELSE stopEvent
        /\ output' = "failed"
  /\ UNCHANGED <<aborted, process, drain, at, td, thrown, outcome>>

-----------------------------------------------------------------------------
(* The body of execute.                                                    *)

Goto(a) == at' = a /\ UNCHANGED <<td, thrown, outcome>>

Throw(e) == at' = "catch" /\ thrown' = e /\ UNCHANGED <<td, outcome>>

Finished(o) == at' = "end" /\ outcome' = o /\ UNCHANGED <<td, thrown>>

Teardown(byUser, after) ==
  /\ at' = "teardown"
  /\ td' = [in |-> "stop", byUser |-> byUser, failed |-> FALSE, after |-> after]
  /\ UNCHANGED <<thrown, outcome>>

Race ==
  /\ at = "race"
  /\ \/ process.status = "known"
        /\ IF aborted THEN Teardown(TRUE, "capture") ELSE Goto("capture")
     \/ process.status = "error" /\ Throw("other")
     \/ Teardown(aborted, "raced")  \* the timeout
     \/ aborted /\ Teardown(TRUE, "raced")
     \/ stopEvent # "none" /\ Teardown(aborted, "raced")
  /\ UNCHANGED <<aborted, process, drain, output, stopEvent>>

MutantCaptureWaits ==
  /\ at \in {"capture", "raced"}
  /\ ~(at = "raced" /\ aborted)
  /\ Settled
  /\ Goto(IF at = "capture" THEN "raced" ELSE "finish")
  /\ UNCHANGED <<aborted, process, drain, output, stopEvent>>

\* waitForCapture without settlement: both drains are done, or the grace is over
\* and they are cancelled.
Capture ==
  /\ at \in {"capture", "raced"}
  /\ ~(at = "raced" /\ aborted)
  /\ drain' = [s \in Pipes |-> "done"]
  /\ Goto(IF at = "capture" THEN "raced" ELSE "finish")
  /\ UNCHANGED <<aborted, process, output, stopEvent>>

CaptureFails ==
  /\ CallFaults /\ at \in {"capture", "raced"} /\ ~Settled
  /\ ~(at = "raced" /\ aborted)
  /\ Throw("other")
  /\ UNCHANGED <<aborted, process, drain, output, stopEvent>>

\* A cancellation that is seen here wins over the result.
SeesCancel ==
  /\ at \in {"raced", "finished", "released"}
  /\ aborted
  /\ Teardown(TRUE, "abandon")
  /\ UNCHANGED <<aborted, process, drain, output, stopEvent>>

Finish ==
  /\ at = "finish"
  /\ \/ /\ output = "open" /\ output' = "finished" /\ UNCHANGED stopEvent
     \/ /\ output = "failed" \/ CallFaults
        /\ output' = "failed" /\ stopEvent' = "persistence"
  /\ Goto("finished")
  /\ UNCHANGED <<aborted, process, drain>>

AfterFinish ==
  /\ at = "finished" /\ ~aborted
  /\ IF stopEvent = "persistence" THEN Throw("toolResult") ELSE Goto("release")
  /\ UNCHANGED <<aborted, process, drain, output, stopEvent>>

Release ==
  /\ at = "release"
  /\ \/ process' = [process EXCEPT !.released = TRUE] /\ Goto("released")
     \/ CallFaults /\ UNCHANGED process /\ Throw("other")
  /\ UNCHANGED <<aborted, drain, output, stopEvent>>

Return ==
  /\ at = "released" /\ ~aborted
  /\ Finished("result")
  /\ UNCHANGED <<aborted, process, drain, output, stopEvent>>

MutantAbandonThen(ok, bad) == UNCHANGED output /\ ok

\* abandonCancelledCapture: a capture that failed cannot be abandoned.
AbandonThen(ok, bad) ==
  \/ output # "failed" /\ output' = "abandoned" /\ ok
  \/ output = "failed" /\ UNCHANGED output /\ bad
  \/ CallFaults /\ output # "abandoned" /\ output' = "abandoned" /\ bad

Abandon ==
  /\ at = "abandon"
  /\ AbandonThen(Throw("cancelled"), Throw("cleanup"))
  /\ UNCHANGED <<aborted, process, drain, stopEvent>>

-----------------------------------------------------------------------------
(* teardown.                                                               *)

\* The stop has taken the whole group.  The pipes stay open where a process that has
\* left the group holds them.
StopReaches ==
  /\ at = "teardown" /\ td.in = "stop"
  /\ process.stop = "none" /\ process.status # "error"
  /\ \E p \in {"open", "ended"} :
       /\ process.pipes = "ended" => p = "ended"
       /\ process' = [process EXCEPT !.stop = "begun", !.pipes = p, !.status = "known"]
  /\ UNCHANGED <<aborted, drain, output, stopEvent, at, td, thrown, outcome>>

\* child.stop and the status: the group is gone and its pipes have ended, or the owner
\* failed.  A stop sent after the release may find the operation already forgotten.
TeardownStops ==
  /\ at = "teardown" /\ td.in = "stop"
  /\ \/ /\ process.stop \in {"begun", "done"} /\ process.pipes = "ended"
        /\ process' = [process EXCEPT !.stop = "done"]
        /\ td' = [td EXCEPT !.in = "wait"]
        /\ UNCHANGED <<at, thrown>>
     \/ /\ CallFaults \/ process.status = "error" \/ (process.released /\ process.pipes = "ended")
        /\ process' = [process EXCEPT !.stop = IF @ = "done" THEN @ ELSE "failed"]
        /\ IF aborted
           THEN td' = [td EXCEPT !.in = "wait", !.failed = TRUE] /\ UNCHANGED <<at, thrown>>
           ELSE \* teardown throws
                /\ td' = NoTeardown
                /\ IF td.after = "caught"
                   THEN at' = "rethrow" /\ UNCHANGED thrown
                   ELSE at' = "catch" /\ thrown' = "other"
  /\ UNCHANGED <<aborted, drain, output, stopEvent, outcome>>

\* The capture is waited for: to its end for a cancellation, else for the grace,
\* after which the readers are cancelled.
CaptureSettles ==
  /\ at = "teardown" /\ td.in = "wait"
  /\ IF td.byUser THEN Settled /\ UNCHANGED drain
                  ELSE drain' = [s \in Pipes |-> "done"]
  /\ td' = [td EXCEPT !.in = "settle"]
  /\ UNCHANGED <<aborted, process, output, stopEvent, at, thrown, outcome>>

\* Cancelling a reader is refused by the owner.
CaptureCleanupFails ==
  /\ CallFaults /\ at = "teardown" /\ td.in = "wait" /\ ~td.byUser /\ ~Settled
  /\ td' = [td EXCEPT !.in = "settle", !.failed = @ \/ aborted]
  /\ drain' = [s \in Pipes |-> "done"]
  /\ UNCHANGED <<aborted, process, output, stopEvent, at, thrown, outcome>>

TeardownEnds ==
  /\ at = "teardown" /\ td.in = "settle"
  /\ td' = NoTeardown
  /\ IF aborted /\ td.failed
     THEN IF td.after = "caught" THEN at' = "rethrow" /\ UNCHANGED thrown
                                 ELSE at' = "catch" /\ thrown' = "cleanup"
     ELSE at' = td.after /\ UNCHANGED thrown
  /\ UNCHANGED <<aborted, process, drain, output, stopEvent, outcome>>

-----------------------------------------------------------------------------
(* The catch block.                                                        *)

Catch ==
  /\ at = "catch"
  /\ Teardown(aborted, "caught")
  /\ UNCHANGED <<aborted, process, drain, output, stopEvent>>

\* The call is released; a cancelled one gives up its output once more.
Caught ==
  /\ at = "caught"
  /\ \/ /\ process' = [process EXCEPT !.released = TRUE]
        /\ \/ /\ thrown \in {"cancelled", "cleanup"}
              /\ AbandonThen(Finished(thrown), Finished("cleanup"))
           \/ /\ thrown \in {"toolResult", "other"}
              /\ Finished(thrown) /\ UNCHANGED output
     \/ /\ CallFaults /\ ~process.released
        /\ UNCHANGED <<process, output>>
        /\ Goto("rethrow")
  /\ UNCHANGED <<aborted, drain, stopEvent>>

\* The cleanup itself failed.
Rethrow ==
  /\ at = "rethrow"
  /\ IF aborted THEN AbandonThen(Finished("cleanup"), Finished("cleanup"))
                ELSE Finished("other") /\ UNCHANGED output
  /\ UNCHANGED <<aborted, process, drain, stopEvent>>

Body == Race \/ Capture \/ SeesCancel \/ Finish \/ AfterFinish \/ Release
        \/ Return \/ Abandon
Tear == StopReaches \/ TeardownStops \/ CaptureSettles \/ TeardownEnds
Catching == Catch \/ Caught \/ Rethrow

Drains == \E s \in Pipes : DrainEnds(s)

CallNext ==
  \/ Cancel \/ StatusArrives \/ PipesEnd \/ Drains
  \/ (\E s \in Pipes : AppendStops(s))
  \/ Body \/ Tear \/ Catching
  \/ CaptureFails \/ CaptureCleanupFails

CallSpec == CallInit /\ [][CallNext]_callVars

\* The promises of the owner settle, timers fire and drains read what is there;
\* no assumption on the command, and no reader has to fail.
FairCall ==
  /\ CallSpec
  /\ WF_callVars(Body) /\ WF_callVars(Tear) /\ WF_callVars(Catching) /\ WF_callVars(Drains)

-----------------------------------------------------------------------------
(* Properties.                                                             *)

\* A result that names saved output names output that stays: no cancelled call
\* leaves a readable identity behind that no transcript mentions.
CancelledKeepsNoOutput ==
  outcome \in {"cancelled", "cleanup"} => output \in {"abandoned", "failed"}

\* Every exit has joined the call's process and both drains, or reports that it
\* could not: a timed out or cancelled command does not run on behind its answer,
\* and a result is not made of a stream that is still being read.
AnswerIsSettled ==
  /\ outcome \in {"cancelled", "toolResult"} => process.pipes = "ended" /\ Settled
  /\ outcome = "result" => Settled /\ process.released

\* The state of the call and what its answer says agree, at every exit.
CallInvariant == CallTypeOK /\ CancelledKeepsNoOutput /\ AnswerIsSettled

\* The stop has done all that it can, and waits for the pipes alone.
HeldPipes == process.stop = "begun" /\ process.pipes = "open"

\* The call ends, whatever the command does with its signals and its pipes, unless
\* the owner could not stop its process, or a process that has left the group holds
\* the pipes of a stopped one for ever.  A command that has ended is answered for
\* although the processes it left behind hold them.
CallEnds == <>(at = "end" \/ process.stop = "failed") \/ <>[]HeldPipes

=============================================================================
