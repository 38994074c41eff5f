------------------------- MODULE ProcessOwner_proofs --------------------------
(***************************************************************************)
(* Proofs about ProcessOwner, for any number of operations and executions: *)
(* what a stop, a cancellation and a close leave of the processes; and     *)
(* about BashCall, a call that awaits them: what its answer has joined.    *)
(***************************************************************************)
EXTENDS ProcessOwner, BashCall, TLAPS, FiniteSetTheorems

-----------------------------------------------------------------------------
(* The inductive invariant.                                                *)

\* One operation's processes and coroutines: where the lifetime and the stop stand says
\* what is left of the runner, the command and its group.
Processes(p) ==
  /\ p.life = "none" => p.stop = "none"
  /\ p.life \in {"none", "spawn"} => p.runner = "none"
  /\ p.runner \in {"none", "launching"} => p.command = "none" /\ p.status = "pending"
                                           /\ p.life \in {"none", "spawn", "status"}
  /\ p.command = "none" => ~p.background
  /\ p.status = "known" => p.command = "done"
  /\ p.status = "error" => p.runner = "dead"
  /\ p.anchorReleased => p.command = "done" /\ ~p.background

Lifetime(p) ==
  /\ p.life \in {"polling", "joinStop", "exit", "closed"} => p.status = "known"
  /\ p.life \in {"joinStop", "failing"} => p.stop # "none"
  /\ p.life \in {"exit", "closed"} => ~p.background
  /\ p.life = "closed" => p.runner = "dead"
  /\ p.life = "failed" => \/ p.stop = "failed"
                          \/ p.runner = "dead" /\ p.command # "running" /\ ~p.background

Stopping(p) ==
  /\ p.stop = "anchored" => p.anchorReleased
  /\ p.stop \in {"term", "kill"} => ~p.anchorReleased /\ p.command # "none"
  /\ p.stop = "exit" => p.command = "done" /\ ~p.background
  /\ p.stop = "done" => p.runner = "dead" /\ p.command = "done" /\ ~p.background

Procs ==
  [runner : {"none", "launching", "ready", "dead"}, command : {"none", "running", "done"},
   background : BOOLEAN, status : {"pending", "known", "error"}, input : {"open", "ended"},
   anchorReleased : BOOLEAN,
   life : {"none", "spawn", "status", "polling", "joinStop", "exit", "failing", "closed", "failed"},
   stop : {"none", "ready", "anchored", "term", "kill", "exit", "done", "failed"}]

Fit == {p \in Procs : Processes(p) /\ Lifetime(p) /\ Stopping(p)}

\* The owner's table and the processes: an operation that was started stays in it until it
\* is released or the owner has closed.
TableFollowsProcesses ==
  \A o \in Ops :
    /\ owned[o].in => proc[o].life # "none"
    /\ proc[o].life = "none" => owned[o].turn = 0
    /\ owned[o].turn <= turn
    /\ proc[o].life # "none" /\ ~owned[o].released
         => owned[o].in \/ closing \in {"closed", "failed"}

\* Only the current execution can be cancelled.
OneCancellation == DOMAIN cancellations \subseteq {turn}

\* A cancellation stops every operation of its execution, and knows it or waits for it in
\* the answer to its start.
CancellationReaches ==
  \A o \in Ops :
    owned[o].turn = turn /\ Cancelled(turn) /\ ~owned[o].released
      => /\ proc[o].stop # "none"
         /\ o \in cancellations[turn] \/ Stopped(o) \/ StopFailed(o)
            \/ "start" \in owned[o].awaiting

\* What the close does not stop had ended before, or never started.
CloseReaches ==
  /\ closing # "no" => /\ toOwner = << >> /\ toWorker = << >>
                       /\ \A o \in Ops \ closeOps : proc[o].life = "none" \/ Ended(o)
  /\ closing \in {"closed", "failed"} => \A o \in closeOps : Stopped(o) \/ StopFailed(o)
  /\ closing = "closed" => \A o \in closeOps : proc[o].stop = "done"

\* What the calls ask the owner and are answered: the two ports, what an answer still awaits,
\* the calls, the operations begun and the settlement.  One request at most of each call is
\* under way, and the call waits for it; the settlement is posted behind the last answer.
Asked == (Ops \X {"start", "stop", "release"}) \cup {<<"turn", "settled">>}
Replies == {"started", "stopped", "released", "refused"}
Told == Ops \X (Replies \cup {"status", "closed", "error"})
Asking == {"starting", "stopping", "releasing"}
AtRest == {"none", "ended", "dirty"}
Calls == Asking \cup AtRest \cup {"running", "closing"}

Conversations ==
  [rq : Seq(Asked), rp : Seq(Told), aw : [Ops -> SUBSET {"start", "stop"}], cl : [Ops -> Calls],
   st : SUBSET Ops, se : {"running", "posted", "received"}]

Waits(k, c) ==
  /\ k = "start" => c = "starting"
  /\ k = "stop" => c = "stopping"
  /\ k = "release" => c = "releasing"

Replied(m, c) ==
  /\ m = "started" => c = "starting"
  /\ m = "stopped" => c = "stopping"
  /\ m = "released" => c = "releasing"
  /\ m = "refused" => c \in Asking

Asks(rq, o) == \E i \in DOMAIN rq : rq[i][1] = o /\ rq[i][2] # "settled"
Answered(rp, o) == \E i \in DOMAIN rp : rp[i][1] = o /\ rp[i][2] \in Replies

RequestsMatch(m) ==
  /\ \A i \in DOMAIN m.rq : m.rq[i][2] # "settled" => Waits(m.rq[i][2], m.cl[m.rq[i][1]])
  /\ \A i, j \in DOMAIN m.rq : m.rq[i][1] = m.rq[j][1] => i = j

RepliesMatch(m) ==
  /\ \A i \in DOMAIN m.rp : Replied(m.rp[i][2], m.cl[m.rp[i][1]])
  /\ \A i, j \in DOMAIN m.rp :
       m.rp[i][2] \in Replies /\ m.rp[j][2] \in Replies /\ m.rp[i][1] = m.rp[j][1] => i = j

OneOutstanding(m) ==
  \A o \in Ops :
    /\ Asks(m.rq, o) => m.aw[o] = {} /\ ~Answered(m.rp, o)
    /\ m.aw[o] # {} => ~Answered(m.rp, o)
    /\ \A k \in m.aw[o] : m.aw[o] = {k} /\ Waits(k, m.cl[o])

StartsOnce(m) ==
  /\ \A i \in DOMAIN m.rq : m.rq[i][2] = "start" => m.rq[i][1] \notin m.st
  /\ \A o \in Ops : m.cl[o] = "none" => o \notin m.st

SettlesLast(m) ==
  /\ m.se # "running" => \A o \in Ops : m.cl[o] \in AtRest
  /\ \A i \in DOMAIN m.rq : m.rq[i][2] = "settled" => m.se = "posted"

Matching ==
  {m \in Conversations : /\ RequestsMatch(m) /\ RepliesMatch(m) /\ OneOutstanding(m)
                         /\ StartsOnce(m) /\ SettlesLast(m)}

Conversation ==
  [rq |-> toOwner, rp |-> toWorker, aw |-> [o \in Ops |-> owned[o].awaiting], cl |-> call,
   st |-> {o \in Ops : proc[o].life # "none"}, se |-> settled]

\* Behind the last execution no call is left.
CallsHaveTurn == turn \in Turns \/ closing # "no" \/ \A o \in Ops : call[o] \in AtRest

OwnedRecs == [in : BOOLEAN, turn : 0 .. MaxTurns, released : BOOLEAN, drained : BOOLEAN,
              closed : BOOLEAN, awaiting : SUBSET {"start", "stop"}]

Others ==
  /\ DOMAIN cancellations \subseteq Turns
  /\ \A t \in DOMAIN cancellations : cancellations[t] \subseteq Ops
  /\ closing \in {"no", "closing", "closed", "failed"} /\ closeOps \subseteq Ops
  /\ seen \in [Ops -> SUBSET {"status", "closed", "error"}] /\ cancelSeen \in BOOLEAN
  /\ turn \in 1 .. (MaxTurns + 1) /\ escaped \in [Ops -> BOOLEAN]

Shapes == proc \in [Ops -> Fit] /\ owned \in [Ops -> OwnedRecs] /\ Others

OwnerInduct ==
  /\ Shapes /\ TableFollowsProcesses /\ OneCancellation /\ CancellationReaches /\ CloseReaches
  /\ CallsHaveTurn /\ Conversation \in Matching

-----------------------------------------------------------------------------
(* One operation's processes.                                              *)

\* What no step takes back from an operation that was started.
Later(p, q) ==
  /\ p.life = "none" <=> q.life = "none"
  /\ p.stop # "none" => q.stop # "none"
  /\ p.stop \in {"done", "failed"} => q.stop = p.stop
  /\ p.life \in {"closed", "failed"} => q.life = p.life

\* The runner is spawned, or the spawn fails.
LEMMA SpawnFits ==
  ASSUME NEW p \in Fit, p.life = "spawn"
  PROVE  /\ LET q == [p EXCEPT !.life = "status", !.runner = "launching"]
             IN  q \in Fit /\ Later(p, q)
         /\ LET q == [p EXCEPT !.life = "failed", !.runner = "dead", !.status = "error"]
             IN  q \in Fit /\ Later(p, q)
  BY DEF Fit, Procs, Processes, Lifetime, Stopping, Later

\* The runner starts its command, or ends before.
LEMMA RunnerStartsFits ==
  ASSUME NEW p \in Fit, p.runner = "launching"
  PROVE  /\ LET q == [p EXCEPT !.runner = "ready", !.command = "running"]
             IN  q \in Fit /\ Later(p, q)
         /\ LET q == [p EXCEPT !.runner = "dead", !.status = "error"]
             IN  q \in Fit /\ Later(p, q)
  BY DEF Fit, Procs, Processes, Lifetime, Stopping, Later

\* The command starts a background process.
LEMMA ForksFits ==
  ASSUME NEW p \in Fit, p.command = "running"
  PROVE  [p EXCEPT !.background = TRUE] \in Fit /\ Later(p, [p EXCEPT !.background = TRUE])
  BY DEF Fit, Procs, Processes, Lifetime, Stopping, Later

\* The command ends, with a runner that reports its status or without one.
LEMMA CommandExitsFits ==
  ASSUME NEW p \in Fit, p.command = "running"
  PROVE  LET q == [p EXCEPT !.command = "done",
                            !.status = IF p.runner = "ready" THEN "known" ELSE p.status]
          IN  q \in Fit /\ Later(p, q)
  BY DEF Fit, Procs, Processes, Lifetime, Stopping, Later

\* A background process ends.
LEMMA BackgroundExitsFits ==
  ASSUME NEW p \in Fit, p.background
  PROVE  [p EXCEPT !.background = FALSE] \in Fit /\ Later(p, [p EXCEPT !.background = FALSE])
  BY DEF Fit, Procs, Processes, Lifetime, Stopping, Later

\* The runner ends, by itself or killed.
LEMMA RunnerEndsFits ==
  ASSUME NEW p \in Fit, p.runner = "ready"
  PROVE  LET q == [p EXCEPT !.runner = "dead",
                            !.status = IF p.status = "pending" THEN "error" ELSE p.status]
         IN  q \in Fit /\ Later(p, q)
  <1>1. CASE p.status = "pending"
    <2>1. [p EXCEPT !.runner = "dead", !.status = "error"] \in Fit
      BY <1>1 DEF Fit, Procs, Processes, Lifetime, Stopping
    <2>2. QED
      BY <1>1, <2>1 DEF Fit, Procs, Later
  <1>2. CASE p.status # "pending"
    <2>1. [p EXCEPT !.runner = "dead"] \in Fit
      BY <1>2 DEF Fit, Procs, Processes, Lifetime, Stopping
    <2>2. [p EXCEPT !.runner = "dead", !.status = p.status] = [p EXCEPT !.runner = "dead"]
      BY DEF Fit, Procs
    <2>3. QED
      BY <1>2, <2>1, <2>2 DEF Fit, Procs, Later
  <1>3. QED
    BY <1>1, <1>2

\* The runner ends behind its command.
LEMMA RunnerExitsFits ==
  ASSUME NEW p \in Fit, p.runner = "ready", p.command = "done"
  PROVE  [p EXCEPT !.runner = "dead"] \in Fit /\ Later(p, [p EXCEPT !.runner = "dead"])
  BY DEF Fit, Procs, Processes, Lifetime, Stopping, Later

\* A stop begins once.
LEMMA WithStopFits ==
  ASSUME NEW p \in Fit, p.life # "none"
  PROVE  WithStop(p) \in Fit /\ Later(p, WithStop(p))
  BY DEF Fit, Procs, Processes, Lifetime, Stopping, Later, WithStop

\* The status is there.
LEMMA PollingFits ==
  ASSUME NEW p \in Fit, p.life = "status", p.status = "known"
  PROVE  [p EXCEPT !.life = "polling"] \in Fit /\ Later(p, [p EXCEPT !.life = "polling"])
  BY DEF Fit, Procs, Processes, Lifetime, Stopping, Later

\* The status will never come.
LEMMA FailingFits ==
  ASSUME NEW p \in Fit, p.life = "status", p.status = "error"
  PROVE  [WithStop(p) EXCEPT !.life = "failing"] \in Fit
         /\ Later(p, [WithStop(p) EXCEPT !.life = "failing"])
  BY DEF Fit, Procs, Processes, Lifetime, Stopping, Later, WithStop

\* No member of the group is left.
LEMMA LifePolledFits ==
  ASSUME NEW p \in Fit, p.life = "polling",
         p.anchorReleased \/ (p.command # "running" /\ ~p.background)
  PROVE  LifePolled(p) \in Fit /\ Later(p, LifePolled(p))
  BY DEF Fit, Procs, Processes, Lifetime, Stopping, Later, LifePolled

\* The lifetime joins the stop that has ended.
LEMMA JoinedFits ==
  ASSUME NEW p \in Fit, p.life = "joinStop", p.stop = "done"
  PROVE  LET q == [p EXCEPT !.life = "exit", !.input = "ended"]
          IN  q \in Fit /\ Later(p, q)
  BY DEF Fit, Procs, Processes, Lifetime, Stopping, Later

\* The lifetime fails behind its stop.
LEMMA LifeFailsFits ==
  ASSUME NEW p \in Fit, p.life \in {"joinStop", "failing"}, p.stop \in {"done", "failed"}
  PROVE  [p EXCEPT !.life = "failed"] \in Fit /\ Later(p, [p EXCEPT !.life = "failed"])
  BY DEF Fit, Procs, Processes, Lifetime, Stopping, Later

\* The runner is reaped.
LEMMA ClosedFits ==
  ASSUME NEW p \in Fit, p.life = "exit", p.runner = "dead"
  PROVE  [p EXCEPT !.life = "closed"] \in Fit /\ Later(p, [p EXCEPT !.life = "closed"])
  BY DEF Fit, Procs, Processes, Lifetime, Stopping, Later

\* A stop finds the anchor released, the group alive or the command never started.
LEMMA StopBeginsFits ==
  ASSUME NEW p \in Fit, p.stop = "ready", p.life # "spawn"
  PROVE  p.command # "none" =>
           LET q == [p EXCEPT !.stop = IF p.anchorReleased THEN "anchored" ELSE "term"]
           IN  q \in Fit /\ Later(p, q)
  BY DEF Fit, Procs, Processes, Lifetime, Stopping, Later

\* TERM sufficed, or did not, or could not be sent.
LEMMA StopGraceFits ==
  ASSUME NEW p \in Fit, p.stop = "term"
  PROVE  /\ p.command # "running" /\ ~p.background =>
              LET q == [p EXCEPT !.stop = "exit", !.input = "ended"]
              IN  q \in Fit /\ Later(p, q)
         /\ LET q == [p EXCEPT !.stop = "kill"]
            IN  q \in Fit /\ Later(p, q)
  BY DEF Fit, Procs, Processes, Lifetime, Stopping, Later

\* The group is killed.
LEMMA KilledFits ==
  ASSUME NEW p \in Fit, p.stop = "kill", p.status = "known"
  PROVE  Killed(p) \in Fit /\ Later(p, Killed(p))
  BY DEF Fit, Procs, Processes, Lifetime, Stopping, Later, Killed

\* A stop fails.
LEMMA StopFailsFits ==
  ASSUME NEW p \in Fit, p.stop \in {"ready", "term", "kill"}
  PROVE  [p EXCEPT !.stop = "failed"] \in Fit /\ Later(p, [p EXCEPT !.stop = "failed"])
  BY DEF Fit, Procs, Processes, Lifetime, Stopping, Later

\* The runner of a stopped group is reaped.
LEMMA StopEndsFits ==
  ASSUME NEW p \in Fit, p.runner = "dead", p.stop \in {"anchored", "exit"}
  PROVE  LET q == [p EXCEPT !.stop = "done", !.anchorReleased = TRUE]
          IN  q \in Fit /\ Later(p, q)
  BY DEF Fit, Procs, Processes, Lifetime, Stopping, Later

\* A start, with the stop of a cancellation under way.
LEMMA LaunchFits ==
  ASSUME NEW p \in Fit, p.life = "none"
  PROVE  /\ [p EXCEPT !.life = "spawn"] \in Fit
         /\ [WithStop(p) EXCEPT !.life = "spawn"] \in Fit
  BY DEF Fit, Procs, Processes, Lifetime, Stopping, WithStop

-----------------------------------------------------------------------------
(* What a step of the system, of the two coroutines or of the readers does to the     *)
(* operations.                                                                        *)

Events == {"status", "closed", "error"}

\* Every operation is later than it was, forgotten only when it is released, and the Worker
\* is told by events only.
ProcessStep ==
  /\ proc' \in [Ops -> Fit] /\ owned' \in [Ops -> OwnedRecs]
  /\ \A o \in Ops :
       /\ Later(proc[o], proc'[o])
       /\ owned'[o].turn = owned[o].turn
       /\ owned'[o].released = owned[o].released
       /\ owned'[o].awaiting = owned[o].awaiting
       /\ owned'[o].in => owned[o].in
       /\ owned[o].in => owned'[o].in \/ owned[o].released
  /\ toOwner' = toOwner
  /\ \/ toWorker' = toWorker
     \/ closing = "no" /\ \E m \in Ops \X Events : toWorker' = Append(toWorker, m)
  /\ UNCHANGED <<escaped, cancellations, closing, closeOps, workerVars, turnVars>>

\* A record that stays is later than itself.
LEMMA StaysLater ==
  ASSUME NEW p
  PROVE  Later(p, p)
  BY DEF Later

\* Most of these steps change one operation and nothing the owner notes.
LEMMA OneOperation ==
  ASSUME NEW o \in Ops, NEW q \in Fit, proc \in [Ops -> Fit], owned \in [Ops -> OwnedRecs],
         Later(proc[o], q), proc' = [proc EXCEPT ![o] = q],
         \/ UNCHANGED toWorker
         \/ closing = "no" /\ \E m \in Ops \X Events : toWorker' = Append(toWorker, m),
         UNCHANGED <<escaped, ownerVars, workerVars, turnVars, toOwner>>
  PROVE  ProcessStep
  <1>1. proc' \in [Ops -> Fit]
    OBVIOUS
  <1>2. \A x \in Ops : Later(proc[x], proc'[x])
    <2>1. TAKE x \in Ops
    <2>2. CASE x = o
      BY <2>2
    <2>3. CASE x # o
      BY <2>3, StaysLater
    <2>4. QED
      BY <2>2, <2>3
  <1>3. QED
    BY <1>1, <1>2 DEF ProcessStep, ownerVars

\* An event is posted while the Worker lives, else it has no effect.
LEMMA EventsArePosted ==
  ASSUME NEW o \in Ops, NEW e \in Events, Post(<<o, e>>)
  PROVE  \/ UNCHANGED toWorker
         \/ closing = "no" /\ \E m \in Ops \X Events : toWorker' = Append(toWorker, m)
  BY DEF Post, WorkerAlive

\* The processes of the group.
LEMMA GroupSteps ==
  ASSUME NEW o \in Ops, proc \in [Ops -> Fit], owned \in [Ops -> OwnedRecs],
         \/ SystemSteps(o) \/ Forks(o) \/ CommandExits(o) \/ BackgroundExits(o) \/ RunnerKilled(o)
  PROVE  ProcessStep
  <1> DEFINE p == proc[o]
  <1>0. p \in Fit /\ p \in Procs
    BY DEF Fit
  <1>1. CASE Spawn(o)
    <2>1. CASE proc' = [proc EXCEPT ![o] = [p EXCEPT !.life = "status", !.runner = "launching"]]
      <3> DEFINE q == [p EXCEPT !.life = "status", !.runner = "launching"]
      <3>1. q \in Fit /\ Later(p, q)
        BY <1>0, <1>1, SpawnFits DEF Spawn
      <3>2. UNCHANGED <<escaped, ownerVars, workerVars, turnVars, toOwner, toWorker>>
        BY <1>0, <1>1, <2>1 DEF Spawn, ports, Procs
      <3>3. proc' = [proc EXCEPT ![o] = q]
        BY <2>1
      <3> HIDE DEF q
      <3>4. QED
        BY <3>1, <3>2, <3>3, OneOperation
    <2>2. CASE /\ proc' = [proc EXCEPT ![o] = [p EXCEPT !.life = "failed", !.runner = "dead",
                                                        !.status = "error"]]
               /\ Post(<<o, "error">>) /\ UNCHANGED toOwner
      BY <1>0, <1>1, <2>2, SpawnFits, OneOperation, EventsArePosted DEF Spawn, Events
    <2>3. QED
      BY <1>1, <2>1, <2>2 DEF Spawn
  <1>2. CASE RunnerStarts(o)
    <2>1. \/ proc' = [proc EXCEPT ![o] = [p EXCEPT !.runner = "ready", !.command = "running"]]
          \/ proc' = [proc EXCEPT ![o] = [p EXCEPT !.runner = "dead", !.status = "error"]]
      BY <1>2 DEF RunnerStarts
    <2>2. QED
      BY <1>0, <1>2, <2>1, RunnerStartsFits, OneOperation DEF RunnerStarts, ports
  <1>3. CASE RunnerExits(o)
    <2>1. proc' = [proc EXCEPT ![o] = [p EXCEPT !.runner = "dead"]]
      BY <1>3 DEF RunnerExits
    <2>2. QED
      BY <1>0, <1>3, <2>1, RunnerExitsFits, OneOperation DEF RunnerExits, ports
  <1>4. CASE Forks(o)
    <2>1. proc' = [proc EXCEPT ![o] = [p EXCEPT !.background = TRUE]]
      BY <1>4 DEF Forks
    <2>2. QED
      BY <1>0, <1>4, <2>1, ForksFits, OneOperation DEF Forks, ports
  <1>5. CASE CommandExits(o)
    <2> DEFINE q == [p EXCEPT !.command = "done",
                              !.status = IF p.runner = "ready" THEN "known" ELSE p.status]
    <2>1. proc' = [proc EXCEPT ![o] = q]
      BY <1>5 DEF CommandExits
    <2>2. q \in Fit /\ Later(p, q)
      BY <1>0, <1>5, CommandExitsFits DEF CommandExits
    <2>3. \/ UNCHANGED toWorker
          \/ closing = "no" /\ \E m \in Ops \X Events : toWorker' = Append(toWorker, m)
      BY <1>5, EventsArePosted DEF CommandExits, Events
    <2> HIDE DEF q
    <2>4. QED
      BY <1>5, <2>1, <2>2, <2>3, OneOperation DEF CommandExits
  <1>6. CASE BackgroundExits(o)
    <2>1. proc' = [proc EXCEPT ![o] = [p EXCEPT !.background = FALSE]]
      BY <1>6 DEF BackgroundExits
    <2>2. QED
      BY <1>0, <1>6, <2>1, BackgroundExitsFits, OneOperation DEF BackgroundExits, ports
  <1>7. CASE RunnerKilled(o)
    <2> DEFINE q == [p EXCEPT !.runner = "dead",
                              !.status = IF p.status = "pending" THEN "error" ELSE p.status]
    <2>1. proc' = [proc EXCEPT ![o] = q]
      BY <1>7 DEF RunnerKilled
    <2>2. q \in Fit /\ Later(p, q)
      BY <1>0, <1>7, RunnerEndsFits DEF RunnerKilled
    <2> HIDE DEF q
    <2>3. QED
      BY <1>7, <2>1, <2>2, OneOperation DEF RunnerKilled, ports
  <1>8. QED
    BY <1>1, <1>2, <1>3, <1>4, <1>5, <1>6, <1>7 DEF SystemSteps

\* manageLifetime until its end.
LEMMA LifetimeSteps ==
  ASSUME NEW o \in Ops, proc \in [Ops -> Fit], owned \in [Ops -> OwnedRecs],
         LifeStatus(o) \/ LifePolls(o)
  PROVE  ProcessStep
  <1> DEFINE p == proc[o]
  <1>0. p \in Fit /\ p \in Procs
    BY DEF Fit
  <1>1. CASE LifeStatus(o)
    <2>1. CASE p.status = "known" /\ proc' = [proc EXCEPT ![o] = [p EXCEPT !.life = "polling"]]
      BY <1>0, <1>1, <2>1, PollingFits, OneOperation DEF LifeStatus, ports
    <2>2. CASE /\ p.status = "error"
               /\ proc' = [proc EXCEPT ![o] = [WithStop(p) EXCEPT !.life = "failing"]]
      BY <1>0, <1>1, <2>2, FailingFits, OneOperation DEF LifeStatus, ports
    <2>3. QED
      BY <1>1, <2>1, <2>2 DEF LifeStatus
  <1>2. CASE LifePolls(o)
    <2>1. proc' = [proc EXCEPT ![o] = LifePolled(p)]
      BY <1>2 DEF LifePolls
    <2>2. LifePolled(p) \in Fit /\ Later(p, LifePolled(p))
      BY <1>0, <1>2, LifePolledFits DEF LifePolls, Live
    <2>3. QED
      BY <1>2, <2>1, <2>2, OneOperation DEF LifePolls, ports
  <1>3. QED
    BY <1>1, <1>2

\* Its end: the owner forgets an operation that is released and drained.
LEMMA LifetimeEnds ==
  ASSUME NEW o \in Ops, proc \in [Ops -> Fit], owned \in [Ops -> OwnedRecs], LifeEnds(o)
  PROVE  ProcessStep
  <1> DEFINE p == proc[o]
  <1>0. p \in Fit /\ p \in Procs
    BY DEF Fit
  <1>1. CASE /\ p.life = "joinStop" /\ p.stop = "done"
             /\ proc' = [proc EXCEPT ![o] = [p EXCEPT !.life = "exit", !.input = "ended"]]
             /\ UNCHANGED <<owned, toWorker>>
    BY <1>0, <1>1, JoinedFits, OneOperation DEF LifeEnds, ownerVars
  <1>2. CASE /\ p.life \in {"joinStop", "failing"} /\ p.stop \in {"done", "failed"}
             /\ proc' = [proc EXCEPT ![o] = [p EXCEPT !.life = "failed"]]
             /\ Post(<<o, "error">>) /\ UNCHANGED owned
    BY <1>0, <1>2, LifeFailsFits, OneOperation, EventsArePosted DEF LifeEnds, ownerVars, Events
  <1>3. CASE /\ p.life = "exit" /\ PipesClosed(o)
             /\ proc' = [proc EXCEPT ![o] = [p EXCEPT !.life = "closed"]]
             /\ owned' = [owned EXCEPT ![o].closed = TRUE,
                                       ![o].in = @ /\ ~(owned[o].released /\ owned[o].drained)]
             /\ Post(<<o, "closed">>)
    <2> DEFINE q == [p EXCEPT !.life = "closed"]
    <2>1. q \in Fit /\ Later(p, q)
      BY <1>0, <1>3, ClosedFits DEF PipesClosed
    <2>2. proc' = [proc EXCEPT ![o] = q]
      BY <1>3
    <2> HIDE DEF q
    <2>3. proc' \in [Ops -> Fit] /\ \A x \in Ops : Later(proc[x], proc'[x])
      <3>1. proc' \in [Ops -> Fit]
        BY <2>1, <2>2
      <3>2. ASSUME NEW x \in Ops PROVE Later(proc[x], proc'[x])
        <4>1. CASE x = o
          BY <2>1, <2>2, <4>1
        <4>2. CASE x # o
          BY <2>2, <4>2, StaysLater
        <4>3. QED
          BY <4>1, <4>2
      <3>3. QED
        BY <3>1, <3>2
    <2>4. /\ owned' \in [Ops -> OwnedRecs]
          /\ \A x \in Ops :
               /\ owned'[x].turn = owned[x].turn /\ owned'[x].released = owned[x].released
               /\ owned'[x].awaiting = owned[x].awaiting
               /\ owned'[x].in => owned[x].in
               /\ owned[x].in => owned'[x].in \/ owned[x].released
      BY <1>3 DEF OwnedRecs
    <2>5. \/ UNCHANGED toWorker
          \/ closing = "no" /\ \E m \in Ops \X Events : toWorker' = Append(toWorker, m)
      BY <1>3, EventsArePosted DEF Events
    <2>6. UNCHANGED <<escaped, cancellations, closing, closeOps, workerVars, turnVars, toOwner>>
      BY DEF LifeEnds
    <2>7. QED
      BY <2>3, <2>4, <2>5, <2>6 DEF ProcessStep
  <1>4. QED
    BY <1>1, <1>2, <1>3 DEF LifeEnds

\* The readers.
LEMMA DrainSteps ==
  ASSUME NEW o \in Ops, proc \in [Ops -> Fit], owned \in [Ops -> OwnedRecs], Drain(o)
  PROVE  ProcessStep
  <1>1. /\ owned' \in [Ops -> OwnedRecs]
        /\ \A x \in Ops :
             /\ owned'[x].turn = owned[x].turn /\ owned'[x].released = owned[x].released
             /\ owned'[x].awaiting = owned[x].awaiting
             /\ owned'[x].in => owned[x].in
             /\ owned[x].in => owned'[x].in \/ owned[x].released
    BY DEF Drain, OwnedRecs
  <1>2. proc' \in [Ops -> Fit] /\ \A x \in Ops : Later(proc[x], proc'[x])
    BY StaysLater DEF Drain
  <1>3. QED
    BY <1>1, <1>2 DEF ProcessStep, Drain, ports

\* stop.
LEMMA StopSteps ==
  ASSUME NEW o \in Ops, proc \in [Ops -> Fit], owned \in [Ops -> OwnedRecs],
         StopBegins(o) \/ StopGrace(o) \/ StopKills(o) \/ StopEnds(o)
  PROVE  ProcessStep
  <1> DEFINE p == proc[o]
  <1>0. p \in Fit /\ p \in Procs
    BY DEF Fit
  <1>a. UNCHANGED <<escaped, ownerVars, workerVars, turnVars, toOwner, toWorker>>
    BY DEF StopBegins, StopGrace, StopKills, StopEnds, ports
  <1>f. ASSUME p.stop \in {"ready", "term", "kill"}, proc' = [proc EXCEPT ![o].stop = "failed"]
        PROVE  ProcessStep
    <2>1. proc' = [proc EXCEPT ![o] = [p EXCEPT !.stop = "failed"]]
      BY <1>f
    <2>2. QED
      BY <1>0, <1>a, <1>f, <2>1, StopFailsFits, OneOperation
  <1>1. CASE StopBegins(o)
    <2>1. CASE p.command # "none"
      <3> DEFINE q == [p EXCEPT !.stop = IF p.anchorReleased THEN "anchored" ELSE "term"]
      <3>1. q \in Fit /\ Later(p, q)
        BY <1>0, <1>1, <2>1, StopBeginsFits DEF StopBegins
      <3>2. proc' = [proc EXCEPT ![o] = q]
        BY <1>1, <2>1 DEF StopBegins
      <3> HIDE DEF q
      <3>3. QED
        BY <1>a, <3>1, <3>2, OneOperation
    <2>2. CASE p.command = "none"
      BY <1>1, <1>f, <2>2 DEF StopBegins
    <2>3. QED
      BY <2>1, <2>2
  <1>2. CASE StopGrace(o)
    <2>1. CASE ~Live(o) /\ proc' = [proc EXCEPT ![o].stop = "exit", ![o].input = "ended"]
      <3> DEFINE q == [p EXCEPT !.stop = "exit", !.input = "ended"]
      <3>1. q \in Fit /\ Later(p, q)
        BY <1>0, <1>2, <2>1, StopGraceFits DEF StopGrace, Live
      <3>2. proc' = [proc EXCEPT ![o] = q]
        BY <2>1
      <3> HIDE DEF q
      <3>3. QED
        BY <1>a, <3>1, <3>2, OneOperation
    <2>2. CASE proc' = [proc EXCEPT ![o].stop = "kill"]
      <3> DEFINE q == [p EXCEPT !.stop = "kill"]
      <3>1. q \in Fit /\ Later(p, q)
        BY <1>0, <1>2, StopGraceFits DEF StopGrace
      <3>2. proc' = [proc EXCEPT ![o] = q]
        BY <2>2
      <3> HIDE DEF q
      <3>3. QED
        BY <1>a, <3>1, <3>2, OneOperation
    <2>3. QED
      BY <1>2, <1>f, <2>1, <2>2 DEF StopGrace
  <1>3. CASE StopKills(o)
    <2>1. CASE p.status = "known" /\ proc' = [proc EXCEPT ![o] = Killed(p)]
      BY <1>0, <1>3, <1>a, <2>1, KilledFits, OneOperation DEF StopKills
    <2>2. QED
      BY <1>3, <1>f, <2>1 DEF StopKills
  <1>4. CASE StopEnds(o)
    <2>1. proc' = [proc EXCEPT ![o] = [p EXCEPT !.stop = "done", !.anchorReleased = TRUE]]
      BY <1>4 DEF StopEnds
    <2>2. QED
      BY <1>0, <1>4, <1>a, <2>1, StopEndsFits, OneOperation DEF StopEnds, PipesClosed
  <1>5. QED
    BY <1>1, <1>2, <1>3, <1>4

-----------------------------------------------------------------------------
(* The conversation of the calls with the owner.                           *)

\* A sequence grows at its end.
LEMMA AppendIndexed ==
  ASSUME NEW S, NEW s \in Seq(S), NEW x \in S
  PROVE  /\ Append(s, x) \in Seq(S) /\ Len(s) \in Nat
         /\ DOMAIN s = 1 .. Len(s) /\ DOMAIN Append(s, x) = 1 .. Len(s) + 1
         /\ \A i \in DOMAIN s : Append(s, x)[i] = s[i]
         /\ Append(s, x)[Len(s) + 1] = x
  OBVIOUS

\* It loses its head.
LEMMA TailIndexed ==
  ASSUME NEW S, NEW s \in Seq(S), s # << >>
  PROVE  /\ Tail(s) \in Seq(S) /\ Len(s) \in Nat /\ Head(s) = s[1] /\ 1 \in DOMAIN s
         /\ \A i \in DOMAIN Tail(s) :
              i + 1 \in DOMAIN s /\ i \in Nat /\ i > 0 /\ Tail(s)[i] = s[i + 1]
  OBVIOUS

\* Nothing of this call is under way.
Free(m, o) == ~Asks(m.rq, o) /\ ~Answered(m.rp, o) /\ m.aw[o] = {}

\* A call that does not wait has nothing under way.
LEMMA RestingIsFree ==
  ASSUME NEW m \in Matching, NEW o \in Ops, m.cl[o] \notin Asking
  PROVE  Free(m, o)
  <1>1. m \in Conversations /\ RequestsMatch(m) /\ RepliesMatch(m) /\ OneOutstanding(m)
    BY DEF Matching
  <1>2. ASSUME Asks(m.rq, o) PROVE FALSE
    <2>1. PICK i \in DOMAIN m.rq : m.rq[i][1] = o /\ m.rq[i][2] # "settled"
      BY <1>2 DEF Asks
    <2>2. m.rq[i] \in Asked
      BY <1>1, <2>1 DEF Conversations
    <2>3. m.rq[i][2] \in {"start", "stop", "release"}
      BY <2>1, <2>2 DEF Asked
    <2>4. Waits(m.rq[i][2], m.cl[o])
      BY <1>1, <2>1 DEF RequestsMatch
    <2>5. QED
      BY <2>3, <2>4 DEF Waits, Asking
  <1>3. ASSUME Answered(m.rp, o) PROVE FALSE
    <2>1. PICK i \in DOMAIN m.rp : m.rp[i][1] = o /\ m.rp[i][2] \in Replies
      BY <1>3 DEF Answered
    <2>2. Replied(m.rp[i][2], m.cl[o])
      BY <1>1, <2>1 DEF RepliesMatch
    <2>3. QED
      BY <2>1, <2>2 DEF Replied, Replies, Asking
  <1>4. m.aw[o] = {}
    <2>1. m.aw[o] \subseteq {"start", "stop"}
      BY <1>1 DEF Conversations
    <2>2. \A k \in m.aw[o] : Waits(k, m.cl[o])
      BY <1>1 DEF OneOutstanding
    <2>3. QED
      BY <2>1, <2>2 DEF Waits, Asking
  <1>5. QED
    BY <1>2, <1>3, <1>4 DEF Free

\* The owner takes a request: its call has nothing else under way.
LEMMA RequestTaken ==
  ASSUME NEW m \in Matching, NEW o \in Ops, NEW k \in {"start", "stop", "release"},
         m.rq # << >>, Head(m.rq) = <<o, k>>
  PROVE  /\ [m EXCEPT !.rq = Tail(m.rq)] \in Matching
         /\ Free([m EXCEPT !.rq = Tail(m.rq)], o)
         /\ Waits(k, m.cl[o]) /\ (k = "start" => o \notin m.st)
  <1> DEFINE n == [m EXCEPT !.rq = Tail(m.rq)]
  <1>1. /\ m \in Conversations /\ RequestsMatch(m) /\ RepliesMatch(m) /\ OneOutstanding(m)
        /\ StartsOnce(m) /\ SettlesLast(m)
    BY DEF Matching
  <1>2. m.rq \in Seq(Asked)
    BY <1>1 DEF Conversations
  <1>3. /\ Tail(m.rq) \in Seq(Asked) /\ 1 \in DOMAIN m.rq /\ m.rq[1] = <<o, k>>
        /\ \A i \in DOMAIN Tail(m.rq) :
             i + 1 \in DOMAIN m.rq /\ i \in Nat /\ i > 0 /\ Tail(m.rq)[i] = m.rq[i + 1]
    BY <1>2, TailIndexed
  <1>4. n \in Conversations /\ n.rq = Tail(m.rq) /\ n.rp = m.rp /\ n.aw = m.aw /\ n.cl = m.cl
        /\ n.st = m.st /\ n.se = m.se
    BY <1>1, <1>3 DEF Conversations
  <1> HIDE DEF n
  <1>5. \A i \in DOMAIN n.rq : n.rq[i][1] # o
    BY <1>1, <1>3, <1>4 DEF RequestsMatch
  <1>6. RequestsMatch(n)
    BY <1>1, <1>3, <1>4 DEF RequestsMatch
  <1>7. RepliesMatch(n)
    BY <1>1, <1>4 DEF RepliesMatch
  <1>8. \A x \in Ops : Asks(n.rq, x) => Asks(m.rq, x)
    BY <1>3, <1>4 DEF Asks
  <1>9. OneOutstanding(n)
    BY <1>1, <1>4, <1>8 DEF OneOutstanding
  <1>10. StartsOnce(n)
    BY <1>1, <1>3, <1>4 DEF StartsOnce
  <1>11. SettlesLast(n)
    BY <1>1, <1>3, <1>4 DEF SettlesLast
  <1>12. Asks(m.rq, o)
    BY <1>3 DEF Asks
  <1>13. m.aw[o] = {} /\ ~Answered(m.rp, o)
    BY <1>1, <1>12 DEF OneOutstanding
  <1>14. Free(n, o)
    BY <1>4, <1>5, <1>13 DEF Free, Asks
  <1>15. Waits(k, m.cl[o]) /\ (k = "start" => o \notin m.st)
    BY <1>1, <1>3 DEF RequestsMatch, StartsOnce
  <1>16. n \in Matching
    BY <1>4, <1>6, <1>7, <1>9, <1>10, <1>11 DEF Matching
  <1>17. QED
    BY <1>14, <1>15, <1>16 DEF n

\* It answers a call that has nothing under way.
LEMMA ReplyPosted ==
  ASSUME NEW m \in Matching, NEW o \in Ops, NEW r \in Replies, Free(m, o), Replied(r, m.cl[o])
  PROVE  [m EXCEPT !.rp = Append(m.rp, <<o, r>>)] \in Matching
  <1> DEFINE n == [m EXCEPT !.rp = Append(m.rp, <<o, r>>)]
  <1>1. /\ m \in Conversations /\ RequestsMatch(m) /\ RepliesMatch(m) /\ OneOutstanding(m)
        /\ StartsOnce(m) /\ SettlesLast(m)
    BY DEF Matching
  <1>2. m.rp \in Seq(Told) /\ <<o, r>> \in Told
    BY <1>1 DEF Conversations, Told
  <1>3. /\ Append(m.rp, <<o, r>>) \in Seq(Told) /\ Len(m.rp) \in Nat
        /\ DOMAIN m.rp = 1 .. Len(m.rp)
        /\ DOMAIN Append(m.rp, <<o, r>>) = 1 .. Len(m.rp) + 1
        /\ \A i \in DOMAIN m.rp : Append(m.rp, <<o, r>>)[i] = m.rp[i]
        /\ Append(m.rp, <<o, r>>)[Len(m.rp) + 1] = <<o, r>>
    BY <1>2, AppendIndexed
  <1>4. n \in Conversations /\ n.rp = Append(m.rp, <<o, r>>) /\ n.rq = m.rq /\ n.aw = m.aw
        /\ n.cl = m.cl /\ n.st = m.st /\ n.se = m.se
    BY <1>1, <1>3 DEF Conversations
  <1> HIDE DEF n
  <1>5. \A i \in DOMAIN n.rp : \/ i \in DOMAIN m.rp /\ n.rp[i] = m.rp[i]
                               \/ n.rp[i] = <<o, r>> /\ i = Len(m.rp) + 1
    <2>1. TAKE i \in DOMAIN n.rp
    <2>2. i \in DOMAIN m.rp \/ i = Len(m.rp) + 1
      BY <1>3, <1>4
    <2>3. QED
      BY <1>3, <1>4, <2>2
  <1>6. \A i \in DOMAIN m.rp : m.rp[i][2] \in Replies => m.rp[i][1] # o
    BY DEF Free, Answered
  <1>7. RepliesMatch(n)
    <2>1. \A i \in DOMAIN n.rp : Replied(n.rp[i][2], n.cl[n.rp[i][1]])
      BY <1>1, <1>4, <1>5 DEF RepliesMatch
    <2>2. ASSUME NEW i \in DOMAIN n.rp, NEW j \in DOMAIN n.rp,
                 n.rp[i][2] \in Replies, n.rp[j][2] \in Replies, n.rp[i][1] = n.rp[j][1]
          PROVE  i = j
      <3>1. CASE i = Len(m.rp) + 1 /\ j = Len(m.rp) + 1
        BY <3>1
      <3>2. CASE i \in DOMAIN m.rp /\ j \in DOMAIN m.rp
        BY <1>1, <1>3, <1>4, <2>2, <3>2 DEF RepliesMatch
      <3>3. CASE i \in DOMAIN m.rp /\ n.rp[j] = <<o, r>>
        BY <1>3, <1>4, <1>6, <2>2, <3>3
      <3>4. CASE j \in DOMAIN m.rp /\ n.rp[i] = <<o, r>>
        BY <1>3, <1>4, <1>6, <2>2, <3>4
      <3>5. QED
        BY <1>5, <3>1, <3>2, <3>3, <3>4
    <2>3. QED
      BY <2>1, <2>2 DEF RepliesMatch
  <1>8. \A x \in Ops : Answered(n.rp, x) => Answered(m.rp, x) \/ x = o
    BY <1>5 DEF Answered
  <1>9. ~Asks(m.rq, o) /\ m.aw[o] = {}
    BY DEF Free
  <1>10. OneOutstanding(n)
    BY <1>1, <1>4, <1>8, <1>9 DEF OneOutstanding
  <1>11. RequestsMatch(n) /\ StartsOnce(n) /\ SettlesLast(n)
    BY <1>1, <1>4 DEF RequestsMatch, StartsOnce, SettlesLast
  <1>12. QED
    BY <1>4, <1>7, <1>10, <1>11 DEF Matching, n

\* It tells of an event.
LEMMA EventPosted ==
  ASSUME NEW m \in Matching, NEW e \in Ops \X Events
  PROVE  [m EXCEPT !.rp = Append(m.rp, e)] \in Matching
  <1> DEFINE n == [m EXCEPT !.rp = Append(m.rp, e)]
  <1>1. /\ m \in Conversations /\ RequestsMatch(m) /\ RepliesMatch(m) /\ OneOutstanding(m)
        /\ StartsOnce(m) /\ SettlesLast(m)
    BY DEF Matching
  <1>2. m.rp \in Seq(Told) /\ e \in Told /\ e[2] \in Events
    BY <1>1 DEF Conversations, Told, Events
  <1>3. /\ Append(m.rp, e) \in Seq(Told) /\ Len(m.rp) \in Nat
        /\ DOMAIN m.rp = 1 .. Len(m.rp)
        /\ DOMAIN Append(m.rp, e) = 1 .. Len(m.rp) + 1
        /\ \A i \in DOMAIN m.rp : Append(m.rp, e)[i] = m.rp[i]
        /\ Append(m.rp, e)[Len(m.rp) + 1] = e
    BY <1>2, AppendIndexed
  <1>4. n \in Conversations /\ n.rp = Append(m.rp, e) /\ n.rq = m.rq /\ n.aw = m.aw
        /\ n.cl = m.cl /\ n.st = m.st /\ n.se = m.se
    BY <1>1, <1>3 DEF Conversations
  <1> HIDE DEF n
  <1>5. \A i \in DOMAIN n.rp : \/ i \in DOMAIN m.rp /\ n.rp[i] = m.rp[i]
                               \/ n.rp[i] = e
    <2>1. TAKE i \in DOMAIN n.rp
    <2>2. i \in DOMAIN m.rp \/ i = Len(m.rp) + 1
      BY <1>3, <1>4
    <2>3. QED
      BY <1>3, <1>4, <2>2
  <1>6. e[2] \notin Replies /\ \A c : Replied(e[2], c)
    BY <1>2 DEF Events, Replies, Replied
  <1>7. RepliesMatch(n)
    BY <1>1, <1>4, <1>5, <1>6 DEF RepliesMatch
  <1>8. \A x \in Ops : Answered(n.rp, x) => Answered(m.rp, x)
    BY <1>5, <1>6 DEF Answered
  <1>9. OneOutstanding(n)
    BY <1>1, <1>4, <1>8 DEF OneOutstanding
  <1>10. RequestsMatch(n) /\ StartsOnce(n) /\ SettlesLast(n)
    BY <1>1, <1>4 DEF RequestsMatch, StartsOnce, SettlesLast
  <1>11. QED
    BY <1>4, <1>7, <1>9, <1>10 DEF Matching, n

\* The answer waits for a stop.
LEMMA AnswerAwaited ==
  ASSUME NEW m \in Matching, NEW o \in Ops, NEW k \in {"start", "stop"}, Free(m, o),
         Waits(k, m.cl[o])
  PROVE  [m EXCEPT !.aw = [m.aw EXCEPT ![o] = {k}]] \in Matching
  <1> DEFINE n == [m EXCEPT !.aw = [m.aw EXCEPT ![o] = {k}]]
  <1>1. /\ m \in Conversations /\ RequestsMatch(m) /\ RepliesMatch(m) /\ OneOutstanding(m)
        /\ StartsOnce(m) /\ SettlesLast(m)
    BY DEF Matching
  <1>2. n \in Conversations /\ n.rp = m.rp /\ n.rq = m.rq /\ n.cl = m.cl /\ n.st = m.st
        /\ n.se = m.se
        /\ n.aw[o] = {k} /\ \A x \in Ops \ {o} : n.aw[x] = m.aw[x]
    BY <1>1 DEF Conversations
  <1> HIDE DEF n
  <1>3. ~Asks(m.rq, o) /\ ~Answered(m.rp, o)
    BY DEF Free
  <1>4. OneOutstanding(n)
    BY <1>1, <1>2, <1>3 DEF OneOutstanding
  <1>5. RequestsMatch(n) /\ RepliesMatch(n) /\ StartsOnce(n) /\ SettlesLast(n)
    BY <1>1, <1>2 DEF RequestsMatch, RepliesMatch, StartsOnce, SettlesLast
  <1>6. QED
    BY <1>2, <1>4, <1>5 DEF Matching, n

\* The stop has ended: the call has nothing under way but the answer that comes now.
LEMMA AnswerDue ==
  ASSUME NEW m \in Matching, NEW o \in Ops, NEW k \in m.aw[o]
  PROVE  /\ [m EXCEPT !.aw = [m.aw EXCEPT ![o] = m.aw[o] \ {k}]] \in Matching
         /\ Free([m EXCEPT !.aw = [m.aw EXCEPT ![o] = m.aw[o] \ {k}]], o)
         /\ Waits(k, m.cl[o]) /\ k \in {"start", "stop"}
  <1> DEFINE n == [m EXCEPT !.aw = [m.aw EXCEPT ![o] = m.aw[o] \ {k}]]
  <1>1. /\ m \in Conversations /\ RequestsMatch(m) /\ RepliesMatch(m) /\ OneOutstanding(m)
        /\ StartsOnce(m) /\ SettlesLast(m)
    BY DEF Matching
  <1>2. m.aw[o] = {k} /\ Waits(k, m.cl[o]) /\ ~Asks(m.rq, o) /\ ~Answered(m.rp, o)
    BY <1>1 DEF OneOutstanding
  <1>3. k \in {"start", "stop"}
    BY <1>1 DEF Conversations
  <1>4. n \in Conversations /\ n.rp = m.rp /\ n.rq = m.rq /\ n.cl = m.cl /\ n.st = m.st
        /\ n.se = m.se
        /\ n.aw[o] = {} /\ \A x \in Ops \ {o} : n.aw[x] = m.aw[x]
    BY <1>1, <1>2 DEF Conversations
  <1> HIDE DEF n
  <1>5. OneOutstanding(n)
    BY <1>1, <1>4 DEF OneOutstanding
  <1>6. RequestsMatch(n) /\ RepliesMatch(n) /\ StartsOnce(n) /\ SettlesLast(n)
    BY <1>1, <1>4 DEF RequestsMatch, RepliesMatch, StartsOnce, SettlesLast
  <1>7. Free(n, o)
    BY <1>2, <1>4 DEF Free
  <1>8. QED
    BY <1>2, <1>3, <1>4, <1>5, <1>6, <1>7 DEF Matching, n

\* The Worker takes an event.
LEMMA EventTaken ==
  ASSUME NEW m \in Matching, m.rp # << >>
  PROVE  [m EXCEPT !.rp = Tail(m.rp)] \in Matching
  <1> DEFINE n == [m EXCEPT !.rp = Tail(m.rp)]
  <1>1. /\ m \in Conversations /\ RequestsMatch(m) /\ RepliesMatch(m) /\ OneOutstanding(m)
        /\ StartsOnce(m) /\ SettlesLast(m)
    BY DEF Matching
  <1>2. m.rp \in Seq(Told)
    BY <1>1 DEF Conversations
  <1>3. /\ Tail(m.rp) \in Seq(Told)
        /\ \A i \in DOMAIN Tail(m.rp) :
             i + 1 \in DOMAIN m.rp /\ i \in Nat /\ i > 0 /\ Tail(m.rp)[i] = m.rp[i + 1]
    BY <1>2, TailIndexed
  <1>4. n \in Conversations /\ n.rp = Tail(m.rp) /\ n.rq = m.rq /\ n.aw = m.aw
        /\ n.cl = m.cl /\ n.st = m.st /\ n.se = m.se
    BY <1>1, <1>3 DEF Conversations
  <1> HIDE DEF n
  <1>5. RepliesMatch(n)
    BY <1>1, <1>3, <1>4 DEF RepliesMatch
  <1>6. \A x \in Ops : Answered(n.rp, x) => Answered(m.rp, x)
    BY <1>3, <1>4 DEF Answered
  <1>7. OneOutstanding(n)
    BY <1>1, <1>4, <1>6 DEF OneOutstanding
  <1>8. RequestsMatch(n) /\ StartsOnce(n) /\ SettlesLast(n)
    BY <1>1, <1>4 DEF RequestsMatch, StartsOnce, SettlesLast
  <1>9. QED
    BY <1>4, <1>5, <1>7, <1>8 DEF Matching, n

\* It takes an answer: the call has nothing else under way.
LEMMA ReplyTaken ==
  ASSUME NEW m \in Matching, NEW o \in Ops, NEW r \in Replies, m.rp # << >>, Head(m.rp) = <<o, r>>
  PROVE  /\ [m EXCEPT !.rp = Tail(m.rp)] \in Matching
         /\ Free([m EXCEPT !.rp = Tail(m.rp)], o)
         /\ Replied(r, m.cl[o])
  <1> DEFINE n == [m EXCEPT !.rp = Tail(m.rp)]
  <1>1. /\ m \in Conversations /\ RequestsMatch(m) /\ RepliesMatch(m) /\ OneOutstanding(m)
    BY DEF Matching
  <1>2. m.rp \in Seq(Told)
    BY <1>1 DEF Conversations
  <1>3. /\ Tail(m.rp) \in Seq(Told) /\ 1 \in DOMAIN m.rp /\ m.rp[1] = <<o, r>>
        /\ \A i \in DOMAIN Tail(m.rp) :
             i + 1 \in DOMAIN m.rp /\ i \in Nat /\ i > 0 /\ Tail(m.rp)[i] = m.rp[i + 1]
    BY <1>2, TailIndexed
  <1>4. n.rp = Tail(m.rp) /\ n.rq = m.rq /\ n.aw = m.aw
    BY <1>1, <1>3 DEF Conversations
  <1> HIDE DEF n
  <1>5. Answered(m.rp, o)
    BY <1>3 DEF Answered
  <1>6. ~Answered(n.rp, o)
    BY <1>1, <1>3, <1>4 DEF Answered, RepliesMatch
  <1>7. ~Asks(m.rq, o) /\ m.aw[o] = {}
    BY <1>1, <1>5 DEF OneOutstanding
  <1>8. Free(n, o)
    BY <1>4, <1>6, <1>7 DEF Free
  <1>9. n \in Matching
    BY EventTaken DEF n
  <1>10. Replied(r, m.cl[o])
    BY <1>1, <1>3 DEF RepliesMatch
  <1>11. QED
    BY <1>8, <1>9, <1>10 DEF n

\* A call with nothing under way goes on.
LEMMA CallMoves ==
  ASSUME NEW m \in Matching, NEW o \in Ops, NEW c \in Calls \ {"none"}, Free(m, o),
         m.se = "running" \/ c \in AtRest
  PROVE  [m EXCEPT !.cl = [m.cl EXCEPT ![o] = c]] \in Matching
  <1> DEFINE n == [m EXCEPT !.cl = [m.cl EXCEPT ![o] = c]]
  <1>1. /\ m \in Conversations /\ RequestsMatch(m) /\ RepliesMatch(m) /\ OneOutstanding(m)
        /\ StartsOnce(m) /\ SettlesLast(m)
    BY DEF Matching
  <1>2. n \in Conversations /\ n.rp = m.rp /\ n.rq = m.rq /\ n.aw = m.aw /\ n.st = m.st
        /\ n.se = m.se
        /\ n.cl[o] = c /\ \A x \in Ops \ {o} : n.cl[x] = m.cl[x]
    BY <1>1 DEF Conversations
  <1> HIDE DEF n
  <1>3. ~Asks(m.rq, o) /\ ~Answered(m.rp, o) /\ m.aw[o] = {}
    BY DEF Free
  <1>4. RequestsMatch(n)
    <2>1. ASSUME NEW i \in DOMAIN n.rq, n.rq[i][2] # "settled"
          PROVE  Waits(n.rq[i][2], n.cl[n.rq[i][1]])
      <3>1. m.rq[i] \in Asked
        BY <1>1, <1>2, <2>1 DEF Conversations
      <3>2. m.rq[i][1] \in Ops \ {o}
        BY <1>2, <1>3, <2>1, <3>1 DEF Asks, Asked
      <3>3. QED
        BY <1>1, <1>2, <2>1, <3>2 DEF RequestsMatch
    <2>2. QED
      BY <1>1, <1>2, <2>1 DEF RequestsMatch
  <1>5. RepliesMatch(n)
    <2>1. ASSUME NEW i \in DOMAIN n.rp
          PROVE  Replied(n.rp[i][2], n.cl[n.rp[i][1]])
      <3>1. m.rp[i] \in Told
        BY <1>1, <1>2, <2>1 DEF Conversations
      <3>2. CASE m.rp[i][2] \in Replies
        <4>1. m.rp[i][1] \in Ops \ {o}
          BY <1>2, <1>3, <2>1, <3>1, <3>2 DEF Answered, Told
        <4>2. QED
          BY <1>1, <1>2, <2>1, <4>1 DEF RepliesMatch
      <3>3. CASE m.rp[i][2] \notin Replies
        BY <1>2, <3>3 DEF Replied, Replies
      <3>4. QED
        BY <3>2, <3>3
    <2>2. QED
      BY <1>1, <1>2, <2>1 DEF RepliesMatch
  <1>6. OneOutstanding(n)
    BY <1>1, <1>2, <1>3 DEF OneOutstanding
  <1>7. StartsOnce(n) /\ SettlesLast(n)
    BY <1>1, <1>2 DEF StartsOnce, SettlesLast
  <1>8. QED
    BY <1>2, <1>4, <1>5, <1>6, <1>7 DEF Matching, n

\* A call with nothing under way asks.
LEMMA RequestSent ==
  ASSUME NEW m \in Matching, NEW o \in Ops, NEW k \in {"start", "stop", "release"}, Free(m, o),
         Waits(k, m.cl[o]), m.cl[o] \in Asking, k = "start" => o \notin m.st
  PROVE  [m EXCEPT !.rq = Append(m.rq, <<o, k>>)] \in Matching
  <1> DEFINE n == [m EXCEPT !.rq = Append(m.rq, <<o, k>>)]
  <1>1. /\ m \in Conversations /\ RequestsMatch(m) /\ RepliesMatch(m) /\ OneOutstanding(m)
        /\ StartsOnce(m) /\ SettlesLast(m)
    BY DEF Matching
  <1>2. m.rq \in Seq(Asked) /\ <<o, k>> \in Asked
    BY <1>1 DEF Conversations, Asked
  <1>3. /\ Append(m.rq, <<o, k>>) \in Seq(Asked) /\ Len(m.rq) \in Nat
        /\ DOMAIN m.rq = 1 .. Len(m.rq)
        /\ DOMAIN Append(m.rq, <<o, k>>) = 1 .. Len(m.rq) + 1
        /\ \A i \in DOMAIN m.rq : Append(m.rq, <<o, k>>)[i] = m.rq[i]
        /\ Append(m.rq, <<o, k>>)[Len(m.rq) + 1] = <<o, k>>
    BY <1>2, AppendIndexed
  <1>4. n \in Conversations /\ n.rq = Append(m.rq, <<o, k>>) /\ n.rp = m.rp /\ n.aw = m.aw
        /\ n.cl = m.cl /\ n.st = m.st /\ n.se = m.se
    BY <1>1, <1>3 DEF Conversations
  <1> HIDE DEF n
  <1>5. \A i \in DOMAIN n.rq : \/ i \in DOMAIN m.rq /\ n.rq[i] = m.rq[i]
                               \/ n.rq[i] = <<o, k>> /\ i = Len(m.rq) + 1
    <2>1. TAKE i \in DOMAIN n.rq
    <2>2. i \in DOMAIN m.rq \/ i = Len(m.rq) + 1
      BY <1>3, <1>4
    <2>3. QED
      BY <1>3, <1>4, <2>2
  <1>6. m.se = "running" /\ \A i \in DOMAIN m.rq : m.rq[i][2] # "settled"
    BY <1>1 DEF SettlesLast, AtRest, Asking
  <1>7. \A i \in DOMAIN m.rq : m.rq[i][1] # o
    BY <1>6 DEF Free, Asks
  <1>8. RequestsMatch(n)
    <2>1. \A i \in DOMAIN n.rq : n.rq[i][2] # "settled" => Waits(n.rq[i][2], n.cl[n.rq[i][1]])
      BY <1>1, <1>4, <1>5 DEF RequestsMatch
    <2>2. ASSUME NEW i \in DOMAIN n.rq, NEW j \in DOMAIN n.rq, n.rq[i][1] = n.rq[j][1]
          PROVE  i = j
      <3>1. CASE i = Len(m.rq) + 1 /\ j = Len(m.rq) + 1
        BY <3>1
      <3>2. CASE i \in DOMAIN m.rq /\ j \in DOMAIN m.rq
        BY <1>1, <1>3, <1>4, <2>2, <3>2 DEF RequestsMatch
      <3>3. CASE i \in DOMAIN m.rq /\ n.rq[j] = <<o, k>>
        BY <1>3, <1>4, <1>7, <2>2, <3>3
      <3>4. CASE j \in DOMAIN m.rq /\ n.rq[i] = <<o, k>>
        BY <1>3, <1>4, <1>7, <2>2, <3>4
      <3>5. QED
        BY <1>5, <3>1, <3>2, <3>3, <3>4
    <2>3. QED
      BY <2>1, <2>2 DEF RequestsMatch
  <1>9. \A x \in Ops : Asks(n.rq, x) => Asks(m.rq, x) \/ x = o
    BY <1>5 DEF Asks
  <1>10. ~Answered(m.rp, o) /\ m.aw[o] = {}
    BY DEF Free
  <1>11. OneOutstanding(n)
    BY <1>1, <1>4, <1>9, <1>10 DEF OneOutstanding
  <1>12. RepliesMatch(n)
    BY <1>1, <1>4 DEF RepliesMatch
  <1>13. StartsOnce(n) /\ SettlesLast(n)
    BY <1>1, <1>4, <1>5 DEF StartsOnce, SettlesLast
  <1>14. QED
    BY <1>4, <1>8, <1>11, <1>12, <1>13 DEF Matching, n

\* The operation of a call that has asked for it begins.
LEMMA OperationBegins ==
  ASSUME NEW m \in Matching, NEW o \in Ops, Free(m, o), m.cl[o] # "none"
  PROVE  [m EXCEPT !.st = m.st \cup {o}] \in Matching
  <1> DEFINE n == [m EXCEPT !.st = m.st \cup {o}]
  <1>1. /\ m \in Conversations /\ RequestsMatch(m) /\ RepliesMatch(m) /\ OneOutstanding(m)
        /\ StartsOnce(m) /\ SettlesLast(m)
    BY DEF Matching
  <1>2. n \in Conversations /\ n.rp = m.rp /\ n.rq = m.rq /\ n.aw = m.aw /\ n.cl = m.cl
        /\ n.se = m.se
        /\ n.st = m.st \cup {o}
    BY <1>1 DEF Conversations
  <1> HIDE DEF n
  <1>3. StartsOnce(n)
    BY <1>1, <1>2 DEF StartsOnce, Free, Asks
  <1>4. RequestsMatch(n) /\ RepliesMatch(n) /\ OneOutstanding(n) /\ SettlesLast(n)
    BY <1>1, <1>2 DEF RequestsMatch, RepliesMatch, OneOutstanding, SettlesLast
  <1>5. QED
    BY <1>2, <1>3, <1>4 DEF Matching, n

\* The Worker posts its settlement when every call has its answer: nothing else is asked.
LEMMA SettlementPosted ==
  ASSUME NEW m \in Matching, m.se = "running", \A o \in Ops : m.cl[o] \in AtRest
  PROVE  [m EXCEPT !.rq = Append(m.rq, <<"turn", "settled">>), !.se = "posted"] \in Matching
  <1> DEFINE n == [m EXCEPT !.rq = Append(m.rq, <<"turn", "settled">>), !.se = "posted"]
  <1>1. /\ m \in Conversations /\ RequestsMatch(m) /\ RepliesMatch(m) /\ OneOutstanding(m)
        /\ StartsOnce(m) /\ SettlesLast(m)
    BY DEF Matching
  <1>2. m.rq \in Seq(Asked) /\ <<"turn", "settled">> \in Asked
    BY <1>1 DEF Conversations, Asked
  <1>3. m.rq = << >>
    <2>1. ASSUME NEW i \in DOMAIN m.rq PROVE FALSE
      <3>1. m.rq[i][2] # "settled" /\ m.rq[i] \in Asked
        BY <1>1, <1>2, <2>1 DEF SettlesLast
      <3>2. m.rq[i][1] \in Ops
        BY <3>1 DEF Asked
      <3>3. ~Asks(m.rq, m.rq[i][1])
        BY <3>2, RestingIsFree DEF Free, AtRest, Asking
      <3>4. QED
        BY <2>1, <3>1, <3>3 DEF Asks
    <2>2. Len(m.rq) \in Nat /\ DOMAIN m.rq = 1 .. Len(m.rq)
      BY <1>2
    <2>3. Len(m.rq) = 0
      BY <2>1, <2>2
    <2>4. QED
      BY <1>2, <2>3
  <1>a. /\ Append(m.rq, <<"turn", "settled">>) \in Seq(Asked)
        /\ Append(m.rq, <<"turn", "settled">>) = << <<"turn", "settled">> >>
    BY <1>2, <1>3
  <1>4. n \in Conversations /\ n.rq = << <<"turn", "settled">> >> /\ n.rp = m.rp /\ n.aw = m.aw
        /\ n.cl = m.cl /\ n.st = m.st /\ n.se = "posted"
    BY <1>1, <1>a DEF Conversations
  <1> HIDE DEF n
  <1>5. DOMAIN n.rq = {1} /\ n.rq[1][2] = "settled"
    BY <1>4
  <1>6. RequestsMatch(n)
    BY <1>5 DEF RequestsMatch
  <1>7. \A x \in Ops : ~Asks(n.rq, x)
    BY <1>5 DEF Asks
  <1>8. OneOutstanding(n)
    BY <1>1, <1>4, <1>7 DEF OneOutstanding
  <1>9. RepliesMatch(n)
    BY <1>1, <1>4 DEF RepliesMatch
  <1>10. StartsOnce(n) /\ SettlesLast(n)
    BY <1>1, <1>4, <1>5 DEF StartsOnce, SettlesLast
  <1>11. QED
    BY <1>4, <1>6, <1>8, <1>9, <1>10 DEF Matching, n

\* The settlement is the only request when it is there.
LEMMA SettlementIsAlone ==
  ASSUME NEW m \in Matching, NEW i \in DOMAIN m.rq, m.rq[i][2] = "settled"
  PROVE  /\ m.se = "posted" /\ Len(m.rq) = 1
         /\ \A o \in Ops : m.cl[o] \in AtRest
  <1>1. /\ m \in Conversations /\ RequestsMatch(m) /\ SettlesLast(m)
    BY DEF Matching
  <1>2. m.rq \in Seq(Asked)
    BY <1>1 DEF Conversations
  <1>3. m.se = "posted"
    BY <1>1 DEF SettlesLast
  <1>4. \A o \in Ops : m.cl[o] \in AtRest
    BY <1>1, <1>3 DEF SettlesLast
  <1>5. ASSUME NEW j \in DOMAIN m.rq PROVE m.rq[j] = <<"turn", "settled">>
    <2>1. m.rq[j] \in Asked
      BY <1>2, <1>5
    <2>2. CASE m.rq[j] \in Ops \X {"start", "stop", "release"}
      <3>1. m.rq[j][1] \in Ops /\ m.rq[j][2] # "settled"
        BY <2>2
      <3>2. ~Asks(m.rq, m.rq[j][1])
        BY <1>4, <3>1, RestingIsFree DEF Free, AtRest, Asking
      <3>3. QED
        BY <1>5, <3>1, <3>2 DEF Asks
    <2>3. CASE m.rq[j] \in {<<"turn", "settled">>}
      BY <2>3
    <2>4. QED
      BY <2>1, <2>2, <2>3 DEF Asked
  <1>6. \A j, k \in DOMAIN m.rq : j = k
    BY <1>1, <1>5 DEF RequestsMatch
  <1>7. Len(m.rq) = 1
    <2>a. Len(m.rq) \in Nat
      BY <1>2
    <2>1. Len(m.rq) \in Nat /\ DOMAIN m.rq = 1 .. Len(m.rq)
      BY <1>2
    <2>2. ASSUME Len(m.rq) > 1 PROVE FALSE
      <3>1. 1 \in DOMAIN m.rq /\ 2 \in DOMAIN m.rq
        BY <2>1, <2>2
      <3>2. QED
        BY <1>6, <3>1
    <2>3. Len(m.rq) >= 1
      <3>1. i \in 1 .. Len(m.rq)
        BY <2>1
      <3>2. QED
        BY <2>1, <3>1
    <2>4. PICK k \in Nat : k = Len(m.rq)
      BY <2>a
    <2>5. ~(k > 1) /\ k >= 1
      BY <2>2, <2>3, <2>4
    <2>6. k = 1
      BY <2>5
    <2>7. QED
      BY <2>4, <2>6
  <1>8. QED
    BY <1>3, <1>4, <1>7

\* The owner takes it.
LEMMA SettlementTaken ==
  ASSUME NEW m \in Matching, m.rq # << >>, Head(m.rq)[2] = "settled"
  PROVE  [m EXCEPT !.rq = Tail(m.rq), !.se = "received"] \in Matching
  <1> DEFINE n == [m EXCEPT !.rq = Tail(m.rq), !.se = "received"]
  <1>1. /\ m \in Conversations /\ RequestsMatch(m) /\ RepliesMatch(m) /\ OneOutstanding(m)
        /\ StartsOnce(m)
    BY DEF Matching
  <1>2. m.rq \in Seq(Asked)
    BY <1>1 DEF Conversations
  <1>3. 1 \in DOMAIN m.rq /\ m.rq[1][2] = "settled"
    BY <1>2, TailIndexed
  <1>4. Len(m.rq) = 1 /\ \A o \in Ops : m.cl[o] \in AtRest
    BY <1>3, SettlementIsAlone
  <1>a. Tail(m.rq) \in Seq(Asked) /\ Tail(m.rq) = << >>
    <2>1. Tail(m.rq) \in Seq(Asked) /\ Len(Tail(m.rq)) = 0
      BY <1>2, <1>4
    <2>2. ASSUME NEW s \in Seq(Asked), Len(s) = 0 PROVE s = << >>
      BY <2>2
    <2>3. QED
      BY <2>1, <2>2
  <1>5. n \in Conversations /\ n.rq = << >> /\ n.rp = m.rp /\ n.aw = m.aw
        /\ n.cl = m.cl /\ n.st = m.st /\ n.se = "received"
    BY <1>1, <1>a DEF Conversations
  <1> HIDE DEF n
  <1>6. \A x \in Ops : ~Asks(n.rq, x)
    BY <1>5 DEF Asks
  <1>7. OneOutstanding(n)
    BY <1>1, <1>5, <1>6 DEF OneOutstanding
  <1>8. RequestsMatch(n) /\ RepliesMatch(n) /\ StartsOnce(n) /\ SettlesLast(n)
    BY <1>1, <1>4, <1>5 DEF RequestsMatch, RepliesMatch, StartsOnce, SettlesLast
  <1>9. QED
    BY <1>5, <1>7, <1>8 DEF Matching, n

\* The next execution begins with no settlement of the last one on its way.
LEMMA NextSettles ==
  ASSUME NEW m \in Matching, m.se = "received" \/ m.rq = << >>
  PROVE  [m EXCEPT !.se = "running"] \in Matching
  <1> DEFINE n == [m EXCEPT !.se = "running"]
  <1>1. /\ m \in Conversations /\ RequestsMatch(m) /\ RepliesMatch(m) /\ OneOutstanding(m)
        /\ StartsOnce(m) /\ SettlesLast(m)
    BY DEF Matching
  <1>2. n \in Conversations /\ n.rp = m.rp /\ n.rq = m.rq /\ n.cl = m.cl /\ n.st = m.st
        /\ n.aw = m.aw /\ n.se = "running"
    BY <1>1 DEF Conversations
  <1> HIDE DEF n
  <1>3. SettlesLast(n)
    BY <1>1, <1>2 DEF SettlesLast
  <1>4. RequestsMatch(n) /\ RepliesMatch(n) /\ OneOutstanding(n) /\ StartsOnce(n)
    BY <1>1, <1>2 DEF RequestsMatch, RepliesMatch, OneOutstanding, StartsOnce
  <1>5. QED
    BY <1>2, <1>3, <1>4 DEF Matching, n

\* The Worker is terminated: what was in the ports is lost.
LEMMA PortsCut ==
  ASSUME NEW m \in Matching
  PROVE  [m EXCEPT !.rq = << >>, !.rp = << >>] \in Matching
  <1> DEFINE n == [m EXCEPT !.rq = << >>, !.rp = << >>]
  <1>1. m \in Conversations /\ OneOutstanding(m) /\ StartsOnce(m) /\ SettlesLast(m)
    BY DEF Matching
  <1>a. << >> \in Seq(Asked) /\ << >> \in Seq(Told)
    OBVIOUS
  <1>2. n \in Conversations /\ n.rp = << >> /\ n.rq = << >> /\ n.cl = m.cl /\ n.st = m.st
        /\ n.aw = m.aw /\ n.se = m.se
    BY <1>1, <1>a DEF Conversations
  <1> HIDE DEF n
  <1>3. \A x \in Ops : ~Asks(n.rq, x) /\ ~Answered(n.rp, x)
    BY <1>2 DEF Asks, Answered
  <1>4. OneOutstanding(n)
    BY <1>1, <1>2, <1>3 DEF OneOutstanding
  <1>5. RequestsMatch(n) /\ RepliesMatch(n) /\ StartsOnce(n) /\ SettlesLast(n)
    BY <1>1, <1>2 DEF RequestsMatch, RepliesMatch, StartsOnce, SettlesLast
  <1>6. QED
    BY <1>2, <1>4, <1>5 DEF Matching, n

\* The port to the owner holds a request of each call at most, or the settlement.
LEMMA RequestsAreBounded ==
  ASSUME NEW m \in Matching
  PROVE  Len(m.rq) <= Cardinality(Ops)
  <1>1. m \in Conversations /\ RequestsMatch(m)
    BY DEF Matching
  <1>2. m.rq \in Seq(Asked) /\ Len(m.rq) \in Nat /\ DOMAIN m.rq = 1 .. Len(m.rq)
    BY <1>1 DEF Conversations
  <1>3. IsFiniteSet(Ops) /\ Cardinality(Ops) \in Nat /\ Cardinality(Ops) # 0
    BY OpsAssumption, FS_CardinalityType, FS_EmptySet
  <1>4. CASE \E i \in DOMAIN m.rq : m.rq[i][2] = "settled"
    <2>1. Len(m.rq) = 1
      BY <1>4, SettlementIsAlone
    <2>2. QED
      BY <1>3, <2>1
  <1>5. CASE \A i \in DOMAIN m.rq : m.rq[i][2] # "settled"
    <2> DEFINE f == [i \in 1 .. Len(m.rq) |-> m.rq[i][1]]
    <2>1. \A i \in 1 .. Len(m.rq) : m.rq[i] \in Asked /\ m.rq[i][2] # "settled"
      BY <1>2, <1>5
    <2>2. \A i \in 1 .. Len(m.rq) : m.rq[i][1] \in Ops
      BY <2>1 DEF Asked
    <2>3. f \in Injection(1 .. Len(m.rq), Ops)
      BY <1>1, <1>2, <2>2 DEF Injection, IsInjective, RequestsMatch
    <2>4. IsFiniteSet(1 .. Len(m.rq)) /\ Cardinality(1 .. Len(m.rq)) = Len(m.rq)
      BY <1>2, FS_Interval
    <2>5. QED
      BY <1>3, <2>3, <2>4, FS_Injection
  <1>6. QED
    BY <1>4, <1>5

-----------------------------------------------------------------------------
(* The steps.                                                              *)

\* The parts of the conversation.
LEMMA ConversationParts ==
  /\ Conversation.rq = toOwner /\ Conversation.rp = toWorker /\ Conversation.cl = call
  /\ Conversation.se = settled /\ Conversation.st = {o \in Ops : proc[o].life # "none"}
  /\ Conversation.aw = [o \in Ops |-> owned[o].awaiting]
  BY DEF Conversation

\* A step makes it what the ports, the calls and the operations become.
LEMMA ConversationBecomes ==
  ASSUME NEW n \in Matching, toOwner' = n.rq, toWorker' = n.rp, call' = n.cl, settled' = n.se,
         {o \in Ops : proc'[o].life # "none"} = n.st,
         [o \in Ops |-> owned'[o].awaiting] = n.aw
  PROVE  Conversation' \in Matching
  <1>1. n \in Conversations
    BY DEF Matching
  <1>2. n = [rq |-> n.rq, rp |-> n.rp, aw |-> n.aw, cl |-> n.cl, st |-> n.st, se |-> n.se]
    BY <1>1 DEF Conversations
  <1>3. Conversation' = n
    BY <1>2 DEF Conversation
  <1>4. QED
    BY <1>3

\* One that leaves the operations alone changes the ports and the calls.
LEMMA CallsBecome ==
  ASSUME NEW n \in Matching, toOwner' = n.rq, toWorker' = n.rp, call' = n.cl, settled' = n.se,
         n.st = Conversation.st, n.aw = Conversation.aw, UNCHANGED <<proc, owned>>
  PROVE  Conversation' \in Matching
  <1>1. {o \in Ops : proc'[o].life # "none"} = n.st
    BY ConversationParts
  <1>2. [o \in Ops |-> owned'[o].awaiting] = n.aw
    BY ConversationParts
  <1>3. QED
    BY <1>1, <1>2, ConversationBecomes

\* Steps of the processes, the coroutines and the readers.
LEMMA ProcessStepKeeps ==
  ASSUME OwnerInduct, ProcessStep
  PROVE  OwnerInduct'
  <1> USE DEF ProcessStep, workerVars, turnVars
  <1>1. Shapes /\ TableFollowsProcesses /\ OneCancellation /\ CancellationReaches /\ CloseReaches
        /\ Conversation \in Matching /\ CallsHaveTurn
    BY DEF OwnerInduct
  <1>a. CallsHaveTurn'
    BY <1>1 DEF CallsHaveTurn
  <1>2. Shapes'
    BY <1>1 DEF Shapes, Others
  <1>3. ASSUME NEW o \in Ops
        PROVE  /\ proc'[o].life = "none" <=> proc[o].life = "none"
               /\ proc[o].stop # "none" => proc'[o].stop # "none"
               /\ Stopped(o) => Stopped(o)'
               /\ StopFailed(o) => StopFailed(o)'
               /\ Ended(o) => Ended(o)'
               /\ proc[o].stop = "done" => proc'[o].stop = "done"
    BY <1>3 DEF Later, Stopped, StopFailed, Ended
  <1>4. TableFollowsProcesses'
    BY <1>1, <1>3 DEF TableFollowsProcesses
  <1>5. OneCancellation'
    BY <1>1 DEF OneCancellation
  <1>6. CancellationReaches'
    <2>1. ASSUME NEW o \in Ops, owned'[o].turn = turn', Cancelled(turn)', ~owned'[o].released
          PROVE  /\ proc'[o].stop # "none"
                 /\ o \in cancellations'[turn'] \/ Stopped(o)' \/ StopFailed(o)'
                    \/ "start" \in owned'[o].awaiting
      BY <1>1, <1>3, <2>1 DEF CancellationReaches, Cancelled
    <2>2. QED
      BY <2>1 DEF CancellationReaches
  <1>7. CloseReaches'
    <2>1. closing' # "no" => toOwner' = << >> /\ toWorker' = << >>
      BY <1>1 DEF CloseReaches
    <2>2. closing' # "no" => \A o \in Ops \ closeOps' : proc'[o].life = "none" \/ Ended(o)'
      BY <1>1, <1>3 DEF CloseReaches
    <2>3. closing' \in {"closed", "failed"} => \A o \in closeOps' : Stopped(o)' \/ StopFailed(o)'
      BY <1>1, <1>3 DEF CloseReaches, Shapes, Others
    <2>4. closing' = "closed" => \A o \in closeOps' : proc'[o].stop = "done"
      BY <1>1, <1>3 DEF CloseReaches, Shapes, Others
    <2>5. QED
      BY <2>1, <2>2, <2>3, <2>4 DEF CloseReaches
  <1>8. Conversation' \in Matching
    <2>1. [o \in Ops |-> owned'[o].awaiting] = [o \in Ops |-> owned[o].awaiting]
      OBVIOUS
    <2>2. {o \in Ops : proc'[o].life # "none"} = {o \in Ops : proc[o].life # "none"}
      BY <1>3
    <2>3. CASE toWorker' = toWorker
      <3>1. Conversation' = Conversation
        BY <2>1, <2>2, <2>3 DEF Conversation
      <3>2. QED
        BY <1>1, <3>1
    <2>4. ASSUME NEW e \in Ops \X Events, toWorker' = Append(toWorker, e)
          PROVE  Conversation' \in Matching
      <3>1. PICK n \in Matching : n = [Conversation EXCEPT !.rp = Append(Conversation.rp, e)]
        BY <1>1, EventPosted
      <3>2. Conversation \in Conversations
        BY <1>1 DEF Matching
      <3>3. /\ n.rq = toOwner' /\ n.rp = toWorker' /\ n.cl = call' /\ n.se = settled'
            /\ n.st = Conversation.st /\ n.aw = Conversation.aw
        BY <2>4, <3>1, <3>2, ConversationParts DEF Conversations
      <3>4. QED
        BY <2>1, <2>2, <3>3, ConversationParts, ConversationBecomes
    <2>5. QED
      BY <2>3, <2>4
  <1>9. QED
    BY <1>2, <1>4, <1>5, <1>6, <1>7, <1>8, <1>a DEF OwnerInduct

\* A process outside the group is in nobody's account.
LEMMA EscapesKeep ==
  ASSUME OwnerInduct, escaped' \in [Ops -> BOOLEAN],
         UNCHANGED <<proc, ownerVars, workerVars, turnVars, ports>>
  PROVE  OwnerInduct'
  <1> USE DEF ownerVars, workerVars, turnVars, ports
  <1>1. Shapes /\ TableFollowsProcesses /\ OneCancellation /\ CancellationReaches /\ CloseReaches
        /\ Conversation \in Matching /\ CallsHaveTurn
    BY DEF OwnerInduct
  <1>2. Shapes' /\ CallsHaveTurn'
    BY <1>1 DEF Shapes, Others, CallsHaveTurn
  <1>3. TableFollowsProcesses' /\ OneCancellation'
    BY <1>1 DEF TableFollowsProcesses, OneCancellation
  <1>4. CancellationReaches'
    BY <1>1 DEF CancellationReaches, Cancelled, Stopped, StopFailed
  <1>5. CloseReaches'
    BY <1>1 DEF CloseReaches, Ended, Stopped, StopFailed
  <1>6. Conversation' \in Matching
    BY <1>1 DEF Conversation
  <1>7. QED
    BY <1>2, <1>3, <1>4, <1>5, <1>6 DEF OwnerInduct

\* What the Worker does leaves the Host alone.
LEMMA WorkerStepKeeps ==
  ASSUME OwnerInduct, closing = "no", Conversation' \in Matching,
         UNCHANGED <<escaped, proc, ownerVars, turn>>, turn \in Turns \/ call' = call,
         seen' \in [Ops -> SUBSET {"status", "closed", "error"}], cancelSeen' \in BOOLEAN
  PROVE  OwnerInduct'
  <1> USE DEF ownerVars
  <1>1. Shapes /\ TableFollowsProcesses /\ OneCancellation /\ CancellationReaches /\ CloseReaches
        /\ CallsHaveTurn
    BY DEF OwnerInduct
  <1>a. CallsHaveTurn'
    BY <1>1 DEF CallsHaveTurn
  <1>2. Shapes'
    BY <1>1 DEF Shapes, Others
  <1>3. TableFollowsProcesses' /\ OneCancellation'
    BY <1>1 DEF TableFollowsProcesses, OneCancellation
  <1>4. CancellationReaches'
    BY <1>1 DEF CancellationReaches, Cancelled, Stopped, StopFailed
  <1>5. CloseReaches'
    BY DEF CloseReaches
  <1>6. QED
    BY <1>2, <1>3, <1>4, <1>5, <1>a DEF OwnerInduct

\* What is waited for is there only while the Worker lives.
LEMMA PortsAreOpen ==
  ASSUME OwnerInduct, toOwner # << >> \/ toWorker # << >>
  PROVE  closing = "no"
  BY DEF OwnerInduct, CloseReaches

\* A call that runs is one of an execution.
LEMMA CallHasTurn ==
  ASSUME OwnerInduct, NEW o \in Ops, call[o] \notin AtRest, closing = "no"
  PROVE  turn \in Turns
  BY DEF OwnerInduct, CallsHaveTurn

\* A call that is not started: the start is sent.
LEMMA StartCallKeeps ==
  ASSUME OwnerInduct, NEW o \in Ops, StartCall(o)
  PROVE  OwnerInduct'
  <1>1. Conversation \in Matching /\ closing = "no" /\ settled = "running" /\ call[o] = "none"
    BY DEF OwnerInduct, StartCall, WorkerAlive
  <1> DEFINE m == Conversation
  <1>2. m \in Matching /\ m \in Conversations /\ m.cl = call /\ m.se = settled /\ m.rq = toOwner
    BY <1>1, ConversationParts DEF Matching
  <1>3. Free(m, o) /\ o \notin m.st
    <2>1. Free(m, o)
      BY <1>1, <1>2, RestingIsFree DEF Asking
    <2>2. StartsOnce(m)
      BY <1>2 DEF Matching
    <2>3. QED
      BY <1>1, <1>2, <2>1, <2>2 DEF StartsOnce
  <1>4. PICK n \in Matching : n = [m EXCEPT !.cl = [m.cl EXCEPT ![o] = "starting"]]
    BY <1>1, <1>2, <1>3, CallMoves DEF Calls, Asking
  <1>5. Free(n, o) /\ n.cl[o] = "starting" /\ o \notin n.st /\ n.rq = toOwner
    BY <1>2, <1>3, <1>4 DEF Free, Conversations
  <1>6. PICK k \in Matching : k = [n EXCEPT !.rq = Append(n.rq, <<o, "start">>)]
    BY <1>5, RequestSent DEF Waits, Asking
  <1>7. /\ k.rq = Append(toOwner, <<o, "start">>) /\ k.rp = toWorker
        /\ k.cl = [call EXCEPT ![o] = "starting"] /\ k.se = settled /\ k.st = m.st /\ k.aw = m.aw
    <2>1. n \in Conversations /\ m.rp = toWorker
      BY ConversationParts DEF Matching
    <2>2. n.rp = m.rp /\ n.cl = [m.cl EXCEPT ![o] = "starting"] /\ n.se = m.se /\ n.st = m.st
          /\ n.aw = m.aw
      BY <1>2, <1>4 DEF Conversations
    <2> HIDE DEF m
    <2>3. QED
      BY <1>2, <1>5, <1>6, <2>1, <2>2 DEF Conversations
  <1> HIDE DEF m
  <1>8. Conversation' \in Matching
    BY <1>7, CallsBecome DEF StartCall, Send, ownerVars, turnVars, m
  <1>9. QED
    BY <1>1, <1>8, WorkerStepKeeps DEF StartCall, OwnerInduct, Shapes, Others, turnVars

\* The cancel command arrives.
LEMMA CancelArrivesKeeps ==
  ASSUME OwnerInduct, CancelArrives
  PROVE  OwnerInduct'
  <1>1. Conversation \in Matching /\ closing = "no"
    BY DEF OwnerInduct, CancelArrives, WorkerAlive
  <1>2. Conversation' = Conversation
    BY DEF CancelArrives, Conversation, ownerVars, turnVars, ports
  <1>3. QED
    BY <1>1, <1>2, WorkerStepKeeps DEF CancelArrives, workerVars, OwnerInduct, Shapes, Others,
       turnVars

\* A call with nothing under way stops its process, or releases it, or ends.
LEMMA CallSends ==
  ASSUME NEW m \in Matching, NEW o \in Ops, Free(m, o), m.se = "running",
         NEW k \in {"stop", "release"}, NEW c \in {"stopping", "releasing"}, Waits(k, c)
  PROVE  [m EXCEPT !.cl = [m.cl EXCEPT ![o] = c], !.rq = Append(m.rq, <<o, k>>)] \in Matching
  <1>1. m \in Conversations
    BY DEF Matching
  <1>2. PICK n \in Matching : n = [m EXCEPT !.cl = [m.cl EXCEPT ![o] = c]]
    BY CallMoves DEF Calls, Asking
  <1>3. Free(n, o) /\ n.cl[o] = c /\ n.rq = m.rq
    BY <1>1, <1>2 DEF Free, Conversations
  <1>4. [n EXCEPT !.rq = Append(n.rq, <<o, k>>)] \in Matching
    BY <1>3, RequestSent DEF Asking
  <1>5. [n EXCEPT !.rq = Append(n.rq, <<o, k>>)]
          = [m EXCEPT !.cl = [m.cl EXCEPT ![o] = c], !.rq = Append(m.rq, <<o, k>>)]
    BY <1>1, <1>2 DEF Conversations
  <1>6. QED
    BY <1>4, <1>5

\* stop of the Worker, in a conversation whose call has nothing under way.
LEMMA StopCallMatches ==
  ASSUME NEW m \in Matching, NEW o \in Ops, Free(m, o), m.se = "running", m.cl = call,
         m.rq = toOwner, StopCall(o)
  PROVE  [m EXCEPT !.cl = call', !.rq = toOwner'] \in Matching
  <1>0. m \in Conversations
    BY DEF Matching
  <1>1. CASE call' = [call EXCEPT ![o] = "stopping"] /\ toOwner' = Append(toOwner, <<o, "stop">>)
    <2>1. [m EXCEPT !.cl = [m.cl EXCEPT ![o] = "stopping"], !.rq = Append(m.rq, <<o, "stop">>)]
            \in Matching
      BY CallSends DEF Waits
    <2>2. QED
      BY <1>1, <2>1
  <1>2. ASSUME NEW c \in {"dirty", "closing"}, call' = [call EXCEPT ![o] = c], toOwner' = toOwner
        PROVE  [m EXCEPT !.cl = call', !.rq = toOwner'] \in Matching
    <2>1. [m EXCEPT !.cl = [m.cl EXCEPT ![o] = c]] \in Matching
      BY CallMoves DEF Calls, AtRest
    <2>2. [m EXCEPT !.cl = call', !.rq = toOwner'] = [m EXCEPT !.cl = [m.cl EXCEPT ![o] = c]]
      BY <1>0, <1>2 DEF Conversations
    <2>3. QED
      BY <2>1, <2>2
  <1>3. QED
    BY <1>1, <1>2 DEF StopCall, Send

\* The call's race is decided.
LEMMA CallDecidesKeeps ==
  ASSUME OwnerInduct, NEW o \in Ops, CallDecides(o)
  PROVE  OwnerInduct'
  <1>1. Conversation \in Matching /\ closing = "no" /\ call[o] = "running"
    BY DEF OwnerInduct, CallDecides, WorkerAlive
  <1> DEFINE m == Conversation
  <1>2. m \in Matching /\ m.cl = call /\ m.se = settled /\ m.rq = toOwner /\ SettlesLast(m)
    BY <1>1, ConversationParts DEF Matching
  <1>3. Free(m, o) /\ m.se = "running"
    BY <1>1, <1>2, RestingIsFree DEF Asking, AtRest, SettlesLast
  <1>4. ASSUME [m EXCEPT !.cl = call', !.rq = toOwner'] \in Matching
        PROVE  Conversation' \in Matching
    <2>1. PICK n \in Matching : n = [m EXCEPT !.cl = call', !.rq = toOwner']
      BY <1>4
    <2>2. m \in Conversations /\ m.rp = toWorker
      BY <1>1, ConversationParts DEF Matching
    <2>3. /\ n.rq = toOwner' /\ n.rp = m.rp /\ n.cl = call' /\ n.se = m.se /\ n.st = m.st
          /\ n.aw = m.aw
      BY <2>1, <2>2 DEF Conversations
    <2>4. QED
      BY <1>2, <2>2, <2>3, CallsBecome DEF CallDecides, ownerVars, turnVars
  <1> HIDE DEF m
  <1>5. Conversation' \in Matching
    <2>1. CASE StopCall(o)
      BY <1>2, <1>3, <1>4, <2>1, StopCallMatches
    <2>2. CASE ReleaseCall(o)
      BY <1>2, <1>3, <1>4, <2>2, CallSends DEF ReleaseCall, Send, Waits
    <2>3. QED
      BY <2>1, <2>2 DEF CallDecides
  <1>6. QED
    BY <1>1, <1>5, CallHasTurn, WorkerStepKeeps
       DEF CallDecides, OwnerInduct, Shapes, Others, turnVars, AtRest

\* The stop has been answered.
LEMMA CallStoppedKeeps ==
  ASSUME OwnerInduct, NEW o \in Ops, CallStopped(o)
  PROVE  OwnerInduct'
  <1>1. Conversation \in Matching /\ closing = "no" /\ call[o] = "closing"
    BY DEF OwnerInduct, CallStopped, WorkerAlive
  <1> DEFINE m == Conversation
  <1>2. m \in Matching /\ m.cl = call /\ m.se = settled /\ m.rq = toOwner /\ SettlesLast(m)
        /\ m \in Conversations
    BY <1>1, ConversationParts DEF Matching
  <1>3. Free(m, o) /\ m.se = "running"
    BY <1>1, <1>2, RestingIsFree DEF Asking, AtRest, SettlesLast
  <1>4. ASSUME [m EXCEPT !.cl = call', !.rq = toOwner'] \in Matching
        PROVE  Conversation' \in Matching
    <2>1. PICK n \in Matching : n = [m EXCEPT !.cl = call', !.rq = toOwner']
      BY <1>4
    <2>2. m \in Conversations /\ m.rp = toWorker
      BY <1>1, ConversationParts DEF Matching
    <2>3. /\ n.rq = toOwner' /\ n.rp = m.rp /\ n.cl = call' /\ n.se = m.se /\ n.st = m.st
          /\ n.aw = m.aw
      BY <2>1, <2>2 DEF Conversations
    <2>4. QED
      BY <1>2, <2>2, <2>3, CallsBecome DEF CallStopped, ownerVars, turnVars
  <1> HIDE DEF m
  <1>5. Conversation' \in Matching
    <2>1. CASE ReleaseCall(o)
      BY <1>2, <1>3, <1>4, <2>1, CallSends DEF ReleaseCall, Send, Waits
    <2>2. CASE call' = [call EXCEPT ![o] = "dirty"] /\ UNCHANGED toOwner
      <3>1. [m EXCEPT !.cl = [m.cl EXCEPT ![o] = "dirty"]] \in Matching
        BY <1>2, <1>3, CallMoves DEF Calls, AtRest
      <3>2. [m EXCEPT !.cl = call', !.rq = toOwner']
              = [m EXCEPT !.cl = [m.cl EXCEPT ![o] = "dirty"]]
        BY <1>2, <2>2 DEF Conversations
      <3>3. QED
        BY <1>4, <3>1, <3>2
    <2>3. QED
      BY <2>1, <2>2 DEF CallStopped
  <1>6. QED
    BY <1>1, <1>5, CallHasTurn, WorkerStepKeeps
       DEF CallStopped, OwnerInduct, Shapes, Others, turnVars, AtRest

\* What a request changes in the operations, besides the conversation: they are later, and
\* none is forgotten that is not released.
HostMoves ==
  /\ closing = "no" \/ UNCHANGED <<toOwner, toWorker>>
  /\ proc' \in [Ops -> Fit] /\ owned' \in [Ops -> OwnedRecs]
  /\ \A o \in Ops :
       /\ Later(proc[o], proc'[o])
       /\ owned'[o].in => owned[o].in
       /\ owned[o].in => owned'[o].in \/ owned'[o].released
       /\ owned'[o].turn = owned[o].turn
       /\ owned[o].released => owned'[o].released
       /\ "start" \in owned[o].awaiting
            => "start" \in owned'[o].awaiting \/ Stopped(o)' \/ StopFailed(o)'
  /\ UNCHANGED <<escaped, cancellations, closing, closeOps, seen, cancelSeen, turn>>

\* Such a step keeps the invariant, whoever takes it.
LEMMA HostMovesKeep ==
  ASSUME OwnerInduct, HostMoves, CallsHaveTurn', Conversation' \in Matching
  PROVE  OwnerInduct'
  <1> USE DEF HostMoves
  <1>1. Shapes /\ TableFollowsProcesses /\ OneCancellation /\ CancellationReaches /\ CloseReaches
    BY DEF OwnerInduct
  <1>2. Shapes'
    BY <1>1 DEF Shapes, Others
  <1>3. ASSUME NEW o \in Ops
        PROVE  /\ proc'[o].life = "none" <=> proc[o].life = "none"
               /\ proc[o].stop # "none" => proc'[o].stop # "none"
               /\ Stopped(o) => Stopped(o)'
               /\ StopFailed(o) => StopFailed(o)'
               /\ Ended(o) => Ended(o)'
               /\ proc[o].stop = "done" => proc'[o].stop = "done"
    BY <1>3 DEF Later, Stopped, StopFailed, Ended
  <1>4. TableFollowsProcesses'
    BY <1>1, <1>3 DEF TableFollowsProcesses
  <1>5. OneCancellation'
    BY <1>1 DEF OneCancellation
  <1>6. CancellationReaches'
    <2>1. ASSUME NEW o \in Ops, owned'[o].turn = turn', Cancelled(turn)', ~owned'[o].released
          PROVE  /\ proc'[o].stop # "none"
                 /\ \/ o \in cancellations'[turn'] \/ Stopped(o)' \/ StopFailed(o)'
                    \/ "start" \in owned'[o].awaiting
      BY <1>1, <1>3, <2>1 DEF CancellationReaches, Cancelled
    <2>2. QED
      BY <2>1 DEF CancellationReaches
  <1>7. CloseReaches'
    <2>1. closing' # "no" => toOwner' = << >> /\ toWorker' = << >>
      BY <1>1 DEF CloseReaches
    <2>2. closing' # "no" => \A o \in Ops \ closeOps' : proc'[o].life = "none" \/ Ended(o)'
      BY <1>1, <1>3 DEF CloseReaches
    <2>3. closing' \in {"closed", "failed"} => \A o \in closeOps' : Stopped(o)' \/ StopFailed(o)'
      BY <1>1, <1>3 DEF CloseReaches, Shapes, Others
    <2>4. closing' = "closed" => \A o \in closeOps' : proc'[o].stop = "done"
      BY <1>1, <1>3 DEF CloseReaches, Shapes, Others
    <2>5. QED
      BY <2>1, <2>2, <2>3, <2>4 DEF CloseReaches
  <1>8. QED
    BY <1>2, <1>4, <1>5, <1>6, <1>7 DEF OwnerInduct

\* A reply moves the call that waits for it, an event is noted.
LEMMA ReceiveKeeps ==
  ASSUME OwnerInduct, Receive
  PROVE  OwnerInduct'
  <1> DEFINE m == Conversation
  <1>1. m \in Matching /\ m \in Conversations /\ toWorker # << >> /\ closing = "no"
        /\ m.rp = toWorker
        /\ m.cl = call /\ m.se = settled /\ m.rq = toOwner /\ SettlesLast(m)
    BY ConversationParts DEF OwnerInduct, Receive, WorkerAlive, Matching
  <1>2. toWorker \in Seq(Told)
    BY <1>1 DEF Conversations
  <1>3. Head(toWorker) \in Told
    BY <1>1, <1>2, TailIndexed
  <1>4. PICK o \in Ops, r \in Replies \cup {"status", "closed", "error"} : Head(toWorker) = <<o, r>>
    BY <1>3 DEF Told
  <1>5. PICK n \in Matching : n = [m EXCEPT !.rp = Tail(m.rp)]
    BY <1>1, EventTaken
  <1>6. n.rq = m.rq /\ n.rp = toWorker' /\ n.cl = m.cl /\ n.se = m.se /\ n.st = m.st /\ n.aw = m.aw
        /\ n \in Conversations
    BY <1>1, <1>5 DEF Conversations, Receive, Matching
  <1>7. UNCHANGED <<escaped, proc, ownerVars, turnVars, cancelSeen>>
    BY DEF Receive
  <1>8. ASSUME [n EXCEPT !.cl = call', !.rq = toOwner'] \in Matching
        PROVE  Conversation' \in Matching
    <2>1. PICK k \in Matching : k = [n EXCEPT !.cl = call', !.rq = toOwner']
      BY <1>8
    <2>2. /\ k.rq = toOwner' /\ k.rp = n.rp /\ k.cl = call' /\ k.se = n.se /\ k.st = n.st
          /\ k.aw = n.aw
      BY <1>6, <2>1 DEF Conversations
    <2>3. QED
      BY <1>1, <1>6, <1>7, <2>2, CallsBecome DEF ownerVars, turnVars
  <1>9. Conversation' \in Matching
    <2>1. CASE r \in {"status", "closed", "error"}
      <3>1. call' = call /\ toOwner' = toOwner
        BY <1>4, <2>1 DEF Receive
      <3>2. QED
        BY <1>1, <1>6, <1>7, <3>1, CallsBecome DEF ownerVars, turnVars
    <2>2. CASE r \in Replies
      <3>1. Free(n, o) /\ Replied(r, call[o])
        BY <1>1, <1>4, <1>5, <2>2, ReplyTaken
      <3>2. n.se = "running" /\ call[o] \in Asking
        BY <1>1, <1>6, <2>2, <3>1 DEF Replied, Replies, Asking, AtRest, SettlesLast
      <3>3. ASSUME NEW c \in {"running", "closing", "dirty", "ended"},
                   call' = [call EXCEPT ![o] = c], toOwner' = toOwner
            PROVE  Conversation' \in Matching
        <4>1. [n EXCEPT !.cl = [n.cl EXCEPT ![o] = c]] \in Matching
          BY <3>1, <3>2, CallMoves DEF Calls, AtRest
        <4>2. [n EXCEPT !.cl = call', !.rq = toOwner'] = [n EXCEPT !.cl = [n.cl EXCEPT ![o] = c]]
          BY <1>1, <1>6, <3>3 DEF Conversations
        <4>3. QED
          BY <1>8, <4>1, <4>2
      <3>4. ASSUME StopCall(o) PROVE Conversation' \in Matching
        BY <1>1, <1>6, <1>8, <3>1, <3>2, <3>4, StopCallMatches
      <3>5. \/ StopCall(o)
            \/ \E c \in {"running", "closing", "dirty", "ended"} :
                 call' = [call EXCEPT ![o] = c] /\ toOwner' = toOwner
        BY <1>4, <2>2 DEF Receive, Replies
      <3>6. QED
        BY <3>3, <3>4, <3>5
    <2>3. QED
      BY <2>1, <2>2
  <1>10. seen' \in [Ops -> SUBSET {"status", "closed", "error"}]
    <2>1. seen \in [Ops -> SUBSET {"status", "closed", "error"}]
      BY DEF OwnerInduct, Shapes, Others
    <2>2. \/ seen' = seen
          \/ \E e \in {"status", "closed", "error"} : seen' = [seen EXCEPT ![o] = @ \cup {e}]
      BY <1>4 DEF Receive
    <2>3. QED
      BY <2>1, <2>2
  <1>11. turn \in Turns \/ call' = call
    <2>1. CASE r \in {"status", "closed", "error"}
      BY <1>4, <2>1 DEF Receive
    <2>2. CASE r \in Replies
      <3>1. Replied(r, call[o])
        BY <1>1, <1>4, <2>2, ReplyTaken
      <3>2. call[o] \notin AtRest
        BY <2>2, <3>1 DEF Replied, Replies, Asking, AtRest
      <3>3. QED
        BY <1>1, <3>2, CallHasTurn
    <2>3. QED
      BY <2>1, <2>2
  <1>12. QED
    BY <1>1, <1>7, <1>9, <1>10, <1>11, WorkerStepKeeps DEF OwnerInduct, Shapes, Others, turnVars

\* The turn ends when its calls have.
LEMMA WorkerSettlesKeeps ==
  ASSUME OwnerInduct, WorkerSettles
  PROVE  OwnerInduct'
  <1> DEFINE m == Conversation
  <1>1. m \in Matching /\ m \in Conversations /\ closing = "no" /\ m.rp = toWorker
        /\ m.cl = call /\ m.se = settled /\ m.rq = toOwner
    BY ConversationParts DEF OwnerInduct, WorkerSettles, WorkerAlive, Matching
  <1>2. m.se = "running" /\ \A o \in Ops : m.cl[o] \in AtRest
    BY <1>1 DEF WorkerSettles, AtRest
  <1>3. PICK n \in Matching :
          n = [m EXCEPT !.rq = Append(m.rq, <<"turn", "settled">>), !.se = "posted"]
    BY <1>1, <1>2, SettlementPosted
  <1>4. n.rq = toOwner' /\ n.rp = toWorker' /\ n.cl = call' /\ n.se = settled' /\ n.st = m.st
        /\ n.aw = m.aw
    <2> HIDE DEF m
    <2>1. QED
      BY <1>1, <1>3 DEF Conversations, WorkerSettles, Send, workerVars
  <1>5. Conversation' \in Matching
    BY <1>4, CallsBecome DEF WorkerSettles, ownerVars
  <1>6. QED
    BY <1>1, <1>5, WorkerStepKeeps DEF WorkerSettles, OwnerInduct, Shapes, Others, workerVars

\* The settlement reaches the coordinator.
LEMMA HandleSettledKeeps ==
  ASSUME OwnerInduct, HandleSettled
  PROVE  OwnerInduct'
  <1> DEFINE m == Conversation
  <1>1. m \in Matching /\ m \in Conversations /\ toOwner # << >> /\ m.rp = toWorker
        /\ m.cl = call /\ m.se = settled /\ m.rq = toOwner
    BY ConversationParts DEF OwnerInduct, HandleSettled, Requested, Matching
  <1>2. closing = "no"
    BY <1>1, PortsAreOpen
  <1>3. PICK n \in Matching : n = [m EXCEPT !.rq = Tail(m.rq), !.se = "received"]
    <2>1. Head(m.rq) = <<"turn", "settled">>
      BY <1>1 DEF HandleSettled, Requested
    <2>2. Head(m.rq)[2] = "settled"
      BY <2>1
    <2>3. QED
      BY <1>1, <2>2, SettlementTaken
  <1>4. n.rq = toOwner' /\ n.rp = toWorker' /\ n.cl = call' /\ n.se = settled' /\ n.st = m.st
        /\ n.aw = m.aw
    <2> HIDE DEF m
    <2>1. QED
      BY <1>1, <1>3 DEF Conversations, HandleSettled, Requested, workerVars
  <1>5. Conversation' \in Matching
    BY <1>4, CallsBecome DEF HandleSettled, ownerVars
  <1>6. QED
    BY <1>2, <1>5, WorkerStepKeeps DEF HandleSettled, OwnerInduct, Shapes, Others, workerVars

\* A request for the owner, taken from its port.
LEMMA HostRequest ==
  ASSUME OwnerInduct, NEW o \in Ops, NEW k \in {"start", "stop", "release"}, Requested(<<o, k>>)
  PROVE  /\ closing = "no" /\ Waits(k, call[o])
         /\ k = "start" => proc[o].life = "none"
         /\ owned[o].awaiting = {}
         /\ \E n \in Matching :
              /\ n.rq = toOwner' /\ n.rp = toWorker /\ n.cl = call /\ n.se = settled
              /\ n.st = Conversation.st /\ n.aw = Conversation.aw /\ Free(n, o)
  <1> DEFINE m == Conversation
  <1>1. m \in Matching /\ m \in Conversations /\ toOwner # << >> /\ m.rp = toWorker
        /\ m.cl = call /\ m.se = settled /\ m.rq = toOwner
    BY ConversationParts DEF OwnerInduct, Requested, Matching
  <1>2. closing = "no"
    BY <1>1, PortsAreOpen
  <1>3. PICK n \in Matching : n = [m EXCEPT !.rq = Tail(m.rq)] /\ Free(n, o)
    BY <1>1, RequestTaken DEF Requested
  <1>4. Waits(k, call[o]) /\ (k = "start" => o \notin m.st)
    BY <1>1, RequestTaken DEF Requested
  <1>5. k = "start" => proc[o].life = "none"
    BY <1>4, ConversationParts
  <1>6. n.rq = toOwner' /\ n.rp = toWorker /\ n.cl = call /\ n.se = settled /\ n.st = m.st
        /\ n.aw = m.aw
    <2> HIDE DEF m
    <2>1. QED
      BY <1>1, <1>3 DEF Conversations, Requested
  <1>7. owned[o].awaiting = {}
    BY <1>3, <1>6, ConversationParts DEF Free
  <1>8. QED
    BY <1>2, <1>3, <1>4, <1>5, <1>6, <1>7

\* What one operation awaits changes.
LEMMA AwaitingBecomes ==
  ASSUME NEW w, NEW v, NEW o \in Ops, NEW S, v[o].awaiting = S,
         \A x \in Ops \ {o} : v[x].awaiting = w[x].awaiting
  PROVE  [x \in Ops |-> v[x].awaiting] = [[x \in Ops |-> w[x].awaiting] EXCEPT ![o] = S]
  OBVIOUS

\* An operation enters the table.
LEMMA OperationEnters ==
  ASSUME NEW w \in [Ops -> OwnedRecs], NEW o \in Ops, NEW t \in 0 .. MaxTurns,
         NEW S \in SUBSET {"start", "stop"}
  PROVE  [w EXCEPT ![o].in = TRUE, ![o].turn = t, ![o].awaiting = S] \in [Ops -> OwnedRecs]
  <1>1. [w[o] EXCEPT !.in = TRUE, !.turn = t, !.awaiting = S] \in OwnedRecs
    BY DEF OwnedRecs
  <1>2. [w EXCEPT ![o].in = TRUE, ![o].turn = t, ![o].awaiting = S]
          = [w EXCEPT ![o] = [w[o] EXCEPT !.in = TRUE, !.turn = t, !.awaiting = S]]
    BY DEF OwnedRecs
  <1>3. QED
    BY <1>1, <1>2

\* An operation is released, and leaves the table when it has ended.
LEMMA OperationReleased ==
  ASSUME NEW w \in [Ops -> OwnedRecs], NEW o \in Ops
  PROVE  [w EXCEPT ![o].released = TRUE, ![o].in = ~(w[o].closed /\ w[o].drained)]
           \in [Ops -> OwnedRecs]
  <1> DEFINE b == ~(w[o].closed /\ w[o].drained)
  <1>1. b \in BOOLEAN
    OBVIOUS
  <1> HIDE DEF b
  <1>2. [w[o] EXCEPT !.released = TRUE, !.in = b] \in OwnedRecs
    BY <1>1 DEF OwnedRecs
  <1>3. [w EXCEPT ![o].released = TRUE, ![o].in = b]
          = [w EXCEPT ![o] = [w[o] EXCEPT !.released = TRUE, !.in = b]]
    BY DEF OwnedRecs
  <1>4. QED
    BY <1>2, <1>3 DEF b

\* A start.
LEMMA HandleStartKeeps ==
  ASSUME OwnerInduct, NEW o \in Ops, HandleStart(o)
  PROVE  OwnerInduct'
  <1>1. Requested(<<o, "start">>)
    BY DEF HandleStart
  <1>2. closing = "no" /\ call[o] = "starting" /\ proc[o].life = "none" /\ owned[o].awaiting = {}
    BY <1>1, HostRequest DEF Waits
  <1>3. PICK n \in Matching :
          /\ n.rq = toOwner' /\ n.rp = toWorker /\ n.cl = call /\ n.se = settled
          /\ n.st = Conversation.st /\ n.aw = Conversation.aw /\ Free(n, o)
    BY <1>1, HostRequest
  <1>4. Shapes /\ TableFollowsProcesses /\ OneCancellation /\ CancellationReaches /\ CloseReaches
    BY DEF OwnerInduct
  <1>5. PICK q \in Fit : /\ proc' = [proc EXCEPT ![o] = q] /\ q.life # "none"
                         /\ Cancelled(turn) => q.stop # "none"
    <2>1. proc[o] \in Fit /\ proc[o] \in Procs
      BY <1>4 DEF Shapes, Fit
    <2>2. [proc[o] EXCEPT !.life = "spawn"] \in Fit
          /\ [WithStop(proc[o]) EXCEPT !.life = "spawn"] \in Fit
      BY <1>2, <2>1, LaunchFits
    <2>3. [WithStop(proc[o]) EXCEPT !.life = "spawn"].stop # "none"
          /\ [WithStop(proc[o]) EXCEPT !.life = "spawn"].life = "spawn"
      BY <2>1 DEF WithStop, Procs
    <2>4. [proc[o] EXCEPT !.life = "spawn"].life = "spawn"
      BY <2>1 DEF Procs
    <2>5. QED
      BY <2>2, <2>3, <2>4 DEF HandleStart, StartedProcess
  <1>6. /\ owned' = [owned EXCEPT ![o].in = TRUE, ![o].turn = turn,
                                  ![o].awaiting = IF Cancelled(turn) THEN {"start"} ELSE {}]
        /\ UNCHANGED <<escaped, cancellations, closing, closeOps, call, seen, cancelSeen, turn,
                       settled>>
    BY DEF HandleStart, workerVars, turnVars
  <1>7. turn \in Turns
    BY <1>2, CallHasTurn DEF AtRest
  <1>8. Shapes'
    <2>1. turn \in 0 .. MaxTurns
      BY <1>7, BoundAssumption DEF Turns
    <2>2. owned \in [Ops -> OwnedRecs] /\ proc \in [Ops -> Fit] /\ Others
      BY <1>4 DEF Shapes
    <2>3. owned' \in [Ops -> OwnedRecs]
      BY <1>6, <2>1, <2>2, OperationEnters
    <2>4. proc' \in [Ops -> Fit]
      BY <1>5, <2>2
    <2>5. Others'
      BY <1>6, <2>2 DEF Others
    <2>6. QED
      BY <2>3, <2>4, <2>5 DEF Shapes
  <1>9. /\ \A x \in Ops \ {o} : proc'[x] = proc[x] /\ owned'[x] = owned[x]
        /\ proc'[o] = q /\ owned'[o].in /\ owned'[o].turn = turn
        /\ Cancelled(turn) => owned'[o].awaiting = {"start"}
        /\ owned'[o].awaiting = IF Cancelled(turn) THEN {"start"} ELSE {}
    BY <1>4, <1>5, <1>6 DEF Shapes, OwnedRecs
  <1>10. TableFollowsProcesses'
    <2>1. ASSUME NEW x \in Ops
          PROVE  /\ owned'[x].in => proc'[x].life # "none"
                 /\ proc'[x].life = "none" => owned'[x].turn = 0
                 /\ owned'[x].turn <= turn'
                 /\ proc'[x].life # "none" /\ ~owned'[x].released
                      => owned'[x].in \/ closing' \in {"closed", "failed"}
      <3>1. CASE x = o
        <4>1. turn <= turn
          BY <1>7, BoundAssumption DEF Turns
        <4>2. proc'[x].life # "none" /\ owned'[x].in /\ owned'[x].turn = turn /\ turn' = turn
          BY <1>5, <1>6, <1>9, <3>1
        <4>3. QED
          BY <4>1, <4>2
      <3>2. CASE x # o
        BY <1>4, <1>6, <1>9, <3>2 DEF TableFollowsProcesses
      <3>3. QED
        BY <3>1, <3>2
    <2>2. QED
      BY <2>1 DEF TableFollowsProcesses
  <1>11. OneCancellation'
    BY <1>4, <1>6 DEF OneCancellation
  <1>12. CancellationReaches'
    <2>1. ASSUME NEW x \in Ops, owned'[x].turn = turn', Cancelled(turn)', ~owned'[x].released
          PROVE  /\ proc'[x].stop # "none"
                 /\ \/ x \in cancellations'[turn'] \/ Stopped(x)' \/ StopFailed(x)'
                    \/ "start" \in owned'[x].awaiting
      <3>1. CASE x = o
        BY <1>5, <1>6, <1>9, <2>1, <3>1 DEF Cancelled
      <3>2. CASE x # o
        BY <1>4, <1>6, <1>9, <2>1, <3>2 DEF CancellationReaches, Cancelled, Stopped, StopFailed
      <3>3. QED
        BY <3>1, <3>2
    <2>2. QED
      BY <2>1 DEF CancellationReaches
  <1>13. CloseReaches'
    BY <1>2, <1>6 DEF CloseReaches
  <1>14. CallsHaveTurn'
    BY <1>6, <1>7 DEF CallsHaveTurn
  <1>15. PICK k \in Matching : k = [n EXCEPT !.st = n.st \cup {o}]
    BY <1>2, <1>3, OperationBegins
  <1>16. /\ k.rq = n.rq /\ k.rp = n.rp /\ k.cl = n.cl /\ k.se = n.se /\ k.aw = n.aw
         /\ k.st = n.st \cup {o} /\ Free(k, o) /\ k \in Conversations
    BY <1>3, <1>15 DEF Conversations, Matching, Free
  <1>17. {x \in Ops : proc'[x].life # "none"} = k.st
    BY <1>3, <1>5, <1>9, <1>16, ConversationParts
  <1>18. Conversation' \in Matching
    <2>1. CASE Cancelled(turn)
      <3>1. PICK j \in Matching : j = [k EXCEPT !.aw = [k.aw EXCEPT ![o] = {"start"}]]
        BY <1>2, <1>3, <1>16, AnswerAwaited DEF Waits
      <3>2. /\ j.rq = k.rq /\ j.rp = k.rp /\ j.cl = k.cl /\ j.se = k.se /\ j.st = k.st
            /\ j.aw = [k.aw EXCEPT ![o] = {"start"}]
        BY <1>16, <3>1 DEF Conversations
      <3>3. [x \in Ops |-> owned'[x].awaiting] = j.aw
        <4>1. k.aw = [x \in Ops |-> owned[x].awaiting]
          BY <1>3, <1>16, ConversationParts
        <4>2. owned'[o].awaiting = {"start"} /\ \A x \in Ops \ {o} : owned'[x] = owned[x]
          BY <1>9, <2>1
        <4>3. \A x \in Ops \ {o} : owned'[x].awaiting = owned[x].awaiting
          BY <4>2
        <4>4. [x \in Ops |-> owned'[x].awaiting]
                = [[x \in Ops |-> owned[x].awaiting] EXCEPT ![o] = {"start"}]
          BY <4>2, <4>3, AwaitingBecomes
        <4>5. QED
          BY <3>2, <4>1, <4>4
      <3>4. toWorker' = toWorker
        BY <2>1 DEF HandleStart
      <3>5. QED
        BY <1>3, <1>6, <1>16, <1>17, <3>2, <3>3, <3>4, ConversationBecomes
    <2>2. CASE ~Cancelled(turn)
      <3>1. PICK j \in Matching : j = [k EXCEPT !.rp = Append(k.rp, <<o, "started">>)]
        BY <1>2, <1>3, <1>16, ReplyPosted DEF Replied, Replies
      <3>2. /\ j.rq = k.rq /\ j.rp = Append(k.rp, <<o, "started">>) /\ j.cl = k.cl /\ j.se = k.se
            /\ j.st = k.st /\ j.aw = k.aw
        BY <1>16, <3>1 DEF Conversations
      <3>3. [x \in Ops |-> owned'[x].awaiting] = [x \in Ops |-> owned[x].awaiting]
        BY <1>2, <1>9, <2>2
      <3>4. toWorker' = Append(toWorker, <<o, "started">>)
        BY <1>2, <2>2 DEF HandleStart, Post, WorkerAlive
      <3>5. QED
        BY <1>3, <1>6, <1>16, <1>17, <3>2, <3>3, <3>4, ConversationParts, ConversationBecomes
    <2>3. QED
      BY <2>1, <2>2
  <1>19. QED
    BY <1>8, <1>10, <1>11, <1>12, <1>13, <1>14, <1>18 DEF OwnerInduct

\* A request to stop.
LEMMA HandleStopKeeps ==
  ASSUME OwnerInduct, NEW o \in Ops, HandleStop(o)
  PROVE  OwnerInduct'
  <1>1. Requested(<<o, "stop">>)
    BY DEF HandleStop
  <1>2. closing = "no" /\ call[o] = "stopping" /\ owned[o].awaiting = {}
    BY <1>1, HostRequest DEF Waits
  <1>3. PICK n \in Matching :
          /\ n.rq = toOwner' /\ n.rp = toWorker /\ n.cl = call /\ n.se = settled
          /\ n.st = Conversation.st /\ n.aw = Conversation.aw /\ Free(n, o)
    BY <1>1, HostRequest
  <1>4. Shapes /\ TableFollowsProcesses /\ OneCancellation /\ CancellationReaches /\ CloseReaches
    BY DEF OwnerInduct
  <1>5. UNCHANGED <<escaped, cancellations, closing, closeOps, call, seen, cancelSeen, turn,
                    settled>>
    BY DEF HandleStop, workerVars, turnVars
  <1>6. n \in Conversations
    BY DEF Matching
  <1>7. CallsHaveTurn'
    BY <1>5 DEF CallsHaveTurn, OwnerInduct
  <1>8. CASE ~owned[o].in /\ toWorker' = Append(toWorker, <<o, "refused">>)
             /\ UNCHANGED <<proc, owned>>
    <2>1. PICK j \in Matching : j = [n EXCEPT !.rp = Append(n.rp, <<o, "refused">>)]
      BY <1>2, <1>3, ReplyPosted DEF Replied, Replies, Asking
    <2>2. /\ j.rq = n.rq /\ j.rp = Append(n.rp, <<o, "refused">>) /\ j.cl = n.cl /\ j.se = n.se
          /\ j.st = n.st /\ j.aw = n.aw
      BY <1>6, <2>1 DEF Conversations
    <2>3. Conversation' \in Matching
      BY <1>3, <1>5, <1>8, <2>2, CallsBecome
    <2>4. QED
      BY <1>2, <1>5, <1>8, <2>3, WorkerStepKeeps DEF ownerVars, OwnerInduct, Shapes, Others
  <1>9. CASE /\ owned[o].in /\ proc' = [proc EXCEPT ![o] = WithStop(proc[o])]
             /\ owned' = [owned EXCEPT ![o].awaiting = @ \cup {"stop"}] /\ toWorker' = toWorker
    <2>1. proc[o] \in Fit /\ proc[o].life # "none"
      BY <1>4, <1>9 DEF Shapes, TableFollowsProcesses
    <2>2. WithStop(proc[o]) \in Fit /\ Later(proc[o], WithStop(proc[o]))
      BY <2>1, WithStopFits
    <2>3. proc' \in [Ops -> Fit] /\ \A x \in Ops : Later(proc[x], proc'[x])
      <3>1. proc \in [Ops -> Fit]
        BY <1>4 DEF Shapes
      <3>2. proc' \in [Ops -> Fit]
        BY <1>9, <2>2, <3>1
      <3>3. ASSUME NEW x \in Ops PROVE Later(proc[x], proc'[x])
        <4>1. CASE x = o
          BY <1>9, <2>2, <3>1, <4>1
        <4>2. CASE x # o
          BY <1>9, <3>1, <4>2, StaysLater
        <4>3. QED
          BY <4>1, <4>2
      <3>4. QED
        BY <3>2, <3>3
    <2>4. /\ owned' \in [Ops -> OwnedRecs] /\ owned'[o].awaiting = {"stop"}
          /\ \A x \in Ops :
               /\ owned'[x].in = owned[x].in /\ owned'[x].turn = owned[x].turn
               /\ owned'[x].released = owned[x].released
          /\ \A x \in Ops \ {o} : owned'[x].awaiting = owned[x].awaiting
      BY <1>2, <1>4, <1>9 DEF Shapes, OwnedRecs
    <2>5. HostMoves
      BY <1>2, <2>3, <2>4, <1>5 DEF HostMoves
    <2>6. PICK j \in Matching : j = [n EXCEPT !.aw = [n.aw EXCEPT ![o] = {"stop"}]]
      BY <1>2, <1>3, AnswerAwaited DEF Waits
    <2>7. /\ j.rq = n.rq /\ j.rp = n.rp /\ j.cl = n.cl /\ j.se = n.se /\ j.st = n.st
          /\ j.aw = [n.aw EXCEPT ![o] = {"stop"}]
      BY <1>6, <2>6 DEF Conversations
    <2>8. [x \in Ops |-> owned'[x].awaiting] = j.aw
      <3>1. n.aw = [x \in Ops |-> owned[x].awaiting]
        BY <1>3, ConversationParts
      <3>2. [x \in Ops |-> owned'[x].awaiting]
              = [[x \in Ops |-> owned[x].awaiting] EXCEPT ![o] = {"stop"}]
        BY <2>4, AwaitingBecomes
      <3>3. QED
        BY <2>7, <3>1, <3>2
    <2>9. {x \in Ops : proc'[x].life # "none"} = j.st
      BY <1>3, <2>3, <2>7, ConversationParts DEF Later
    <2>10. Conversation' \in Matching
      BY <1>3, <1>5, <1>9, <2>7, <2>8, <2>9, ConversationBecomes
    <2>11. QED
      BY <1>7, <2>5, <2>10, HostMovesKeep
  <1>10. QED
    BY <1>2, <1>8, <1>9 DEF HandleStop, Post, WorkerAlive

\* A request to release.
LEMMA HandleReleaseKeeps ==
  ASSUME OwnerInduct, NEW o \in Ops, HandleRelease(o)
  PROVE  OwnerInduct'
  <1>1. Requested(<<o, "release">>)
    BY DEF HandleRelease
  <1>2. closing = "no" /\ call[o] = "releasing" /\ owned[o].awaiting = {}
    BY <1>1, HostRequest DEF Waits
  <1>3. PICK n \in Matching :
          /\ n.rq = toOwner' /\ n.rp = toWorker /\ n.cl = call /\ n.se = settled
          /\ n.st = Conversation.st /\ n.aw = Conversation.aw /\ Free(n, o)
    BY <1>1, HostRequest
  <1>4. Shapes /\ TableFollowsProcesses /\ OneCancellation /\ CancellationReaches /\ CloseReaches
    BY DEF OwnerInduct
  <1>5. UNCHANGED <<escaped, proc, cancellations, closing, closeOps, call, seen, cancelSeen, turn,
                    settled>>
    BY DEF HandleRelease, workerVars, turnVars
  <1>6. n \in Conversations
    BY DEF Matching
  <1>7. CallsHaveTurn'
    BY <1>5 DEF CallsHaveTurn, OwnerInduct
  <1>8. PICK r \in {"released", "refused"} : toWorker' = Append(toWorker, <<o, r>>)
    BY <1>2 DEF HandleRelease, Post, WorkerAlive
  <1>9. PICK j \in Matching : j = [n EXCEPT !.rp = Append(n.rp, <<o, r>>)]
    BY <1>2, <1>3, ReplyPosted DEF Replied, Replies, Asking
  <1>10. /\ j.rq = n.rq /\ j.rp = Append(n.rp, <<o, r>>) /\ j.cl = n.cl /\ j.se = n.se
         /\ j.st = n.st /\ j.aw = n.aw
    BY <1>6, <1>9 DEF Conversations
  <1>11. /\ owned' \in [Ops -> OwnedRecs]
         /\ \A x \in Ops :
              /\ owned'[x].in => owned[x].in
              /\ owned[x].in => owned'[x].in \/ owned'[x].released
              /\ owned'[x].turn = owned[x].turn
              /\ owned[x].released => owned'[x].released
              /\ owned'[x].awaiting = owned[x].awaiting
    <2>1. owned \in [Ops -> OwnedRecs]
      BY <1>4 DEF Shapes
    <2>2. \/ owned' = owned
          \/ /\ owned[o].in
             /\ owned' = [owned EXCEPT ![o].released = TRUE,
                                       ![o].in = ~(owned[o].closed /\ owned[o].drained)]
      BY DEF HandleRelease
    <2>3. CASE owned' = owned
      BY <2>1, <2>3
    <2>4. CASE /\ owned[o].in
               /\ owned' = [owned EXCEPT ![o].released = TRUE,
                                         ![o].in = ~(owned[o].closed /\ owned[o].drained)]
      <3>1. owned' \in [Ops -> OwnedRecs]
        BY <2>1, <2>4, OperationReleased
      <3>2. owned'[o].released /\ owned'[o].turn = owned[o].turn
            /\ owned'[o].awaiting = owned[o].awaiting
        BY <2>1, <2>4 DEF OwnedRecs
      <3>3. \A x \in Ops \ {o} : owned'[x] = owned[x]
        BY <2>1, <2>4
      <3>4. QED
        BY <2>4, <3>1, <3>2, <3>3
    <2>5. QED
      BY <2>2, <2>3, <2>4
  <1>12. HostMoves
    BY <1>2, <1>4, <1>5, <1>11, StaysLater DEF HostMoves, Shapes
  <1>13. [x \in Ops |-> owned'[x].awaiting] = [x \in Ops |-> owned[x].awaiting]
    BY <1>11
  <1>14. Conversation' \in Matching
    BY <1>3, <1>5, <1>8, <1>10, <1>13, ConversationParts, ConversationBecomes
  <1>15. QED
    BY <1>7, <1>12, <1>14, HostMovesKeep

\* The stop that a request waits for has ended.
LEMMA AnswerStopKeeps ==
  ASSUME OwnerInduct, NEW o \in Ops, AnswerStop(o)
  PROVE  OwnerInduct'
  <1> DEFINE m == Conversation
  <1>1. m \in Matching /\ m \in Conversations /\ m.rp = toWorker /\ m.cl = call
        /\ m.se = settled /\ m.rq = toOwner
    BY ConversationParts DEF OwnerInduct, Matching
  <1>2. m.aw = [x \in Ops |-> owned[x].awaiting]
    BY ConversationParts
  <1>3. Shapes /\ CloseReaches
    BY DEF OwnerInduct
  <1>4. PICK k \in owned[o].awaiting :
          /\ owned' = [owned EXCEPT ![o].awaiting = @ \ {k}]
          /\ \/ Stopped(o) /\ Post(<<o, IF k = "start" THEN "started" ELSE "stopped">>)
             \/ StopFailed(o) /\ Post(<<o, "refused">>)
    BY DEF AnswerStop
  <1>5. UNCHANGED <<escaped, proc, cancellations, closing, closeOps, call, seen, cancelSeen, turn,
                    settled, toOwner>>
    BY DEF AnswerStop, workerVars, turnVars
  <1> HIDE DEF m
  <1>6. k \in m.aw[o] /\ m.aw[o] = owned[o].awaiting
    BY <1>2, <1>4
  <1>7. PICK n \in Matching : /\ n = [m EXCEPT !.aw = [m.aw EXCEPT ![o] = m.aw[o] \ {k}]]
                              /\ Free(n, o)
    BY <1>1, <1>6, AnswerDue
  <1>8. Waits(k, call[o]) /\ k \in {"start", "stop"}
    BY <1>1, <1>6, AnswerDue
  <1>9. /\ n.rq = toOwner /\ n.rp = toWorker /\ n.cl = call /\ n.se = settled /\ n.st = m.st
        /\ n.aw = [m.aw EXCEPT ![o] = m.aw[o] \ {k}] /\ n \in Conversations
    BY <1>1, <1>7 DEF Conversations, Matching
  <1>10. /\ owned' \in [Ops -> OwnedRecs]
         /\ owned'[o].awaiting = owned[o].awaiting \ {k}
         /\ \A x \in Ops : /\ owned'[x].in = owned[x].in /\ owned'[x].turn = owned[x].turn
                           /\ owned'[x].released = owned[x].released
         /\ \A x \in Ops \ {o} : owned'[x].awaiting = owned[x].awaiting
    <2>1. owned \in [Ops -> OwnedRecs]
      BY <1>3 DEF Shapes
    <2>2. owned' = [owned EXCEPT ![o].awaiting = owned[o].awaiting \ {k}]
      BY <1>4
    <2>3. QED
      BY <2>1, <2>2 DEF OwnedRecs
  <1>11. [x \in Ops |-> owned'[x].awaiting] = n.aw
    <2>1. [x \in Ops |-> owned'[x].awaiting]
            = [[x \in Ops |-> owned[x].awaiting] EXCEPT ![o] = owned[o].awaiting \ {k}]
      BY <1>10, AwaitingBecomes
    <2>2. QED
      BY <1>2, <1>6, <1>9, <2>1
  <1>12. {x \in Ops : proc'[x].life # "none"} = n.st
    BY <1>5, <1>9, ConversationParts DEF m
  <1>13. Stopped(o)' \/ StopFailed(o)'
    BY <1>4, <1>5 DEF Stopped, StopFailed
  <1>14. Conversation' \in Matching
    <2>1. CASE closing = "no"
      <3>1. PICK r \in {"started", "stopped", "refused"} :
              toWorker' = Append(toWorker, <<o, r>>) /\ Replied(r, call[o])
        BY <1>4, <1>8, <2>1 DEF Post, WorkerAlive, Replied, Waits, Asking
      <3>2. PICK j \in Matching : j = [n EXCEPT !.rp = Append(n.rp, <<o, r>>)]
        BY <1>7, <1>9, <3>1, ReplyPosted DEF Replies
      <3>3. /\ j.rq = n.rq /\ j.rp = Append(n.rp, <<o, r>>) /\ j.cl = n.cl /\ j.se = n.se
            /\ j.st = n.st /\ j.aw = n.aw
        BY <1>9, <3>2 DEF Conversations
      <3>4. QED
        BY <1>5, <1>9, <1>11, <1>12, <3>1, <3>3, ConversationBecomes
    <2>2. CASE closing # "no"
      <3>1. toWorker' = toWorker
        BY <1>4, <2>2 DEF Post, WorkerAlive
      <3>2. QED
        BY <1>5, <1>9, <1>11, <1>12, <3>1, ConversationBecomes
    <2>3. QED
      BY <2>1, <2>2
  <1>15. HostMoves
    <2>1. closing = "no" \/ UNCHANGED <<toOwner, toWorker>>
      BY <1>4, <1>5 DEF Post, WorkerAlive
    <2>2. proc' \in [Ops -> Fit] /\ \A x \in Ops : Later(proc[x], proc'[x])
      BY <1>3, <1>5, StaysLater DEF Shapes
    <2>3. ASSUME NEW x \in Ops, "start" \in owned[x].awaiting
          PROVE  "start" \in owned'[x].awaiting \/ Stopped(x)' \/ StopFailed(x)'
      BY <1>10, <1>13, <2>3
    <2>4. QED
      BY <1>5, <1>10, <2>1, <2>2, <2>3 DEF HostMoves
  <1>16. CallsHaveTurn'
    BY <1>5 DEF CallsHaveTurn, OwnerInduct
  <1>17. QED
    BY <1>14, <1>15, <1>16, HostMovesKeep

\* A stop of several operations at once leaves each of them later.
LEMMA StopLater ==
  ASSUME proc \in [Ops -> Fit], NEW S \in SUBSET Ops, \A o \in S : proc[o].life # "none", Stop(S)
  PROVE  /\ proc' \in [Ops -> Fit]
         /\ \A o \in Ops : Later(proc[o], proc'[o])
         /\ \A o \in S : proc'[o].stop # "none"
  <1>1. ASSUME NEW o \in Ops
        PROVE  proc'[o] \in Fit /\ Later(proc[o], proc'[o]) /\ (o \in S => proc'[o].stop # "none")
    <2>1. CASE o \in S
      <3>1. proc[o] \in Fit /\ proc[o] \in Procs /\ proc'[o] = WithStop(proc[o])
        BY <2>1 DEF Stop, Fit
      <3>2. WithStop(proc[o]).stop # "none"
        BY <3>1 DEF WithStop, Procs
      <3>3. QED
        BY <2>1, <3>1, <3>2, WithStopFits
    <2>2. CASE o \notin S
      BY <2>2, StaysLater DEF Stop
    <2>3. QED
      BY <2>1, <2>2
  <1>2. proc' = [o \in Ops |-> proc'[o]]
    BY DEF Stop
  <1>3. QED
    BY <1>1, <1>2

\* The user's cancel.
LEMMA CancelExecutionKeeps ==
  ASSUME OwnerInduct, CancelExecution
  PROVE  OwnerInduct'
  <1>1. Shapes /\ TableFollowsProcesses /\ OneCancellation /\ CloseReaches /\ CallsHaveTurn
        /\ Conversation \in Matching
    BY DEF OwnerInduct
  <1> DEFINE S == {o \in Ops : owned[o].in /\ owned[o].turn = turn /\ ~owned[o].released}
  <1>2. /\ turn \in Turns /\ closing = "no" /\ Stop(S)
        /\ cancellations' = [t \in DOMAIN cancellations \cup {turn} |->
                               IF t = turn THEN S ELSE cancellations[t]]
        /\ UNCHANGED <<escaped, owned, closing, closeOps, call, seen, cancelSeen, turn, settled,
                       toOwner, toWorker>>
    BY DEF CancelExecution, workerVars, turnVars, ports
  <1>3. S \in SUBSET Ops /\ \A o \in S : proc[o].life # "none"
    BY <1>1 DEF TableFollowsProcesses
  <1>4. ASSUME NEW o \in Ops, owned[o].turn = turn, ~owned[o].released PROVE o \in S
    <2>1. owned[o].turn # 0
      BY <1>2, <1>4, BoundAssumption DEF Turns
    <2>2. QED
      BY <1>1, <1>2, <1>4, <2>1 DEF TableFollowsProcesses
  <1> HIDE DEF S
  <1>5. /\ proc' \in [Ops -> Fit]
        /\ \A o \in Ops : Later(proc[o], proc'[o])
        /\ \A o \in S : proc'[o].stop # "none"
    BY <1>1, <1>2, <1>3, StopLater DEF Shapes
  <1>6. DOMAIN cancellations' = DOMAIN cancellations \cup {turn} /\ cancellations'[turn] = S
        /\ \A t \in DOMAIN cancellations' : cancellations'[t] \subseteq Ops
    BY <1>1, <1>2, <1>3 DEF Shapes, Others
  <1>7. Shapes'
    BY <1>1, <1>2, <1>5, <1>6 DEF Shapes, Others
  <1>8. TableFollowsProcesses'
    BY <1>1, <1>2, <1>5 DEF TableFollowsProcesses, Later
  <1>9. OneCancellation'
    BY <1>1, <1>2, <1>6 DEF OneCancellation
  <1>10. CancellationReaches'
    BY <1>2, <1>4, <1>5, <1>6 DEF CancellationReaches
  <1>11. CloseReaches'
    BY <1>2 DEF CloseReaches
  <1>12. CallsHaveTurn'
    BY <1>2 DEF CallsHaveTurn
  <1>13. Conversation' = Conversation
    <2>1. {o \in Ops : proc'[o].life # "none"} = {o \in Ops : proc[o].life # "none"}
      BY <1>5 DEF Later
    <2>2. QED
      BY <1>2, <2>1 DEF Conversation
  <1>14. QED
    BY <1>1, <1>7, <1>8, <1>9, <1>10, <1>11, <1>12, <1>13 DEF OwnerInduct

\* The coordinator ends the execution.
LEMMA FinishExecutionKeeps ==
  ASSUME OwnerInduct, FinishExecution
  PROVE  OwnerInduct'
  <1>1. Shapes /\ TableFollowsProcesses /\ OneCancellation /\ CloseReaches
        /\ Conversation \in Matching
    BY DEF OwnerInduct
  <1>2. /\ turn \in Turns /\ turn' = turn + 1 /\ settled' = "running" /\ cancelSeen' = FALSE
        /\ settled = "received" \/ closing # "no"
        /\ cancellations' = Restrict(cancellations, DOMAIN cancellations \ {turn})
        /\ UNCHANGED <<escaped, proc, owned, closing, closeOps, call, seen, toOwner, toWorker>>
    BY DEF FinishExecution, ports
  <1>3. turn \in Nat /\ MaxTurns \in Nat /\ turn' \in 1 .. (MaxTurns + 1)
    BY <1>2, BoundAssumption DEF Turns
  <1>4. DOMAIN cancellations' = {}
    BY <1>1, <1>2 DEF OneCancellation, Restrict
  <1>5. Shapes'
    BY <1>1, <1>2, <1>3, <1>4 DEF Shapes, Others
  <1>6. TableFollowsProcesses'
    <2>1. \A o \in Ops : owned[o].turn \in 0 .. MaxTurns /\ owned[o].turn <= turn
      BY <1>1 DEF Shapes, OwnedRecs, TableFollowsProcesses
    <2>2. \A o \in Ops : owned'[o].turn <= turn'
      BY <1>2, <1>3, <2>1
    <2>3. QED
      BY <1>1, <1>2, <2>2 DEF TableFollowsProcesses
  <1>7. OneCancellation' /\ CancellationReaches'
    BY <1>4 DEF OneCancellation, CancellationReaches, Cancelled
  <1>8. CloseReaches'
    BY <1>1, <1>2 DEF CloseReaches, Ended, Stopped, StopFailed
  <1> DEFINE m == Conversation
  <1>9. m \in Matching /\ m \in Conversations /\ m.rp = toWorker /\ m.cl = call
        /\ m.se = settled /\ m.rq = toOwner /\ SettlesLast(m)
    BY <1>1, ConversationParts DEF Matching
  <1>10. CallsHaveTurn'
    BY <1>2, <1>9 DEF CallsHaveTurn, SettlesLast
  <1>11. m.se = "received" \/ m.rq = << >>
    BY <1>1, <1>2, <1>9 DEF CloseReaches
  <1>12. PICK n \in Matching : n = [m EXCEPT !.se = "running"]
    BY <1>9, <1>11, NextSettles
  <1>13. n.rq = toOwner' /\ n.rp = toWorker' /\ n.cl = call' /\ n.se = settled' /\ n.st = m.st
         /\ n.aw = m.aw
    <2> HIDE DEF m
    <2>1. QED
      BY <1>2, <1>9, <1>12 DEF Conversations
  <1>14. Conversation' \in Matching
    BY <1>2, <1>13, CallsBecome
  <1>15. QED
    BY <1>5, <1>6, <1>7, <1>8, <1>10, <1>14 DEF OwnerInduct

\* The generation is closed.
LEMMA CloseOwnerKeeps ==
  ASSUME OwnerInduct, CloseOwner
  PROVE  OwnerInduct'
  <1>1. Shapes /\ TableFollowsProcesses /\ OneCancellation /\ CancellationReaches
        /\ Conversation \in Matching
    BY DEF OwnerInduct
  <1>2. PICK S \in SUBSET Ops :
          /\ closeOps' = S /\ S = {o \in Ops : proc[o].life # "none" /\ ~Ended(o)} /\ Stop(S)
    BY DEF CloseOwner
  <1>3. /\ closing = "no" /\ closing' = "closing" /\ toOwner' = << >> /\ toWorker' = << >>
        /\ UNCHANGED <<escaped, owned, cancellations, call, seen, cancelSeen, turn, settled>>
    BY DEF CloseOwner, workerVars, turnVars
  <1>4. /\ proc' \in [Ops -> Fit]
        /\ \A o \in Ops : Later(proc[o], proc'[o])
    BY <1>1, <1>2, StopLater DEF Shapes
  <1>5. ASSUME NEW o \in Ops
        PROVE  /\ proc'[o].life = "none" <=> proc[o].life = "none"
               /\ proc[o].stop # "none" => proc'[o].stop # "none"
               /\ Stopped(o) => Stopped(o)'
               /\ StopFailed(o) => StopFailed(o)'
               /\ Ended(o) => Ended(o)'
    BY <1>4 DEF Later, Stopped, StopFailed, Ended
  <1>6. Shapes'
    BY <1>1, <1>2, <1>3, <1>4 DEF Shapes, Others
  <1>7. TableFollowsProcesses'
    BY <1>1, <1>3, <1>5 DEF TableFollowsProcesses
  <1>8. OneCancellation'
    BY <1>1, <1>3 DEF OneCancellation
  <1>9. CancellationReaches'
    <2>1. ASSUME NEW o \in Ops, owned'[o].turn = turn', Cancelled(turn)', ~owned'[o].released
          PROVE  /\ proc'[o].stop # "none"
                 /\ \/ o \in cancellations'[turn'] \/ Stopped(o)' \/ StopFailed(o)'
                    \/ "start" \in owned'[o].awaiting
      BY <1>1, <1>3, <1>5, <2>1 DEF CancellationReaches, Cancelled
    <2>2. QED
      BY <2>1 DEF CancellationReaches
  <1>10. CloseReaches'
    <2>1. \A o \in Ops \ closeOps' : proc'[o].life = "none" \/ Ended(o)'
      BY <1>2, <1>5
    <2>2. QED
      BY <1>3, <2>1 DEF CloseReaches
  <1>11. CallsHaveTurn'
    BY <1>3 DEF CallsHaveTurn
  <1> DEFINE m == Conversation
  <1>12. PICK n \in Matching : n = [m EXCEPT !.rq = << >>, !.rp = << >>]
    BY <1>1, PortsCut
  <1>13. n.rq = toOwner' /\ n.rp = toWorker' /\ n.cl = call' /\ n.se = settled' /\ n.st = m.st
         /\ n.aw = m.aw
    <2>1. m \in Conversations /\ m.cl = call /\ m.se = settled
      BY <1>1, ConversationParts DEF Matching
    <2> HIDE DEF m
    <2>2. QED
      BY <1>3, <1>12, <2>1 DEF Conversations
  <1>14. Conversation' \in Matching
    <2>1. {o \in Ops : proc'[o].life # "none"} = n.st
      BY <1>5, <1>13, ConversationParts
    <2>2. [o \in Ops |-> owned'[o].awaiting] = n.aw
      BY <1>3, <1>13, ConversationParts
    <2>3. QED
      BY <1>13, <2>1, <2>2, ConversationBecomes
  <1>15. QED
    BY <1>6, <1>7, <1>8, <1>9, <1>10, <1>11, <1>14 DEF OwnerInduct

\* Every stop of the close has ended.
LEMMA OwnerClosedKeeps ==
  ASSUME OwnerInduct, OwnerClosed
  PROVE  OwnerInduct'
  <1>1. Shapes /\ TableFollowsProcesses /\ OneCancellation /\ CancellationReaches /\ CloseReaches
        /\ Conversation \in Matching
    BY DEF OwnerInduct
  <1>2. /\ closing = "closing" /\ \A o \in closeOps : Stopped(o) \/ StopFailed(o)
        /\ closing' \in {"closed", "failed"}
        /\ closing' = "closed" => \A o \in closeOps : ~StopFailed(o)
        /\ owned' = [o \in Ops |-> [owned[o] EXCEPT !.in = FALSE]]
        /\ UNCHANGED <<escaped, proc, cancellations, closeOps, call, seen, cancelSeen, turn, settled,
                       toOwner, toWorker>>
    BY DEF OwnerClosed, workerVars, turnVars, ports
  <1>3. /\ owned' \in [Ops -> OwnedRecs]
        /\ \A o \in Ops : /\ ~owned'[o].in /\ owned'[o].turn = owned[o].turn
                          /\ owned'[o].released = owned[o].released
                          /\ owned'[o].awaiting = owned[o].awaiting
    BY <1>1, <1>2 DEF Shapes, OwnedRecs
  <1>4. Shapes'
    BY <1>1, <1>2, <1>3 DEF Shapes, Others
  <1>5. TableFollowsProcesses' /\ OneCancellation'
    BY <1>1, <1>2, <1>3 DEF TableFollowsProcesses, OneCancellation
  <1>6. CancellationReaches'
    BY <1>1, <1>2, <1>3 DEF CancellationReaches, Cancelled, Stopped, StopFailed
  <1>7. CloseReaches'
    <2>1. closeOps \subseteq Ops
      BY <1>1 DEF Shapes, Others
    <2>2. \A o \in closeOps : Stopped(o)' \/ StopFailed(o)'
      BY <1>2 DEF Stopped, StopFailed
    <2>3. closing' = "closed" => \A o \in closeOps : proc'[o].stop = "done"
      BY <1>2 DEF Stopped
    <2>4. \A o \in Ops \ closeOps : proc'[o].life = "none" \/ Ended(o)'
      BY <1>1, <1>2 DEF CloseReaches, Ended
    <2>5. toOwner' = << >> /\ toWorker' = << >>
      BY <1>1, <1>2 DEF CloseReaches
    <2>6. QED
      BY <1>2, <2>2, <2>3, <2>4, <2>5 DEF CloseReaches
  <1>8. CallsHaveTurn'
    BY <1>2 DEF CallsHaveTurn
  <1>9. Conversation' = Conversation
    <2>1. [o \in Ops |-> owned'[o].awaiting] = [o \in Ops |-> owned[o].awaiting]
      BY <1>3
    <2>2. QED
      BY <1>2, <2>1 DEF Conversation
  <1>10. QED
    BY <1>1, <1>4, <1>5, <1>6, <1>7, <1>8, <1>9 DEF OwnerInduct

-----------------------------------------------------------------------------
(* The theorems.                                                           *)

\* The invariant holds at the start.
LEMMA InductAtStart ==
  ASSUME Init
  PROVE  OwnerInduct
  <1>1. Shapes
    <2> DEFINE p == [runner |-> "none", command |-> "none", background |-> FALSE,
                     status |-> "pending", input |-> "open", anchorReleased |-> FALSE,
                     life |-> "none", stop |-> "none"]
    <2>1. p \in Fit
      BY DEF Fit, Procs, Processes, Lifetime, Stopping
    <2> HIDE DEF p
    <2>2. proc \in [Ops -> Fit]
      BY <2>1 DEF Init, p
    <2>3. owned \in [Ops -> OwnedRecs]
      BY BoundAssumption DEF Init, OwnedRecs
    <2>4. DOMAIN cancellations = {}
      BY DEF Init
    <2>5. 1 \in 1 .. (MaxTurns + 1)
      BY BoundAssumption
    <2>6. Others
      BY <2>4, <2>5 DEF Others, Init
    <2>7. QED
      BY <2>2, <2>3, <2>6 DEF Shapes
  <1>2. TableFollowsProcesses
    BY DEF Init, TableFollowsProcesses
  <1>3. OneCancellation /\ CancellationReaches
    BY DEF Init, OneCancellation, CancellationReaches, Cancelled
  <1>4. CloseReaches /\ CallsHaveTurn
    BY DEF Init, CloseReaches, CallsHaveTurn, AtRest
  <1>5. PICK m \in Matching :
          m = [rq |-> << >>, rp |-> << >>, aw |-> [o \in Ops |-> {}], cl |-> [o \in Ops |-> "none"],
               st |-> {}, se |-> "running"]
    <2> DEFINE m == [rq |-> << >>, rp |-> << >>, aw |-> [o \in Ops |-> {}],
                     cl |-> [o \in Ops |-> "none"], st |-> {}, se |-> "running"]
    <2>1. m \in Conversations
      <3>1. << >> \in Seq(Asked) /\ << >> \in Seq(Told)
        OBVIOUS
      <3>2. QED
        BY <3>1 DEF Conversations, Calls, AtRest
    <2>2. RequestsMatch(m) /\ RepliesMatch(m) /\ StartsOnce(m) /\ SettlesLast(m)
      BY DEF RequestsMatch, RepliesMatch, StartsOnce, SettlesLast
    <2>3. OneOutstanding(m)
      BY DEF OneOutstanding, Asks, Answered
    <2>4. QED
      BY <2>1, <2>2, <2>3 DEF Matching
  <1>6. Conversation = m
    BY <1>5 DEF Conversation, Init
  <1>7. QED
    BY <1>1, <1>2, <1>3, <1>4, <1>6 DEF OwnerInduct

\* Every step keeps it.
LEMMA InductKept ==
  ASSUME OwnerInduct, [Next]_vars
  PROVE  OwnerInduct'
  <1>1. proc \in [Ops -> Fit] /\ owned \in [Ops -> OwnedRecs]
    BY DEF OwnerInduct, Shapes
  <1>2. ASSUME NEW o \in Ops,
               \/ SystemSteps(o) \/ Forks(o) \/ CommandExits(o) \/ BackgroundExits(o)
               \/ RunnerKilled(o) \/ Drain(o) \/ LifeStatus(o) \/ LifePolls(o) \/ LifeEnds(o)
               \/ StopBegins(o) \/ StopGrace(o) \/ StopKills(o) \/ StopEnds(o)
        PROVE  OwnerInduct'
    BY <1>1, <1>2, GroupSteps, LifetimeSteps, LifetimeEnds, DrainSteps, StopSteps, ProcessStepKeeps
  <1>3. ASSUME NEW o \in Ops, HandleStart(o) \/ HandleStop(o) \/ HandleRelease(o) \/ AnswerStop(o)
        PROVE  OwnerInduct'
    BY <1>3, HandleStartKeeps, HandleStopKeeps, HandleReleaseKeeps, AnswerStopKeeps
  <1>4. ASSUME NEW o \in Ops, StartCall(o) \/ CallDecides(o) \/ CallStopped(o)
        PROVE  OwnerInduct'
    BY <1>4, StartCallKeeps, CallDecidesKeeps, CallStoppedKeeps
  <1>5. CASE CancelExecution \/ HandleSettled \/ FinishExecution \/ CloseOwner \/ OwnerClosed
    BY <1>5, CancelExecutionKeeps, HandleSettledKeeps, FinishExecutionKeeps, CloseOwnerKeeps,
       OwnerClosedKeeps
  <1>6. CASE CancelArrives \/ Receive \/ WorkerSettles
    BY <1>6, CancelArrivesKeeps, ReceiveKeeps, WorkerSettlesKeeps
  <1>7. CASE UNCHANGED vars
    <2>1. ProcessStep
      BY <1>1, <1>7, StaysLater
         DEF vars, physicalVars, ownerVars, workerVars, turnVars, ports, ProcessStep
    <2>2. QED
      BY <2>1, ProcessStepKeeps
  <1>8. ASSUME NEW o \in Ops, Escapes(o) \/ EscapedExits(o)
        PROVE  OwnerInduct'
    <2>1. escaped \in [Ops -> BOOLEAN]
      BY DEF OwnerInduct, Shapes, Others
    <2>2. escaped' \in [Ops -> BOOLEAN]
      BY <1>8, <2>1 DEF Escapes, EscapedExits
    <2>3. UNCHANGED <<proc, ownerVars, workerVars, turnVars, ports>>
      BY <1>8 DEF Escapes, EscapedExits
    <2>4. QED
      BY <2>2, <2>3, EscapesKeep
  <1>9. QED
    BY <1>2, <1>3, <1>4, <1>5, <1>6, <1>7, <1>8 DEF Next, HostSteps

\* In every reachable state what is left of each operation's processes follows from where its
\* lifetime and its stop stand, no operation of a cancelled execution escapes its stop, none
\* escapes the close, and each call waits for one answer at most.
THEOREM InvariantHolds == Spec => []OwnerInduct
  <1>1. Init => OwnerInduct
    BY InductAtStart
  <1>2. OwnerInduct /\ [Next]_vars => OwnerInduct'
    BY InductKept
  <1>3. QED
    BY <1>1, <1>2, PTL DEF Spec

\* A process whose stop is done, whose lifetime is over or never began has left nothing, unless
\* its stop failed.
LEMMA EndedIsGone ==
  ASSUME OwnerInduct, NEW o \in Ops,
         proc[o].stop = "done" \/ proc[o].life = "none" \/ Ended(o)
  PROVE  ~LeftBehind(o) \/ StopFailed(o)
  <1>1. proc[o] \in Fit
    BY DEF OwnerInduct, Shapes
  <1>2. Processes(proc[o]) /\ Lifetime(proc[o]) /\ Stopping(proc[o]) /\ proc[o] \in Procs
    BY <1>1 DEF Fit
  <1>3. QED
    BY <1>2 DEF Processes, Lifetime, Stopping, Procs, LeftBehind, StopFailed, Ended

\* The owner never answers for a process that is still there, never signals a group that is no
\* longer its own, and lets no start slip past a cancellation or a close.
THEOREM OwnerCorrect == Spec => []OwnerKeepsPromises
  <1>1. ASSUME OwnerInduct PROVE OwnerKeepsPromises
    <2>1. Shapes /\ TableFollowsProcesses /\ OneCancellation /\ CancellationReaches /\ CloseReaches
          /\ Conversation \in Matching
      BY <1>1 DEF OwnerInduct
    <2>2. ASSUME NEW o \in Ops
          PROVE  /\ proc[o] \in Procs
                 /\ proc[o].stop = "done" => proc[o].runner = "dead" /\ ~LeftBehind(o)
                 /\ proc[o].stop \in {"term", "kill"} => ~proc[o].anchorReleased
      <3>1. proc[o] \in Fit
        BY <2>1 DEF Shapes
      <3>2. Stopping(proc[o]) /\ proc[o] \in Procs
        BY <3>1 DEF Fit
      <3>3. QED
        BY <3>2 DEF Stopping, Procs, LeftBehind
    <2>3. TypeOK
      <3>1. Conversation \in Conversations
        BY <2>1 DEF Matching
      <3>2. /\ toOwner \in Seq(Asked) /\ toWorker \in Seq(Told) /\ call \in [Ops -> Calls]
            /\ settled \in {"running", "posted", "received"}
        BY <3>1, ConversationParts DEF Conversations
      <3>3. Len(toOwner) <= Cardinality(Ops)
        BY <2>1, ConversationParts, RequestsAreBounded
      <3>4. proc \in [Ops -> Procs]
        BY <2>1, <2>2 DEF Shapes
      <3>5. call \in [Ops -> {"none", "starting", "running", "stopping", "closing", "releasing",
                              "ended", "dirty"}]
        BY <3>2 DEF Calls, Asking, AtRest
      <3>6. toWorker \in Seq(Ops \X {"started", "stopped", "released", "refused", "status",
                                     "closed", "error"})
        <4>1. Told = Ops \X {"started", "stopped", "released", "refused", "status", "closed",
                             "error"}
          BY DEF Told, Replies
        <4>2. QED
          BY <3>2, <4>1
      <3>7. QED
        BY <2>1, <3>2, <3>3, <3>4, <3>5, <3>6 DEF TypeOK, Shapes, Others, Procs, OwnedRecs, Asked
    <2>4. StoppedIsGone /\ SignalsOwnGroup
      BY <2>2 DEF StoppedIsGone, SignalsOwnGroup
    <2>5. CloseLeavesNothing
      <3>1. ASSUME closing = "closed", NEW o \in Ops
            PROVE  proc[o].stop = "done" \/ proc[o].life = "none" \/ Ended(o)
        BY <2>1, <3>1 DEF CloseReaches
      <3>2. QED
        BY <1>1, <3>1, EndedIsGone DEF CloseLeavesNothing
    <2>6. CancelReachesEveryStart
      BY <2>1 DEF CancelReachesEveryStart, OneCancellation, CancellationReaches, Cancelled
    <2>7. QED
      BY <2>3, <2>4, <2>5, <2>6 DEF OwnerKeepsPromises
  <1>2. QED
    BY <1>1, InvariantHolds, PTL

\* Only the coordinator's end of an execution changes it.
LEMMA TurnsEnd ==
  ASSUME Next, turn' # turn
  PROVE  FinishExecution
  <1>1. ASSUME NEW o \in Ops,
               SystemSteps(o) \/ Forks(o) \/ CommandExits(o) \/ BackgroundExits(o)
               \/ RunnerKilled(o) \/ Escapes(o) \/ EscapedExits(o)
        PROVE  FALSE
    BY <1>1 DEF SystemSteps, Spawn, RunnerStarts, RunnerExits, Forks, CommandExits,
       BackgroundExits, RunnerKilled, Escapes, EscapedExits, turnVars
  <1>2. ASSUME NEW o \in Ops, Drain(o) \/ LifeStatus(o) \/ LifePolls(o) \/ LifeEnds(o)
        PROVE  FALSE
    BY <1>2 DEF Drain, LifeStatus, LifePolls, LifeEnds, turnVars
  <1>3. ASSUME NEW o \in Ops, StopBegins(o) \/ StopGrace(o) \/ StopKills(o) \/ StopEnds(o)
        PROVE  FALSE
    BY <1>3 DEF StopBegins, StopGrace, StopKills, StopEnds, turnVars
  <1>4. ASSUME NEW o \in Ops, HandleStart(o) \/ HandleStop(o) \/ HandleRelease(o) \/ AnswerStop(o)
        PROVE  FALSE
    BY <1>4 DEF HandleStart, HandleStop, HandleRelease, AnswerStop, turnVars
  <1>5. ASSUME NEW o \in Ops, StartCall(o) \/ CallDecides(o) \/ CallStopped(o)
        PROVE  FALSE
    BY <1>5 DEF StartCall, CallDecides, CallStopped, turnVars
  <1>6. ASSUME \/ CancelExecution \/ HandleSettled \/ CloseOwner \/ OwnerClosed
               \/ CancelArrives \/ Receive \/ WorkerSettles
        PROVE  FALSE
    BY <1>6 DEF CancelExecution, HandleSettled, CloseOwner, OwnerClosed, CancelArrives, Receive,
       WorkerSettles, turnVars
  <1>7. QED
    BY <1>1, <1>2, <1>3, <1>4, <1>5, <1>6 DEF Next, HostSteps

\* When the coordinator ends a cancelled execution, the processes of its calls are gone or
\* their cleanup was reported as failed; only where the wait was cut short by the first
\* stop that failed are there others left, and each of them is being stopped.
THEOREM FinishedCancelIsClean == Spec => FinishedCancelLeavesNothing
  <1>1. ASSUME OwnerInduct, Next, turn' # turn, Cancelled(turn), NEW o \in Ops,
               owned[o].turn = turn, ~owned[o].released
        PROVE  \/ ~LeftBehind(o) \/ StopFailed(o)
               \/ CancelRejected(turn) /\ proc[o].stop # "none"
    <2>1. FinishExecution
      BY <1>1, TurnsEnd
    <2>2. turn \in Turns /\ CleanedUp /\ (settled = "received" \/ closing # "no")
      BY <2>1 DEF FinishExecution
    <2>3. TableFollowsProcesses /\ CancellationReaches /\ CloseReaches /\ Shapes
          /\ Conversation \in Matching
      BY <1>1 DEF OwnerInduct
    <2>4. CASE CancelRejected(turn)
      BY <1>1, <2>3, <2>4 DEF CancellationReaches
    <2>5. CASE ~CancelRejected(turn)
      <3>1. CancelFulfilled(turn) /\ closing # "closing"
        BY <1>1, <2>2, <2>5 DEF CleanedUp
      <3>2. \/ Stopped(o) \/ StopFailed(o) \/ "start" \in owned[o].awaiting
        BY <1>1, <2>3, <3>1 DEF CancellationReaches, CancelFulfilled
      <3>3. Stopped(o) => ~LeftBehind(o) \/ StopFailed(o)
        BY <1>1, EndedIsGone DEF Stopped
      <3>4. CASE settled = "received"
        <4>1. OneOutstanding(Conversation) /\ SettlesLast(Conversation)
          BY <2>3 DEF Matching
        <4>2. call[o] \in AtRest
          BY <3>4, <4>1, ConversationParts DEF SettlesLast
        <4>3. Conversation.aw[o] = owned[o].awaiting /\ Conversation.cl = call
          BY ConversationParts
        <4>4. "start" \notin owned[o].awaiting
          BY <4>1, <4>2, <4>3 DEF OneOutstanding, Waits, AtRest
        <4>5. QED
          BY <3>2, <3>3, <4>4
      <3>5. CASE closing # "no"
        <4>1. closing \in {"closed", "failed"}
          BY <2>3, <3>1, <3>5 DEF Shapes, Others
        <4>2. proc[o].life = "none" \/ Ended(o) \/ Stopped(o) \/ StopFailed(o)
          BY <2>3, <3>5, <4>1 DEF CloseReaches
        <4>3. QED
          BY <1>1, <3>3, <4>2, EndedIsGone
      <3>6. QED
        BY <2>2, <3>4, <3>5
    <2>6. QED
      BY <2>4, <2>5
  <1>2. OwnerInduct /\ [Next]_vars =>
          [turn' # turn /\ Cancelled(turn) =>
             \A o \in Ops : owned[o].turn = turn /\ ~owned[o].released =>
               \/ ~LeftBehind(o)
               \/ StopFailed(o)
               \/ CancelRejected(turn) /\ proc[o].stop # "none"]_vars
    BY <1>1
  <1>3. QED
    BY <1>2, InvariantHolds, PTL DEF Spec, FinishedCancelLeavesNothing

-----------------------------------------------------------------------------
(* The bash call, which awaits the stops and the releases of its operation. *)

\* Where the call stands says what it has joined.  An answer needs the process and both drains,
\* so every way to it does: a teardown that ends without a failure has stopped the process and
\* waited for the drains, a result passes the wait for the capture and then the release.
CallJoins ==
  /\ process.pipes = "ended" => process.status # "pending"
  /\ at = "teardown" => td.after # "none"
  /\ td.failed => aborted
  /\ td.in \in {"wait", "settle"} => td.failed \/ process.pipes = "ended"
  /\ td.in = "settle" \/ at \in {"finish", "finished", "release", "released", "caught"} => Settled
  /\ at = "released" => process.released
  /\ at = "caught" => process.pipes = "ended"

\* An answer is given once, and to every call that has ended.
CallAnswers == outcome # "none" <=> at = "end"

\* What is known of the operation behind a call, and how a call is torn down.
Operations ==
  [status : {"pending", "known", "error"}, pipes : {"open", "ended"},
   stop : {"none", "begun", "done", "failed"}, released : BOOLEAN]
Teardowns ==
  [in : {"none", "stop", "wait", "settle"}, byUser : BOOLEAN, failed : BOOLEAN,
   after : {"none", "capture", "raced", "abandon", "caught"}]

CallInduct == CallInvariant /\ CallJoins /\ CallAnswers

\* A teardown begins with the stop of the operation, nothing has failed yet.
LEMMA TeardownBegins ==
  ASSUME NEW byUser \in BOOLEAN, NEW after \in {"capture", "raced", "abandon", "caught"},
         Teardown(byUser, after)
  PROVE  /\ td' \in Teardowns /\ td'.in = "stop" /\ ~td'.failed /\ td'.after # "none"
         /\ at' = "teardown" /\ thrown' = thrown /\ outcome' = outcome
  BY DEF Teardown, Teardowns

\* A call that starts has joined nothing and answered nothing.
LEMMA CallStarts ==
  ASSUME CallInit
  PROVE  CallInduct
  BY DEF CallInit, CallInduct, CallInvariant, CallTypeOK, CancelledKeepsNoOutput, AnswerIsSettled,
         CallJoins, CallAnswers, NoTeardown, Settled, Pipes

\* What happens around the call: the cancellation, the command, its pipes and the drains.
LEMMA SurroundingsKeepCall ==
  ASSUME CallInduct,
         \/ Cancel \/ StatusArrives \/ PipesEnd \/ Drains
         \/ \E s \in Pipes : AppendStops(s)
  PROVE  CallInduct'
  <1> USE DEF CallInduct, CallInvariant, CallTypeOK, CancelledKeepsNoOutput, AnswerIsSettled,
              CallJoins, CallAnswers
  <1>1. CASE Cancel
    BY <1>1 DEF Cancel, Settled
  <1>2. CASE StatusArrives
    <2>1. process.pipes = "open"
      BY <1>2 DEF StatusArrives
    <2>2. process' \in Operations
      BY <1>2 DEF StatusArrives, Operations
    <2>3. process'.status # "pending" /\ process'.released = process.released
      BY <1>2 DEF StatusArrives
    <2>. QED
      BY <1>2, <2>1, <2>2, <2>3 DEF StatusArrives, Settled, Operations
  <1>3. CASE PipesEnd
    BY <1>3 DEF PipesEnd, Settled
  <1>4. ASSUME NEW s \in Pipes, DrainEnds(s)
        PROVE  CallInduct'
    <2>1. drain' \in [Pipes -> {"reading", "done"}] /\ (Settled => Settled')
      BY <1>4 DEF DrainEnds, Settled
    <2>. QED
      BY <1>4, <2>1 DEF DrainEnds
  <1>5. ASSUME NEW s \in Pipes, AppendStops(s)
        PROVE  CallInduct'
    BY <1>5 DEF AppendStops, Settled
  <1>. QED
    BY <1>1, <1>2, <1>3, <1>4, <1>5 DEF Drains

\* The body of execute, from the race to the result.
LEMMA BodyKeepsCall ==
  ASSUME CallInduct, Body \/ CaptureFails
  PROVE  CallInduct'
  <1> USE DEF CallInduct, CallInvariant, CallTypeOK, CancelledKeepsNoOutput, AnswerIsSettled,
              CallJoins, CallAnswers
  <1>1. CASE Race
    <2>1. CASE \E b \in BOOLEAN, a \in {"capture", "raced"} : Teardown(b, a)
      <3>1. td' \in Teardowns /\ td'.in = "stop" /\ ~td'.failed /\ td'.after # "none"
            /\ at' = "teardown" /\ thrown' = thrown /\ outcome' = outcome
        BY <2>1, TeardownBegins
      <3>. QED
        BY <1>1, <3>1 DEF Race, Settled, Teardowns
    <2>2. CASE Goto("capture")
      BY <1>1, <2>2 DEF Race, Settled, Goto
    <2>3. CASE Throw("other")
      BY <1>1, <2>3 DEF Race, Settled, Throw
    <2>. QED
      BY <1>1, <2>1, <2>2, <2>3 DEF Race
  <1>2. CASE Capture
    <2>1. drain' \in [Pipes -> {"reading", "done"}] /\ Settled'
      BY <1>2 DEF Capture, Settled
    <2>. QED
      BY <1>2, <2>1 DEF Capture, Goto
  <1>3. CASE SeesCancel
    <2>1. td' \in Teardowns /\ td'.in = "stop" /\ ~td'.failed /\ td'.after # "none"
          /\ at' = "teardown" /\ thrown' = thrown /\ outcome' = outcome
      BY <1>3, TeardownBegins DEF SeesCancel
    <2>. QED
      BY <1>3, <2>1 DEF SeesCancel, Settled, Teardowns
  <1>4. CASE Finish
    BY <1>4 DEF Finish, Settled, Goto
  <1>5. CASE AfterFinish
    BY <1>5 DEF AfterFinish, Settled, Goto, Throw
  <1>6. CASE Release
    <2>1. process' \in Operations
      BY <1>6 DEF Release, Operations
    <2>2. process'.pipes = process.pipes /\ process'.status = process.status
      BY <1>6 DEF Release
    <2>3. at' = "released" => process'.released
      BY <1>6 DEF Release, Goto, Throw
    <2>. QED
      BY <1>6, <2>1, <2>2, <2>3 DEF Release, Settled, Operations, Goto, Throw
  <1>7. CASE Return
    BY <1>7 DEF Return, Settled, Finished
  <1>8. CASE Abandon
    BY <1>8 DEF Abandon, AbandonThen, Settled, Throw
  <1>9. CASE CaptureFails
    BY <1>9 DEF CaptureFails, Settled, Throw
  <1>. QED
    BY <1>1, <1>2, <1>3, <1>4, <1>5, <1>6, <1>7, <1>8, <1>9 DEF Body

\* teardown: a stop that fails is remembered if the turn is cancelled, and thrown if it is not.
LEMMA TearKeepsCall ==
  ASSUME CallInduct, Tear \/ CaptureCleanupFails
  PROVE  CallInduct'
  <1> USE DEF CallInduct, CallInvariant, CallTypeOK, CancelledKeepsNoOutput, AnswerIsSettled,
              CallJoins, CallAnswers, NoTeardown
  <1>1. CASE TeardownStops
    <2>1. process' \in Operations
      BY <1>1 DEF TeardownStops, Operations
    <2>2. /\ process'.released = process.released
          /\ process'.pipes = "ended" => process'.status # "pending"
          /\ process.pipes = "ended" => process'.pipes = "ended"
      BY <1>1 DEF TeardownStops
    <2>3. CASE td' = [td EXCEPT !.in = "wait"] /\ process'.pipes = "ended" /\ at' = at
                /\ thrown' = thrown
      <3>1. td' \in Teardowns /\ td'.in = "wait" /\ td'.failed = td.failed /\ td'.after = td.after
        BY <2>3 DEF Teardowns
      <3>. QED
        BY <1>1, <2>1, <2>2, <2>3, <3>1 DEF TeardownStops, Settled, Operations, Teardowns
    <2>4. CASE aborted /\ td' = [td EXCEPT !.in = "wait", !.failed = TRUE] /\ at' = at
                /\ thrown' = thrown
      <3>1. td' \in Teardowns /\ td'.in = "wait" /\ td'.failed /\ td'.after = td.after
        BY <2>4 DEF Teardowns
      <3>. QED
        BY <1>1, <2>1, <2>2, <2>4, <3>1 DEF TeardownStops, Settled, Operations, Teardowns
    <2>5. CASE td' = NoTeardown /\ at' \in {"rethrow", "catch"} /\ thrown' \in {thrown, "other"}
      <3>1. td' \in Teardowns /\ td'.in = "none" /\ ~td'.failed
        BY <2>5 DEF Teardowns, NoTeardown
      <3>. QED
        BY <1>1, <2>1, <2>2, <2>5, <3>1 DEF TeardownStops, Settled, Operations, Teardowns
    <2>. QED
      BY <1>1, <2>3, <2>4, <2>5 DEF TeardownStops
  <1>2. CASE CaptureSettles
    <2>1. drain' \in [Pipes -> {"reading", "done"}] /\ Settled'
      BY <1>2 DEF CaptureSettles, Settled
    <2>. QED
      BY <1>2, <2>1 DEF CaptureSettles
  <1>3. CASE TeardownEnds
    BY <1>3 DEF TeardownEnds, Settled
  <1>4. CASE CaptureCleanupFails
    <2>1. drain' \in [Pipes -> {"reading", "done"}] /\ Settled'
      BY <1>4 DEF CaptureCleanupFails, Settled
    <2>2. td' \in Teardowns /\ td'.in = "settle" /\ td'.after = td.after
      BY <1>4 DEF CaptureCleanupFails, Teardowns
    <2>3. (td'.failed => aborted) /\ (td.failed => td'.failed)
      BY <1>4 DEF CaptureCleanupFails
    <2>. QED
      BY <1>4, <2>1, <2>2, <2>3 DEF CaptureCleanupFails, Teardowns
  <1>5. CASE StopReaches
    <2>1. process' \in Operations
      BY <1>5 DEF StopReaches, Operations
    <2>2. /\ process'.released = process.released /\ process'.status = "known"
          /\ process.pipes = "ended" => process'.pipes = "ended"
      BY <1>5 DEF StopReaches
    <2>. QED
      BY <1>5, <2>1, <2>2 DEF StopReaches, Settled, Operations
  <1>. QED
    BY <1>1, <1>2, <1>3, <1>4, <1>5 DEF Tear

\* The catch block: whatever was thrown, the call answers cancelled only after it has given up
\* the saved output.
LEMMA CatchingKeepsCall ==
  ASSUME CallInduct, Catching
  PROVE  CallInduct'
  <1> USE DEF CallInduct, CallInvariant, CallTypeOK, CancelledKeepsNoOutput, AnswerIsSettled,
              CallJoins, CallAnswers
  <1>1. CASE Catch
    <2>1. td' \in Teardowns /\ td'.in = "stop" /\ ~td'.failed /\ td'.after # "none"
          /\ at' = "teardown" /\ thrown' = thrown /\ outcome' = outcome
      BY <1>1, TeardownBegins DEF Catch
    <2>. QED
      BY <1>1, <2>1 DEF Catch, Settled, Teardowns
  <1>2. CASE Caught
    <2>1. process' \in Operations
      BY <1>2 DEF Caught, Operations
    <2>2. process'.pipes = process.pipes /\ process'.status = process.status
      BY <1>2 DEF Caught
    <2>. QED
      BY <1>2, <2>1, <2>2 DEF Caught, Settled, Operations, Goto, Finished, AbandonThen
  <1>3. CASE Rethrow
    BY <1>3 DEF Rethrow, Settled, Finished, AbandonThen
  <1>. QED
    BY <1>1, <1>2, <1>3 DEF Catching

\* Every step of a call keeps what the call relies on.
LEMMA CallKept ==
  ASSUME CallInduct, [CallNext]_callVars
  PROVE  CallInduct'
  <1>1. CASE UNCHANGED callVars
    BY <1>1 DEF callVars, CallInduct, CallInvariant, CallTypeOK, CancelledKeepsNoOutput,
                AnswerIsSettled, CallJoins, CallAnswers, Settled
  <1>. QED
    BY <1>1, SurroundingsKeepCall, BodyKeepsCall, TearKeepsCall, CatchingKeepsCall DEF CallNext

\* Where a call stands says what it has joined, with and without faults of the owner and the
\* spool (bashTool.execute, teardown and waitForCapture).
THEOREM CallHolds == CallSpec => []CallInduct
  BY CallStarts, CallKept, PTL DEF CallSpec

\* CallInvariant: a cancelled call leaves no readable output behind; a call answers as cancelled, or
\* that its output was lost, only when its process and both drains have ended, and with a result
\* only when both drains have and the operation is released.
THEOREM CallCorrect == CallSpec => []CallInvariant
  <1>1. CallInduct => CallInvariant
    BY DEF CallInduct
  <1>. QED
    BY <1>1, CallHolds, PTL

===============================================================================
