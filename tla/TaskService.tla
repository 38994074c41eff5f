----------------------------- MODULE TaskService -----------------------------
(***************************************************************************)
(* ApplicationTaskService (host/task_service.ts): the lanes of one open    *)
(* Session - the active execution, its steering and one queued follow-up - *)
(* over the Host coordinator, which is here only what the service sees of  *)
(* it: an admission that succeeds or fails, a turn that ends, a cancel     *)
(* that is taken or finds nothing, steering that is taken or not.          *)
(*                                                                         *)
(* The service and the coordinator reach the Data Worker through one port, *)
(* which serves their requests of a Session in order.                      *)
(*                                                                         *)
(* task[e] is where the asynchronous begin and settle of execution e are;  *)
(* writes is the promise chain followUpWrites, of copies of records.       *)
(***************************************************************************)
EXTENDS Naturals, Sequences, FiniteSets

CONSTANTS MaxExecutions, MaxFollowUps, MaxSteered, MaxFaults  \* bounds

ASSUME BoundsAssumption == {MaxExecutions, MaxFollowUps, MaxSteered, MaxFaults} \subseteq Nat

Executions == 1 .. MaxExecutions
FollowUps == 1 .. MaxFollowUps
None == 0

VARIABLES
  active,     \* the execution of the active lane, or None
  preparing, handoffPending, cancellationRequested,
  steeringAccepted, steeringApplied,
  steering,   \* the execution whose steering text is shown, or None
  queued,     \* the follow-up of the queued lane, or None
  record,     \* MutableFollowUp of every follow-up so far
  writes,     \* saved copies on their way to the Data Worker
  saved,      \* the durable receipt of every follow-up, "none" before the first
  shown,      \* records: what the pending view shows as queued
  task,       \* begin and settle of every execution
  reserved,   \* the follow-up an execution was begun for, or None
  host,       \* the coordinator's view of every execution
  cancelled,  \* and those whose cancel it has taken
  steer,      \* the steer call of every execution
  close,      \* "open", "host" (closeHost is awaited), "chain", "done", "failed"
  broken,     \* a write of the chain was rejected: so is every later one
  faults

lanes == <<active, preparing, handoffPending, cancellationRequested, queued>>
steerVars == <<steeringAccepted, steeringApplied, steering, steer>>
stored == <<writes, saved, shown, broken>>
vars == <<lanes, steerVars, record, stored, task, reserved, host, cancelled, close, faults>>

NoRecord == [status |-> "none", after |-> None, execution |-> None]

Init ==
  /\ active = None /\ queued = None /\ steering = None
  /\ preparing = FALSE /\ handoffPending = FALSE /\ cancellationRequested = FALSE
  /\ steeringAccepted = FALSE /\ steeringApplied = FALSE
  /\ record = [q \in FollowUps |-> NoRecord]
  /\ writes = << >> /\ saved = [q \in FollowUps |-> "none"] /\ shown = {} /\ broken = FALSE
  /\ task = [e \in Executions |-> "none"] /\ reserved = [e \in Executions |-> None]
  /\ host = [e \in Executions |-> "none"] /\ steer = [e \in Executions |-> "none"]
  /\ cancelled = {} /\ close = "open" /\ faults = 0

IsBusy == preparing \/ handoffPending \/ active # None

Steps == {"none", "admit", "save", "turn", "persist", "lost", "flush", "lastFlush",
          "done", "stuck"}
HostStates == {"none", "admitting", "running", "committing", "ok", "notOk", "threw", "rejected"}

TypeOK ==
  /\ active \in Executions \cup {None} /\ steering \in Executions \cup {None}
  /\ queued \in FollowUps \cup {None}
  /\ preparing \in BOOLEAN /\ handoffPending \in BOOLEAN /\ cancellationRequested \in BOOLEAN
  /\ steeringAccepted \in BOOLEAN /\ steeringApplied \in BOOLEAN /\ broken \in BOOLEAN
  /\ record \in [FollowUps -> [status : {"none", "queued", "started", "discarded", "startRejected"},
                               after : Executions \cup {None},
                               execution : Executions \cup {None}]]
  /\ task \in [Executions -> Steps]
  /\ reserved \in [Executions -> FollowUps \cup {None}]
  /\ host \in [Executions -> HostStates]
  /\ cancelled \subseteq Executions
  /\ steer \in [Executions -> {"none", "asked", "taken", "answered"}]
  /\ close \in {"open", "host", "chain", "done", "failed"}
  /\ faults \in 0 .. MaxFaults

-----------------------------------------------------------------------------
(* Follow-up records.                                                      *)

\* saveFollowUp: a copy joins the chain; behind a rejected write it is rejected too.
\* by is the execution whose begin awaits it, if one does.
Save(w, q, r, by) ==
  IF broken THEN w ELSE Append(w, [queueId |-> q, status |-> r.status, by |-> by])

\* discard, of the queued record if there is one.
Discard ==
  /\ queued' = None
  /\ IF queued = None THEN UNCHANGED <<record, writes>>
     ELSE LET r == [record[queued] EXCEPT !.status = "discarded"]
          IN  /\ record' = [record EXCEPT ![queued] = r]
              /\ writes' = Save(writes, queued, r, None)

\* The Data Worker has the receipt.
Written ==
  /\ writes # << >>
  /\ writes' = Tail(writes)
  /\ LET w == Head(writes)
     IN  /\ saved' = [saved EXCEPT ![w.queueId] = w.status]
         /\ shown' = IF w.status = "queued" THEN shown \cup {w.queueId}
                     ELSE shown \ {w.queueId}
  /\ UNCHANGED <<lanes, steerVars, record, broken, task, reserved, host, close, faults, cancelled>>

WriteFails ==
  /\ writes # << >> /\ faults < MaxFaults
  /\ faults' = faults + 1
  /\ broken' = TRUE /\ writes' = << >>
  /\ UNCHANGED <<lanes, steerVars, record, saved, shown, task, reserved, host, close, cancelled>>

-----------------------------------------------------------------------------
(* Executions.                                                             *)

\* begin up to its first await, for the follow-up q or for none.
Begin(e, q) ==
  /\ active' = e /\ preparing' = TRUE /\ handoffPending' = FALSE
  /\ cancellationRequested' = FALSE
  /\ steeringAccepted' = FALSE /\ steeringApplied' = FALSE /\ steering' = None
  /\ reserved' = [reserved EXCEPT ![e] = q]
  /\ host' = [host EXCEPT ![e] = "admitting"]

Unused(e) == task[e] = "none" /\ \A f \in 1 .. e - 1 : task[f] # "none"

\* admit: a task of the user; the Core submits none to a service it closes.
Admit(e) ==
  /\ Unused(e) /\ ~IsBusy /\ close = "open"
  /\ Begin(e, None)
  /\ task' = [task EXCEPT ![e] = "admit"]
  /\ UNCHANGED <<queued, record, stored, steer, close, faults, cancelled>>

MutantAdmitted(e) ==
  LET q == reserved[e]
      r == [record[q] EXCEPT !.execution = e, !.status = IF @ = "queued" THEN "started" ELSE @]
  IN  /\ task[e] = "admit"
      /\ host' = [host EXCEPT ![e] = "running"]
      /\ preparing' = FALSE
      /\ IF q = None
         THEN /\ task' = [task EXCEPT ![e] = "turn"]
              /\ UNCHANGED <<record, writes>>
         ELSE /\ task' = [task EXCEPT ![e] = "turn"]
              /\ record' = [record EXCEPT ![q] = r]
              /\ UNCHANGED writes
      /\ queued' = IF queued = q THEN None ELSE queued
      /\ UNCHANGED <<active, handoffPending, cancellationRequested, steerVars,
                     saved, shown, broken, reserved, close, faults, cancelled>>

\* The host admits: the record of the follow-up is started and saved.
Admitted(e) ==
  LET q == reserved[e]
      r == [record[q] EXCEPT !.execution = e, !.status = IF @ = "queued" THEN "started" ELSE @]
  IN  /\ task[e] = "admit"
      /\ host' = [host EXCEPT ![e] = "running"]
      /\ preparing' = FALSE
      /\ IF q = None
         THEN /\ task' = [task EXCEPT ![e] = "turn"]
              /\ UNCHANGED <<record, writes>>
         ELSE /\ task' = [task EXCEPT ![e] = "save"]
              /\ record' = [record EXCEPT ![q] = r]
              /\ writes' = Save(writes, q, r, e)
      /\ UNCHANGED <<active, handoffPending, cancellationRequested, queued, steerVars,
                     saved, shown, broken, reserved, close, faults, cancelled>>

\* The host rejects: no lane is left, and the follow-up is discarded or startRejected,
\* which is awaited (step "lost") before the lane is free.
Rejected(e) ==
  LET q == reserved[e]
      r == [record[q] EXCEPT !.status = "startRejected"]
  IN  /\ task[e] = "admit"
      /\ host' = [host EXCEPT ![e] = "rejected"]
      /\ active' = None /\ preparing' = FALSE
      /\ cancellationRequested' = FALSE
      /\ \/ /\ q = None
            /\ task' = [task EXCEPT ![e] = "done"]
            /\ UNCHANGED <<queued, record, writes>>
         \/ /\ q # None /\ (cancellationRequested \/ record[q].status # "queued")
            /\ task' = [task EXCEPT ![e] = "done"]
            /\ IF cancellationRequested
               THEN /\ queued' = None
                    /\ record' = [record EXCEPT ![q].status = "discarded"]
                    /\ writes' = Save(writes, q, [r EXCEPT !.status = "discarded"], None)
               ELSE UNCHANGED <<queued, record, writes>>
         \/ /\ q # None /\ ~cancellationRequested /\ record[q].status = "queued"
            /\ task' = [task EXCEPT ![e] = "lost"]
            /\ record' = [record EXCEPT ![q] = r]
            /\ writes' = Save(writes, q, r, e)
            /\ UNCHANGED queued
      /\ UNCHANGED <<handoffPending, steerVars, saved, shown, broken, reserved, close, faults,
                     cancelled>>

\* The write that begin awaits is over: settle starts, or the rejection is reported and
\* cancellationRequested reset, whichever execution it belongs to by now.
Saved(e) ==
  LET q == reserved[e]
  IN  /\ task[e] \in {"save", "lost"} /\ (broken \/ \A i \in DOMAIN writes : writes[i].by # e)
      /\ task' = [task EXCEPT ![e] = IF broken THEN "stuck"
                                     ELSE IF @ = "save" THEN "turn" ELSE "done"]
      /\ queued' = IF ~broken /\ queued = q THEN None ELSE queued
      /\ cancellationRequested' = IF ~broken /\ task[e] = "lost" THEN FALSE
                                  ELSE cancellationRequested
      /\ UNCHANGED <<active, preparing, handoffPending, steerVars, record, stored, reserved,
                     host, close, faults, cancelled>>

\* The coordinator decides to commit the answer of a turn that is not cancelled.  It has
\* asked the Data Worker before: behind the write of a begin that was rejected earlier,
\* which is answered by now.
HostCommits(e) ==
  /\ host[e] = "running" /\ e \notin cancelled
  /\ \A f \in Executions : task[f] # "lost"
  /\ host' = [host EXCEPT ![e] = "committing"]
  /\ UNCHANGED <<lanes, steerVars, record, stored, task, reserved, close, faults, cancelled>>

\* The turn ends: a committed final answer, another outcome, or an error.
HostEnds(e) ==
  /\ host[e] \in {"running", "committing"}
  /\ \E outcome \in {"ok", "notOk", "threw"} :
       /\ outcome = "ok" => host[e] = "committing"
       /\ host' = [host EXCEPT ![e] = outcome]
  /\ UNCHANGED <<lanes, steerVars, record, stored, task, reserved, close, faults, cancelled>>

Ended(e) == host[e] \in {"ok", "notOk", "threw"}

Settle(e) ==
  /\ task[e] = "turn" /\ Ended(e)
  /\ task' = [task EXCEPT ![e] = "persist"]
  /\ UNCHANGED <<lanes, steerVars, record, stored, reserved, host, close, faults, cancelled>>

\* persistCompletion is done: the lanes are free, the hand-off to a follow-up begins.
Persisted(e) ==
  /\ task[e] = "persist"
  /\ active' = None /\ handoffPending' = TRUE /\ cancellationRequested' = FALSE
  /\ task' = [task EXCEPT ![e] = IF host[e] = "threw" THEN "lastFlush" ELSE "flush"]
  /\ steering' = None /\ steeringAccepted' = FALSE /\ steeringApplied' = FALSE
  /\ IF host[e] = "threw" THEN Discard ELSE UNCHANGED <<queued, record, writes>>
  /\ UNCHANGED <<preparing, steer, saved, shown, broken, reserved, host, close, faults, cancelled>>

\* Its rejection ends settle with the lane still active.
PersistFails(e) ==
  /\ task[e] = "persist" /\ faults < MaxFaults
  /\ faults' = faults + 1
  /\ task' = [task EXCEPT ![e] = "stuck"]
  /\ UNCHANGED <<lanes, steerVars, record, stored, reserved, host, close, cancelled>>

MutantFlushedIdle(e) ==
  /\ writes = << >> /\ ~broken
  /\ \/ task[e] = "lastFlush"
     \/ task[e] = "flush" /\ queued = None
  /\ task' = [task EXCEPT ![e] = "done"]
  /\ handoffPending' = (task[e] = "lastFlush")
  /\ UNCHANGED <<active, preparing, cancellationRequested, queued, steerVars, record, stored,
                 reserved, host, close, faults, cancelled>>

\* flushFollowUps ends without a follow-up to start.
FlushedIdle(e) ==
  /\ writes = << >> /\ ~broken
  /\ \/ task[e] = "lastFlush"
     \/ task[e] = "flush" /\ queued = None
  /\ task' = [task EXCEPT ![e] = "done"]
  /\ handoffPending' = FALSE
  /\ UNCHANGED <<active, preparing, cancellationRequested, queued, steerVars, record, stored,
                 reserved, host, close, faults, cancelled>>

\* flushFollowUps ends with one: it is begun after a final answer, else discarded.
FlushedStarts(e, child) ==
  /\ writes = << >> /\ ~broken
  /\ task[e] = "flush" /\ queued # None
  /\ close = "open" /\ host[e] = "ok"
  /\ Unused(child)
  /\ Begin(child, queued)
  /\ task' = [task EXCEPT ![e] = "done", ![child] = "admit"]
  /\ UNCHANGED <<queued, record, stored, steer, close, faults, cancelled>>

FlushedDiscards(e) ==
  /\ writes = << >> /\ ~broken
  /\ task[e] = "flush" /\ queued # None
  /\ close # "open" \/ host[e] # "ok"
  /\ Discard
  /\ task' = [task EXCEPT ![e] = "lastFlush"]
  /\ UNCHANGED <<active, preparing, handoffPending, cancellationRequested, steerVars,
                 saved, shown, broken, reserved, host, close, faults, cancelled>>

\* A rejected write rejects the flush, and settle with it.
FlushFails(e) ==
  /\ broken /\ task[e] \in {"flush", "lastFlush"}
  /\ task' = [task EXCEPT ![e] = "stuck"]
  /\ UNCHANGED <<lanes, steerVars, record, stored, reserved, host, close, faults, cancelled>>

-----------------------------------------------------------------------------
(* Commands on the active execution.                                       *)

MutantQueueFollowUp(e, q) ==
  /\ record[q].status = "none" /\ \A p \in 1 .. q - 1 : record[p].status # "none"
  /\ active = e /\ ~preparing
  /\ queued = None /\ e < MaxExecutions
  /\ LET r == [NoRecord EXCEPT !.status = "queued", !.after = e]
     IN  /\ record' = [record EXCEPT ![q] = r]
         /\ writes' = Save(writes, q, r, None)
  /\ queued' = q
  /\ UNCHANGED <<active, preparing, handoffPending, cancellationRequested, steerVars,
                 saved, shown, broken, task, reserved, host, close, faults, cancelled>>

\* queueFollowUp, not rejected (the bound leaves an execution to begin for it).
QueueFollowUp(e, q) ==
  /\ record[q].status = "none" /\ \A p \in 1 .. q - 1 : record[p].status # "none"
  /\ active = e /\ ~preparing /\ ~cancellationRequested
  /\ queued = None /\ e < MaxExecutions
  /\ LET r == [NoRecord EXCEPT !.status = "queued", !.after = e]
     IN  /\ record' = [record EXCEPT ![q] = r]
         /\ writes' = Save(writes, q, r, None)
  /\ queued' = q
  /\ UNCHANGED <<active, preparing, handoffPending, cancellationRequested, steerVars,
                 saved, shown, broken, task, reserved, host, close, faults, cancelled>>

\* cancel: the coordinator takes it while it admits or runs the execution, also when it
\* has decided to commit.
Cancel(e) ==
  /\ active = e /\ host[e] \in {"admitting", "running", "committing"}
  /\ cancellationRequested' = TRUE
  /\ cancelled' = cancelled \cup {e}
  /\ Discard
  /\ UNCHANGED <<active, preparing, handoffPending, steerVars, saved, shown, broken, task,
                 reserved, host, close, faults>>

\* steer up to its await; the coordinator answers later.
Steer(e) ==
  /\ active = e /\ ~preparing /\ ~cancellationRequested /\ ~steeringAccepted
  /\ Cardinality({f \in Executions : steer[f] # "none"} \cup {e}) <= MaxSteered
  /\ steeringAccepted' = TRUE
  /\ steer' = [steer EXCEPT ![e] = "asked"]
  /\ UNCHANGED <<lanes, steeringApplied, steering, record, stored, task, reserved, host, close,
                 faults, cancelled>>

\* The coordinator takes the steering of a running turn, once.
HostTakesSteering(e) ==
  /\ steer[e] = "asked" /\ host[e] = "running"
  /\ steer' = [steer EXCEPT ![e] = "taken"]
  /\ UNCHANGED <<lanes, steeringAccepted, steeringApplied, steering, record, stored, task,
                 reserved, host, close, faults, cancelled>>

\* observe: the steering was applied; this may come before the answer of steer.
SteeringIsApplied(e) ==
  /\ steer[e] \in {"taken", "answered"} /\ host[e] = "running" /\ active = e
  /\ ~steeringApplied
  /\ steeringApplied' = TRUE /\ steering' = None
  /\ UNCHANGED <<lanes, steeringAccepted, steer, record, stored, task, reserved, host, close,
                 faults, cancelled>>

\* The rest of steer: accepted, or idle or an error.
SteerAnswered(e) ==
  /\ \/ /\ steer[e] = "taken"
        /\ steer' = [steer EXCEPT ![e] = "answered"]
        /\ steering' = IF active = e /\ ~steeringApplied THEN e ELSE steering
        /\ UNCHANGED steeringAccepted
     \/ /\ steer[e] = "asked"
        /\ steer' = [steer EXCEPT ![e] = "none"]
        /\ steeringAccepted' = IF active = e THEN FALSE ELSE steeringAccepted
        /\ UNCHANGED steering
  /\ UNCHANGED <<lanes, steeringApplied, record, stored, task, reserved, host, close, faults,
                 cancelled>>

-----------------------------------------------------------------------------
(* close.                                                                  *)

Close ==
  /\ close = "open"
  /\ close' = "host"
  /\ UNCHANGED <<lanes, steerVars, record, stored, task, reserved, host, faults, cancelled>>

\* closeHost ends every turn and rejects every admission first.
HostClosed ==
  /\ close = "host"
  /\ \A e \in Executions : host[e] \notin {"admitting", "running", "committing"}
  /\ close' = "chain"
  /\ UNCHANGED <<lanes, steerVars, record, stored, task, reserved, host, faults, cancelled>>

\* The chain of executions and the writes are awaited.
CloseEnds ==
  /\ close = "chain"
  /\ \A e \in Executions : task[e] \in {"none", "done", "stuck"}
  /\ broken \/ writes = << >>
  /\ close' = IF broken THEN "failed" ELSE "done"
  /\ UNCHANGED <<lanes, steerVars, record, stored, task, reserved, host, faults, cancelled>>

-----------------------------------------------------------------------------

\* What goes on by itself: the continuations of begin and settle.
Continues(e) ==
  \/ Rejected(e) \/ Saved(e) \/ Settle(e) \/ Persisted(e) \/ FlushedIdle(e)
  \/ FlushedDiscards(e) \/ FlushFails(e)
  \/ \E child \in Executions : FlushedStarts(e, child)

Next ==
  \/ Written \/ WriteFails \/ Close \/ HostClosed \/ CloseEnds
  \/ \E e \in Executions :
       \/ Admit(e) \/ Admitted(e) \/ HostCommits(e) \/ HostEnds(e) \/ PersistFails(e)
       \/ Continues(e) \/ Cancel(e) \/ Steer(e) \/ HostTakesSteering(e) \/ SteeringIsApplied(e)
       \/ SteerAnswered(e)
       \/ \E q \in FollowUps : QueueFollowUp(e, q)

Spec == Init /\ [][Next]_vars

System ==
  \/ Written \/ HostClosed \/ CloseEnds
  \/ \E e \in Executions : Continues(e) \/ HostEnds(e)

\* The Data Worker answers, the coordinator admits or rejects and ends every turn, and
\* continuations run.
FairSpec == Spec /\ WF_vars(System)

-----------------------------------------------------------------------------
(* Properties.                                                             *)

\* The steering shown is that of the active execution, taken and not yet applied, also
\* when the answer to a steer call comes after its execution.  At most one execution has
\* the Session, and one is begun only when the one before it is settled.
LanesAreCurrent ==
  /\ TypeOK
  /\ steering # None => steering = active /\ steeringAccepted /\ ~steeringApplied
  /\ Cardinality({e \in Executions : host[e] \in {"admitting", "running", "committing"}}) <= 1

Failed == faults > 0

\* Nothing accepted is forgotten: once the Session is idle and the writes are through,
\* no follow-up is queued any more, its durable receipt is its last status and the
\* pending view shows none; and after close all of this holds.
FollowUpsSettled ==
  /\ (~IsBusy \/ close = "done") /\ writes = << >> /\ ~Failed
       => \A q \in FollowUps : saved[q] = record[q].status /\ saved[q] # "queued"
  /\ shown = {q \in FollowUps : saved[q] = "queued"}
  /\ close = "done" /\ ~Failed => ~IsBusy

\* What the service shows and what it has stored are those of the executions it has.
TaskInvariant == LanesAreCurrent /\ FollowUpsSettled

\* A follow-up is begun only behind a final answer, and never behind an execution whose
\* cancel was taken, even when the answer was committed all the same - although the end of
\* a rejected begin resets the cancellation of the execution that has the Session by then.
CancelHolds ==
  \A e \in Executions :
    reserved[e] # None => /\ record[reserved[e]].after \notin cancelled
                          /\ host[record[reserved[e]].after] = "ok"

\* The Session does not stay busy and close returns, whatever was queued, steered or
\* cancelled, unless a write failed.
BusyEnds ==
  /\ IsBusy ~> (~IsBusy \/ Failed)
  /\ close = "host" ~> (close \in {"done", "failed"} \/ Failed)

=============================================================================
