----------------------------- MODULE CoreService -----------------------------
(***************************************************************************)
(* The Core (host/core_service.ts) around its one active Session, the      *)
(* slot: the works of the commands that open a Session, submit a task or   *)
(* alter the Session (its title, model or recall), the registration of a   *)
(* credential, shutdown and close.  A composition of CoreCommands, which   *)
(* registers the commands and runs their works once, with LazySession, the *)
(* services the works act on.                                              *)
(***************************************************************************)
EXTENDS CoreCommands, LazySession

CONSTANTS Sessions, None,
          Request,   \* what a command with a signature asks: [kind, session]
          Repeated,  \* bound: the ids that are called MaxCalls times, not once,
          Retried    \* and the signatures of their later calls

ASSUME ServicesAssumption == Services # {} /\ None \notin Services

VARIABLES
  slot,        \* the service of the active Session
  openingSlot, \* the slot is reserved
  made,        \* the services: unused, watch, ready, leaked
  session,     \* the Session a service was made for
  work,        \* the works under way: where they await, and on which service
  outcome,     \* the result of a work that has ended
  credential,  \* credentialRegister: where it awaits
  coreClose    \* close: where it awaits

coreVars == <<slot, openingSlot, made, session, work, outcome, credential, coreClose>>
allVars == <<vars, sessionVars, coreVars>>

NoWork == [at |-> "none", service |-> None]

\* The Core starts with an initial Session or with none.
CoreInit ==
  /\ Init /\ SessionInit
  /\ slot \in {None, CHOOSE s \in Services : TRUE}
  /\ made = [s \in Services |-> IF s = slot THEN "ready" ELSE "unused"]
  /\ session = [s \in Services |-> IF s = slot THEN CHOOSE t \in Sessions : TRUE ELSE None]
  /\ openingSlot = FALSE
  /\ work = [c \in Ids |-> NoWork] /\ outcome = [c \in Ids |-> "none"]
  /\ credential = "unused" /\ coreClose = "open"

\* slotBusy
Busy(s) == Admitting(s) \/ turn[s]
SlotBusy == slot # None /\ Busy(slot)

Active(t) == slot # None /\ session[slot] = t

Fault == faults < MaxFaults /\ faults' = faults + 1

\* The commands are untouched; a step that fails counts as a fault.
CommandsUnchanged(failed) ==
  /\ UNCHANGED <<command, preflight, cache, receipt, waiting, calls, closed, ran, answers, misread>>
  /\ IF failed THEN Fault ELSE UNCHANGED faults

Goes(c, at, s) == work' = [work EXCEPT ![c] = [at |-> at, service |-> s]]

Ends(c, result) ==
  /\ work' = [work EXCEPT ![c] = NoWork]
  /\ outcome' = [outcome EXCEPT ![c] = result]

-----------------------------------------------------------------------------
(* The works up to their first await.                                      *)

StartOpen(c, t) ==
  /\ \/ /\ openingSlot \/ (~Active(t) /\ SlotBusy)
        /\ Ends(c, "rejected")
        /\ UNCHANGED openingSlot
     \/ /\ ~openingSlot /\ ~(~Active(t) /\ SlotBusy)
        /\ openingSlot' = TRUE
        /\ Goes(c, IF Active(t) THEN "control" ELSE "make", None)
        /\ UNCHANGED outcome
  /\ UNCHANGED sessionVars

MutantStartSubmit(c, t) ==
  /\ \/ /\ ~Active(t) \/ SlotBusy
        /\ Ends(c, "rejected")
        /\ UNCHANGED sessionVars
     \/ /\ Active(t) /\ ~SlotBusy
        /\ Admit(slot)
        /\ IF pending'[slot] = "rejected" THEN Ends(c, "rejected")
           ELSE Goes(c, "admit", slot) /\ UNCHANGED outcome
  /\ UNCHANGED openingSlot

StartSubmit(c, t) ==
  /\ \/ /\ ~Active(t) \/ openingSlot \/ SlotBusy
        /\ Ends(c, "rejected")
        /\ UNCHANGED sessionVars
     \/ /\ Active(t) /\ ~openingSlot /\ ~SlotBusy
        /\ Admit(slot)
        /\ IF pending'[slot] = "rejected" THEN Ends(c, "rejected")
           ELSE Goes(c, "admit", slot) /\ UNCHANGED outcome
  /\ UNCHANGED openingSlot

StartAlter(c, t) ==
  \/ /\ ~Active(t) \/ openingSlot \/ SlotBusy
     /\ Ends(c, "rejected")
     /\ UNCHANGED <<openingSlot, sessionVars>>
  \/ /\ Active(t) /\ ~openingSlot /\ ~SlotBusy
     /\ EnsureStarted(slot)
     /\ IF host[slot] = "failed"
        THEN Ends(c, "failed") /\ UNCHANGED openingSlot
        ELSE Goes(c, "alter", slot) /\ openingSlot' = TRUE /\ UNCHANGED outcome
     /\ UNCHANGED <<AdmissionVars, turn, close>>

StartWork(c) ==
  LET r == Request[command[c].sig]
  IN  /\ \/ r.kind = "open" /\ StartOpen(c, r.session)
         \/ r.kind = "submit" /\ StartSubmit(c, r.session)
         \/ r.kind = "alter" /\ StartAlter(c, r.session)
         \/ r.kind = "shutdown" /\ Ends(c, "accepted") /\ UNCHANGED <<openingSlot, sessionVars>>
      /\ UNCHANGED <<slot, made, session, credential, coreClose>>

-----------------------------------------------------------------------------
(* session.open: openSlot.                                                 *)

OpenEnds(c, result) ==
  /\ Ends(c, result)
  /\ openingSlot' = FALSE

\* createApplicationService has opened the Session in Data; the watch comes next.
Made(c) ==
  /\ work[c].at = "make"
  /\ \E s \in Services :
       /\ made[s] = "unused"
       /\ made' = [made EXCEPT ![s] = "watch"]
       /\ session' = [session EXCEPT ![s] = Request[command[c].sig].session]
       /\ Goes(c, "watch", s)
  /\ CommandsUnchanged(FALSE)
  /\ UNCHANGED <<slot, openingSlot, outcome, credential, coreClose, sessionVars>>

MakeFails(c) ==
  /\ work[c].at = "make"
  /\ OpenEnds(c, "failed")
  /\ CommandsUnchanged(\E s \in Services : made[s] = "unused")
  /\ UNCHANGED <<slot, made, session, credential, coreClose, sessionVars>>

\* The descriptor is watched: the slot changes hands, the service before is closed.
Watched(c) ==
  /\ work[c].at = "watch"
  /\ slot' = work[c].service
  /\ made' = [made EXCEPT ![slot'] = "ready"]
  /\ IF slot = None
     THEN Goes(c, "control", None) /\ UNCHANGED sessionVars
     ELSE Goes(c, "closePrevious", slot) /\ Close(slot)
  /\ CommandsUnchanged(FALSE)
  /\ UNCHANGED <<openingSlot, session, outcome, credential, coreClose>>

\* Nobody closes the service then.
WatchFails(c) ==
  /\ work[c].at = "watch"
  /\ made' = [made EXCEPT ![work[c].service] = "leaked"]
  /\ OpenEnds(c, "failed")
  /\ CommandsUnchanged(TRUE)
  /\ UNCHANGED <<slot, session, credential, coreClose, sessionVars>>

PreviousClosed(c) ==
  /\ work[c].at = "closePrevious"
  /\ \/ /\ close[work[c].service] = "done"
        /\ Goes(c, "control", None)
        /\ UNCHANGED <<outcome, openingSlot>>
     \/ /\ close[work[c].service] = "failed"
        /\ OpenEnds(c, "failed")
  /\ CommandsUnchanged(FALSE)
  /\ UNCHANGED <<slot, made, session, credential, coreClose, sessionVars>>

\* trimInactiveSnapshots and refreshReadControl of the Sessions with streams.
ControlRefreshed(c, ok) ==
  /\ work[c].at = "control"
  /\ OpenEnds(c, IF ok THEN "accepted" ELSE "failed")
  /\ CommandsUnchanged(~ok)
  /\ UNCHANGED <<slot, made, session, credential, coreClose, sessionVars>>

-----------------------------------------------------------------------------
(* session.rename, selection.change, recall; credentials.                  *)

\* The coordinator has altered the Session, or refused to.
Altered(c, result) ==
  /\ work[c].at = "alter" /\ host[work[c].service] = "up"
  /\ OpenEnds(c, result)
  /\ CommandsUnchanged(FALSE)
  /\ UNCHANGED <<slot, made, session, credential, coreClose, sessionVars>>

AlterFails(c) ==
  /\ work[c].at = "alter" /\ host[work[c].service] \in {"failed", "none"}
  /\ OpenEnds(c, "failed")
  /\ CommandsUnchanged(FALSE)
  /\ UNCHANGED <<slot, made, session, credential, coreClose, sessionVars>>

CredentialRegister ==
  /\ credential = "unused" /\ ~closed
  /\ ~openingSlot /\ ~SlotBusy
  /\ credential' = "save" /\ openingSlot' = TRUE
  /\ CommandsUnchanged(FALSE)
  /\ UNCHANGED <<slot, made, session, work, outcome, coreClose, sessionVars>>

\* It is saved and refreshed, or the file could not be written.
CredentialRegistered ==
  /\ credential = "save"
  /\ credential' = "done" /\ openingSlot' = FALSE
  /\ CommandsUnchanged(FALSE)
  /\ UNCHANGED <<slot, made, session, work, outcome, coreClose, sessionVars>>

-----------------------------------------------------------------------------
(* What happens in the services.                                           *)

\* A step of service s; a task.submit whose admission ends with it is answered.
Serves(s, failed) ==
  /\ CommandsUnchanged(failed)
  /\ LET answered == {c \in Ids : /\ work[c] = [at |-> "admit", service |-> s]
                                  /\ pending'[s] \in {"accepted", "rejected"}}
     IN  /\ work' = [c \in Ids |-> IF c \in answered THEN NoWork ELSE work[c]]
         /\ outcome' = [c \in Ids |-> IF c \in answered THEN pending'[s] ELSE outcome[c]]
  /\ UNCHANGED <<slot, openingSlot, made, session, credential, coreClose>>

StartEnds(s) ==
  \/ StartSucceeds(s) /\ Serves(s, FALSE)
  \/ StartFails(s) /\ Serves(s, ~aborted[s])

Answers(s) ==
  \/ Recorded(s, TRUE) /\ Serves(s, FALSE)
  \/ Recorded(s, FALSE) /\ Serves(s, TRUE)
  \/ HostAdmits(s, TRUE) /\ Serves(s, FALSE)
  \/ HostAdmits(s, FALSE) /\ Serves(s, TRUE)

Closes(s) ==
  \/ HostCloses(s) /\ Serves(s, FALSE)
  \/ Closed(s, TRUE) /\ Serves(s, FALSE)
  \/ Closed(s, FALSE) /\ Serves(s, TRUE)

\* execution.cancel of the active execution (its registration is left out).
ExecutionCancel ==
  /\ slot # None
  /\ CancelActiveTurn(slot)
  /\ Serves(slot, FALSE)

-----------------------------------------------------------------------------
(* Shutdown and close.                                                     *)

\* beginShutdown cancels the active execution.
CancelSlot ==
  IF SlotBusy /\ ~cancelled[slot] THEN CancelActiveTurn(slot)
  ELSE UNCHANGED sessionVars

\* A signal to the process begins the shutdown, as core.shutdown does.
ShutdownBegins ==
  /\ BeginShutdown /\ CancelSlot
  /\ UNCHANGED coreVars

\* close: it begins the shutdown, awaits the commands registered, then the credentials.
CoreCloses ==
  /\ coreClose = "open"
  /\ coreClose' = "commands"
  /\ \/ ~closed /\ BeginShutdown /\ CancelSlot
     \/ closed /\ UNCHANGED <<vars, sessionVars>>
  /\ UNCHANGED <<slot, openingSlot, made, session, work, outcome, credential>>

Settled == \A c \in Ids : command[c].at \in {"none", "lost"}

CommandsSettled ==
  /\ coreClose = "commands" /\ Settled /\ credential # "save"
  /\ IF slot = None
     THEN coreClose' = "data" /\ UNCHANGED sessionVars
     ELSE coreClose' = "service" /\ Close(slot)
  /\ CommandsUnchanged(FALSE)
  /\ UNCHANGED <<slot, openingSlot, made, session, work, outcome, credential>>

ServiceClosed ==
  /\ coreClose = "service" /\ close[slot] \in {"done", "failed"}
  /\ coreClose' = "data"
  /\ slot' = IF close[slot] = "done" THEN None ELSE slot
  /\ CommandsUnchanged(FALSE)
  /\ UNCHANGED <<openingSlot, made, session, work, outcome, credential, sessionVars>>

DataClosed ==
  /\ coreClose = "data"
  /\ coreClose' = "done"
  /\ CommandsUnchanged(FALSE)
  /\ UNCHANGED <<slot, openingSlot, made, session, work, outcome, credential, sessionVars>>

-----------------------------------------------------------------------------
(* The commands, and the specification.                                    *)

Calls(c, sig) ==
  /\ calls[c] = 0 \/ (c \in Repeated /\ sig \in Retried)
  /\ Call(c, sig)
  /\ IF closed' = closed THEN UNCHANGED sessionVars ELSE CancelSlot
  /\ UNCHANGED coreVars

\* A command without a receipt starts its work at once.
Receipt(c) ==
  \/ /\ ReceiptRead(c)
     /\ IF command'[c].at = "work" THEN StartWork(c) ELSE UNCHANGED <<sessionVars, coreVars>>
  \/ ReceiptReadFails(c) /\ UNCHANGED <<sessionVars, coreVars>>

Worked(c) ==
  /\ WorkEnds(c)
  /\ command'[c].value = outcome[c]
  /\ outcome' = [outcome EXCEPT ![c] = "none"]
  /\ UNCHANGED <<slot, openingSlot, made, session, work, credential, coreClose, sessionVars>>

Saves(c) ==
  /\ ReceiptSaved(c) \/ ReceiptLost(c)
  /\ UNCHANGED <<sessionVars, coreVars>>

\* The steps of a work that end because Data, the files or the coordinator answer.
WorkGoesOn(c) ==
  \/ Made(c) \/ MakeFails(c) \/ Watched(c) \/ WatchFails(c) \/ PreviousClosed(c)
  \/ AlterFails(c)
  \/ \E ok \in BOOLEAN : ControlRefreshed(c, ok)
  \/ \E result \in Results : Altered(c, result)

CommandGoesOn(c) == Receipt(c) \/ Worked(c) \/ Saves(c) \/ WorkGoesOn(c)

\* The grace of a cancelled start, and the answers of the coordinator and of Data.
ServiceGoesOn(s) ==
  \/ WatchdogFires(s) /\ Serves(s, FALSE)
  \/ Answers(s) \/ Closes(s)

CloseGoesOn == CredentialRegistered \/ CommandsSettled \/ ServiceClosed \/ DataClosed

CoreNext ==
  \/ \E c \in Ids : (\E sig \in Signatures : Calls(c, sig)) \/ CommandGoesOn(c)
  \/ \E s \in Services : \/ StartupPrepared(s) /\ Serves(s, FALSE)
                         \/ TurnEnds(s) /\ Serves(s, FALSE)
                         \/ StartEnds(s) \/ ServiceGoesOn(s)
  \/ CredentialRegister \/ ExecutionCancel \/ ShutdownBegins \/ CoreCloses \/ CloseGoesOn

CoreSpec == CoreInit /\ [][CoreNext]_allVars

\* A step that Data, the files, the coordinator, the event loop or a timer owes: the guards
\* of CommandGoesOn, ServiceGoesOn, CloseGoesOn and of the end of an aborted start.
Owed ==
  \/ \E c \in Ids :
       \/ command[c].at \in {"preflight", "save"} \/ outcome[c] # "none"
       \/ work[c].at \in {"make", "watch", "control"}
       \/ work[c].at = "closePrevious" /\ close[work[c].service] \in {"done", "failed"}
       \/ work[c].at = "alter" /\ host[work[c].service] # "starting"
  \/ \E s \in Services :
       \/ watchdog[s] \/ aborted[s]
       \/ pending[s] \in {"record", "seal", "host"} \/ close[s] \in {"host", "data"}
  \/ credential = "save" \/ coreClose = "data"
  \/ coreClose = "commands" /\ Settled
  \/ coreClose = "service" /\ close[slot] \in {"done", "failed"}

FairCore == CoreSpec /\ []<>~Owed

-----------------------------------------------------------------------------
(* Properties.                                                             *)

Holders == {c \in Ids : work[c].at \in {"make", "watch", "closePrevious", "control", "alter"}}

\* Who reserves the slot has it alone, across all the awaits of its work: no two works
\* hold it, and no task is admitted while the Session is altered or replaced.
SlotIsExclusive ==
  /\ Cardinality(Holders) + (IF credential = "save" THEN 1 ELSE 0) = (IF openingSlot THEN 1 ELSE 0)
  /\ openingSlot /\ SlotBusy => \E c \in Holders : work[c].at = "control"

\* What the task service relies on: no service is closed while it admits a task, and only
\* the close of the Core itself meets a running turn.
ClosedWhenIdle ==
  \A s \in Services :
    close[s] # "open" => ~Admitting(s) /\ close[s] # "start" /\ (turn[s] => s = slot)

\* A task cancelled while its Worker was starting reaches the coordinator as cancelled.
CancelIsKept ==
  \A s \in Services : cancelled[s] /\ (pending[s] = "host" \/ turn[s]) => told[s]

\* A closed Core has no work under way and no Worker running.
NothingLeft ==
  coreClose = "done" =>
    /\ \A c \in Ids : work[c] = NoWork
    /\ \A s \in Services : host[s] \notin {"starting", "up"}

\* The slot, its services and their Workers agree through every await of the works.
ServiceInvariant == SessionTypeOK /\ SlotIsExclusive /\ ClosedWhenIdle /\ CancelIsKept /\ NothingLeft

\* A start that nothing can abort: its Worker is silent and no cancelled task waits for it.
Stuck == \E s \in Services : host[s] = "starting" /\ ~(Admitting(s) /\ cancelled[s])

\* A cancelled task does not wait for a silent Worker, and the close of the Core ends,
\* unless a work waits for ever for a start that nothing aborts.
CoreConverges ==
  /\ \A s \in Services : (cancelled[s] /\ pending[s] = "start") ~> (pending[s] # "start")
  /\ (coreClose = "commands") ~> (coreClose = "done" \/ []Stuck)

=============================================================================
