----------------------------- MODULE DataSession -----------------------------
(***************************************************************************)
(* One Session of the Data Worker: the DataSessionOwner with its           *)
(* SessionAuthority projection and its per-execution journals, and the     *)
(* SQLite history rows they write, across crashes and restarts.            *)
(*                                                                         *)
(* The Data Worker is single-threaded and every owner method touches       *)
(* SQLite synchronously, so a method is one action.  What interleaves is   *)
(* the order in which requests from the Core main thread and messages from *)
(* the Agent port reach the owner, the journals' flush timers, and faults. *)
(*                                                                         *)
(* A write of the store has three outcomes: "ok"; "before", it throws and  *)
(* its transaction is rolled back; "after", the transaction is committed   *)
(* but the ConversationWriter throws while it refreshes and publishes the  *)
(* derived conversation view, so the caller sees an exception.             *)
(*                                                                         *)
(* An operator whose name starts with "Mutant" is no part of the           *)
(* specification: it is what a plausible bug would make of the definition  *)
(* that follows it, and one of the properties is known to catch it.        *)
(***************************************************************************)
EXTENDS Integers, Sequences, FiniteSets

CONSTANTS Executions,    \* execution ids, each admitted at most once
          BufferLimit,   \* journal facts that force a flush (256 in the code)
          MaxSequence,   \* bound: data messages of one execution
          MaxRevision,   \* bound: metadata writes stop at this revision
          MaxCrashes     \* bound: crashes of the process

ASSUME BoundsAssumption ==
  /\ BufferLimit \in Nat \ {0}
  /\ MaxSequence \in Nat
  /\ MaxRevision \in Nat
  /\ MaxCrashes \in Nat

VARIABLES
  \* The Data Worker's memory.
  phase,              \* the process: "down", "booting" (store initialization), "up"
  crashes,            \* crashes so far
  persistent,         \* durableCanonicalHistory: FALSE for a detached Session
  open,               \* whether an owner for the Session is open
  stateRevision,      \* SessionAuthority.projection.stateRevision
  nextTurn,           \* SessionAuthority.projection.nextTurn
  checkpoint,         \* projection.checkpoint.coveredThroughTurn, 0 for none
  rollbackFailed,     \* history: taking a checkpoint back threw, none installed since
  pendingModelChange, \* SessionAuthority.#pendingModelChanges is not empty
  held,               \* the keys of DataSessionOwner.#executions
  unanswered,         \* those of them whose admission threw after they were put there
  authorization,      \* state.authorization
  sealed,             \* executions with state.sealed
  prepared,           \* executions with a prepared proposal
  terminal,           \* state.terminal
  received,           \* journal.received: the last data sequence taken
  durable,            \* journal.durable: the last sequence known to be saved
  journalSealed,      \* executions whose journal is sealed
  journalFailed,      \* executions whose journal has a sticky failure
  \* What the Agent sent last for an execution, and with which sequence.
  finalKind,
  finalSequence,
  \* The SQLite store.
  rowRevision,        \* sessions.state_revision, 0 while there is no row
  rowNextTurn,        \* sessions.next_turn
  rowCheckpoint,      \* sessions.checkpoint_json, 0 for none
  row,                \* executions.lifecycle and adoption
  base,               \* executions.base_revision, 0 while there is no row
  turn,               \* executions.turn_number, 0 while there is no row
  saved,              \* the data sequence whose facts are all in semantic_records
  turns               \* session_turns by turn_ordinal: execution ids

sessionVars  == <<stateRevision, nextTurn, checkpoint, rollbackFailed, pendingModelChange>>
admissionVars == <<held, unanswered>>
decisionVars == <<authorization, sealed, prepared, terminal>>
journalVars  == <<received, durable, journalSealed, journalFailed>>
finalVars    == <<finalKind, finalSequence>>
processVars  == <<phase, crashes, persistent>>
rowVars      == <<rowRevision, rowNextTurn, rowCheckpoint>>
executionVars == <<row, base, turn>>
storeVars    == <<rowVars, executionVars, saved, turns>>
vars == <<processVars, open, sessionVars, admissionVars, decisionVars, journalVars,
          finalVars, storeVars>>

Outcomes == {"ok", "before", "after"}
CommitOutcomes == Outcomes \cup {"unread"}
RowStates == {"none", "active", "canonical", "non_canonical"}

ProcessTypeOK ==
  /\ phase \in {"down", "booting", "up"}
  /\ crashes \in Nat
  /\ persistent \in BOOLEAN
  /\ open \in BOOLEAN

SessionTypeOK ==
  /\ stateRevision \in Nat
  /\ nextTurn \in Nat
  /\ checkpoint \in Nat
  /\ rollbackFailed \in BOOLEAN
  /\ pendingModelChange \in BOOLEAN

DecisionTypeOK ==
  /\ held \in SUBSET Executions
  /\ unanswered \in SUBSET Executions
  /\ authorization \in [Executions -> {"none", "accepted", "rejected"}]
  /\ sealed \in SUBSET Executions
  /\ prepared \in SUBSET Executions
  /\ terminal \in [Executions -> {"none", "accepted", "canonical", "non_canonical"}]

JournalTypeOK ==
  /\ received \in [Executions -> Nat]
  /\ durable \in [Executions -> Nat]
  /\ journalSealed \in SUBSET Executions
  /\ journalFailed \in SUBSET Executions
  /\ saved \in [Executions -> Nat]

FinalTypeOK ==
  /\ finalKind \in [Executions -> {"none", "proposal", "failure"}]
  /\ finalSequence \in [Executions -> Nat]

RowTypeOK ==
  /\ rowRevision \in Nat
  /\ rowNextTurn \in Nat
  /\ rowCheckpoint \in Nat
  /\ turns \in Seq(Executions)

ExecutionTypeOK ==
  /\ row \in [Executions -> RowStates]
  /\ base \in [Executions -> Nat]
  /\ turn \in [Executions -> Nat]

TypeOK ==
  /\ ProcessTypeOK
  /\ SessionTypeOK
  /\ DecisionTypeOK
  /\ JournalTypeOK
  /\ FinalTypeOK
  /\ RowTypeOK
  /\ ExecutionTypeOK

-----------------------------------------------------------------------------
(* The process and the owner.                                              *)

\* Everything the owner keeps per execution is gone: a closed owner, or a
\* fresh process.
ForgetExecutions ==
  /\ held' = {}
  /\ unanswered' = {}
  /\ authorization' = [e \in Executions |-> "none"]
  /\ sealed' = {}
  /\ prepared' = {}
  /\ terminal' = [e \in Executions |-> "none"]
  /\ received' = [e \in Executions |-> 0]
  /\ durable' = [e \in Executions |-> 0]
  /\ journalSealed' = {}
  /\ journalFailed' = {}

\* A closed owner's projection is unreachable; its values are reset so that
\* states which differ only in them are one.  A detached Session's checkpoint
\* lives in its handle and goes with it.
ForgetSession ==
  /\ open' = FALSE
  /\ stateRevision' = 1
  /\ nextTurn' = 1
  /\ checkpoint' = 0
  /\ rollbackFailed' = FALSE
  /\ pendingModelChange' = TRUE
  /\ rowCheckpoint' = IF persistent THEN rowCheckpoint ELSE 0

Init ==
  /\ phase = "booting"
  /\ crashes = 0
  /\ persistent \in BOOLEAN
  /\ open = FALSE
  /\ stateRevision = 1
  /\ nextTurn = 1
  /\ checkpoint = 0
  /\ rollbackFailed = FALSE
  /\ pendingModelChange = TRUE
  /\ held = {}
  /\ unanswered = {}
  /\ authorization = [e \in Executions |-> "none"]
  /\ sealed = {}
  /\ prepared = {}
  /\ terminal = [e \in Executions |-> "none"]
  /\ received = [e \in Executions |-> 0]
  /\ durable = [e \in Executions |-> 0]
  /\ journalSealed = {}
  /\ journalFailed = {}
  /\ finalKind = [e \in Executions |-> "none"]
  /\ finalSequence = [e \in Executions |-> 0]
  /\ rowRevision = 0
  /\ rowNextTurn = 1
  /\ rowCheckpoint = 0
  /\ row = [e \in Executions |-> "none"]
  /\ base = [e \in Executions |-> 0]
  /\ turn = [e \in Executions |-> 0]
  /\ saved = [e \in Executions |-> 0]
  /\ turns = << >>

\* The process dies at any point between two owner methods.  A crash inside a
\* method has the effect of its "before" or "after" outcome followed by this.
Crash ==
  /\ phase # "down"
  /\ crashes < MaxCrashes
  /\ phase' = "down"
  /\ crashes' = crashes + 1
  /\ ForgetExecutions
  /\ ForgetSession
  /\ UNCHANGED <<persistent, finalVars, rowRevision, rowNextTurn, executionVars, saved, turns>>

\* A new process opens the database; #initialize runs once per process.
Boot ==
  /\ phase = "down"
  /\ phase' = "booting"
  /\ UNCHANGED <<crashes, persistent, open, sessionVars, admissionVars, decisionVars, journalVars,
                 finalVars, storeVars>>

\* #initialize takes the lock of an execution that no process owns and settles
\* it as interrupted.  Init also starts here, with nothing to reconcile.
ReconcileExecution(e) ==
  /\ phase = "booting"
  /\ row[e] = "active"
  /\ row' = [row EXCEPT ![e] = "non_canonical"]
  /\ UNCHANGED <<processVars, open, sessionVars, admissionVars, decisionVars, journalVars,
                 finalVars, rowVars, base, turn, saved, turns>>

MutantFinishInitialize ==
  /\ phase = "booting"
  /\ phase' = "up"
  /\ UNCHANGED <<crashes, persistent, open, sessionVars, admissionVars, decisionVars, journalVars,
                 finalVars, storeVars>>

\* The store is published to the service only after every active row is
\* reconciled: a failed initialization is retried with a new store object.
FinishInitialize ==
  /\ phase = "booting"
  /\ \A e \in Executions : row[e] # "active"
  /\ phase' = "up"
  /\ UNCHANGED <<crashes, persistent, open, sessionVars, admissionVars, decisionVars, journalVars,
                 finalVars, storeVars>>

\* DataSessionOwner.open: an existing persistent Session is read from its row;
\* a new one, and every detached one, starts at revision 1 and turn 1 with its
\* first model change still to be written.
OpenOwner ==
  /\ phase = "up"
  /\ ~open
  /\ open' = TRUE
  /\ IF persistent /\ rowRevision > 0
       THEN /\ stateRevision' = rowRevision
            /\ nextTurn' = rowNextTurn
            /\ checkpoint' = rowCheckpoint
            /\ rollbackFailed' = FALSE
            /\ pendingModelChange' = FALSE
       ELSE UNCHANGED sessionVars
  /\ UNCHANGED <<processVars, admissionVars, decisionVars, journalVars, finalVars, storeVars>>

-----------------------------------------------------------------------------
(* Metadata and admission.                                                 *)

MutantHasUnsettledExecution == FALSE

\* #hasUnsettledExecution: an execution whose fate has not been decided.
HasUnsettledExecution ==
  \E e \in held : terminal[e] = "none" /\ authorization[e] = "none"

\* The condition of #saveSessionMetadataTx for a write of this revision.
MetadataWriteAccepted(revision) ==
  \/ rowRevision = 0 /\ pendingModelChange
  \/ rowRevision > 0 /\ rowRevision + 1 = revision /\ rowNextTurn = nextTurn

\* updateTitle and updateModelSelection.  A write the store refuses throws and
\* changes nothing; a detached handle accepts every write and keeps nothing.
UpdateMetadata ==
  /\ open
  /\ ~HasUnsettledExecution
  /\ stateRevision < MaxRevision
  /\ persistent => MetadataWriteAccepted(stateRevision + 1)
  /\ stateRevision' = stateRevision + 1
  /\ pendingModelChange' = FALSE
  /\ IF persistent
       THEN rowRevision' = stateRevision + 1 /\ rowNextTurn' = nextTurn
       ELSE UNCHANGED <<rowRevision, rowNextTurn>>
  /\ UNCHANGED <<processVars, open, nextTurn, checkpoint, rollbackFailed, admissionVars,
                 decisionVars, journalVars, finalVars, rowCheckpoint, executionVars, saved,
                 turns>>

\* The Core main thread runs one execution of a Session at a time.  It moves on
\* when Data answered with a terminal result or threw: an authorization whose
\* write failed, or a seal that met a failed journal.  An execution whose
\* admission threw it never had.
Abandoned(e) ==
  \/ authorization[e] # "none"
  \/ e \in journalSealed /\ e \in journalFailed
  \/ e \in unanswered

CoreIdle == \A e \in held : terminal[e] # "none" \/ Abandoned(e)

\* The first transaction of beginExecution: it creates the sessions row of a
\* new Session, then requires the row to be at the admission's base revision.
AdmissionAccepted ==
  persistent => IF pendingModelChange THEN MetadataWriteAccepted(stateRevision)
                                      ELSE rowRevision = stateRevision

SaveInitialSession ==
  IF persistent /\ pendingModelChange
    THEN rowRevision' = stateRevision /\ rowNextTurn' = nextTurn
    ELSE UNCHANGED <<rowRevision, rowNextTurn>>

InsertExecution(e) ==
  /\ row' = [row EXCEPT ![e] = "active"]
  /\ base' = [base EXCEPT ![e] = stateRevision]
  /\ turn' = [turn EXCEPT ![e] = nextTurn]

CanAdmit(e) ==
  /\ open
  /\ e \notin held
  /\ row[e] = "none"
  /\ CoreIdle
  /\ AdmissionAccepted

\* The rows are written, then the owner remembers the execution.
HoldExecution(e) ==
  /\ CanAdmit(e)
  /\ SaveInitialSession
  /\ InsertExecution(e)
  /\ held' = held \cup {e}
  /\ pendingModelChange' = IF persistent THEN FALSE ELSE pendingModelChange
  /\ UNCHANGED <<processVars, open, stateRevision, nextTurn, checkpoint, rollbackFailed,
                 decisionVars, journalVars, finalVars, rowCheckpoint, saved, turns>>

\* admit, answered.
Admit(e) == HoldExecution(e) /\ UNCHANGED unanswered

\* The last thing admit does is to read the execution's row.  If that throws,
\* the Core takes the execution for refused and never seals it, and the service
\* has no generation to receive its data from: the owner holds it undecided.
AdmitUnanswered(e) == HoldExecution(e) /\ unanswered' = unanswered \cup {e}

\* beginExecution is several transactions.  One that throws after the first
\* leaves a sessions row the authority still believes unwritten ...
AdmitFailsAfterSession(e) ==
  /\ CanAdmit(e)
  /\ persistent /\ pendingModelChange
  /\ SaveInitialSession
  /\ UNCHANGED <<processVars, open, sessionVars, admissionVars, decisionVars, journalVars,
                 finalVars, rowCheckpoint, executionVars, saved, turns>>

\* ... and one that throws later an active execution row nobody holds.
AdmitFailsAfterExecution(e) ==
  /\ CanAdmit(e)
  /\ SaveInitialSession
  /\ InsertExecution(e)
  /\ UNCHANGED <<processVars, open, sessionVars, admissionVars, decisionVars, journalVars,
                 finalVars, rowCheckpoint, saved, turns>>

-----------------------------------------------------------------------------
(* The journal.                                                            *)

\* What a flush of the journal can come to: nothing to write cannot fail.
FlushOutcomes(e) == IF durable[e] = received[e] THEN {"ok"} ELSE Outcomes

MutantFlushTo(e, s, outcome) ==
  /\ durable' = [durable EXCEPT ![e] = s]
  /\ saved' = IF outcome = "before" THEN saved ELSE [saved EXCEPT ![e] = s]
  /\ UNCHANGED journalFailed

\* flush of the buffered facts up to sequence s.
FlushTo(e, s, outcome) ==
  /\ durable' = IF outcome = "ok" THEN [durable EXCEPT ![e] = s] ELSE durable
  /\ saved' = IF outcome = "before" THEN saved ELSE [saved EXCEPT ![e] = s]
  /\ journalFailed' = IF outcome = "ok" THEN journalFailed ELSE journalFailed \cup {e}

\* ExecutionDataJournal.receive of the next message, an ordinary fact or the
\* turn's last one.  A full buffer is flushed at once; if that throws, the
\* endpoint never stores the proposal or the failure.
ReceiveData(e, kind, outcome) ==
  /\ open
  /\ e \in held \ (unanswered \cup journalSealed \cup journalFailed)
  /\ finalKind[e] = "none"
  /\ received[e] < MaxSequence
  /\ received' = [received EXCEPT ![e] = @ + 1]
  /\ IF received[e] + 1 - durable[e] >= BufferLimit
       THEN FlushTo(e, received[e] + 1, outcome)
       ELSE outcome = "ok" /\ UNCHANGED <<durable, saved, journalFailed>>
  /\ IF kind # "none" /\ outcome = "ok"
       THEN /\ finalKind' = [finalKind EXCEPT ![e] = kind]
            /\ finalSequence' = [finalSequence EXCEPT ![e] = received[e] + 1]
       ELSE UNCHANGED finalVars
  /\ UNCHANGED <<processVars, open, sessionVars, admissionVars, decisionVars, journalSealed,
                 rowVars, executionVars, turns>>

\* receive of a message whose sequence is not the next one.
ReceiveOutOfSequence(e) ==
  /\ open
  /\ e \in held \ (unanswered \cup journalSealed \cup journalFailed)
  /\ finalKind[e] = "none"
  /\ journalFailed' = journalFailed \cup {e}
  /\ UNCHANGED <<processVars, open, sessionVars, admissionVars, decisionVars, received,
                 durable, journalSealed, finalVars, storeVars>>

\* The 25 ms timer, and the flush that precedes every control fact.
FlushTimer(e, outcome) ==
  /\ open
  /\ e \in held \ journalFailed
  /\ durable[e] < received[e]
  /\ FlushTo(e, received[e], outcome)
  /\ UNCHANGED <<processVars, open, sessionVars, admissionVars, decisionVars, received,
                 journalSealed, finalVars, rowVars, executionVars, turns>>

-----------------------------------------------------------------------------
(* Settlement.                                                             *)

\* #recordTerminal keeps e as the only settled execution in memory.
RecordTerminal(e, result) ==
  /\ terminal' = [terminal EXCEPT ![e] = result]
  /\ held' = {d \in held : d = e \/ terminal[d] = "none"}
  /\ prepared' = prepared \ {e}

NoTerminal == UNCHANGED <<terminal, held, prepared>>

\* settleNonCanonicalExecution of an active row.
SettleRow(e, outcome) ==
  IF outcome = "before" THEN UNCHANGED row
                        ELSE row' = [row EXCEPT ![e] = "non_canonical"]

MutantUndecided(e) == e \in held /\ terminal[e] = "none"

\* The turn may still be decided: neither settled nor authorized.
Undecided(e) == e \in held /\ terminal[e] = "none" /\ authorization[e] = "none"

\* prepareProposal, from the moment the proposal's data message is here.  The
\* flush covers that message; only then is the journal sealed and the proposal
\* prepared, for the turn that follows the projection.
PrepareProposal(e, outcome) ==
  /\ open
  /\ Undecided(e)
  /\ finalKind[e] = "proposal"
  /\ e \notin journalFailed
  /\ outcome \in FlushOutcomes(e)
  /\ e \notin sealed
  /\ turn[e] = nextTurn
  /\ FlushTo(e, received[e], outcome)
  /\ IF outcome = "ok"
       THEN /\ journalSealed' = journalSealed \cup {e}
            /\ sealed' = sealed \cup {e}
            /\ prepared' = prepared \cup {e}
       ELSE UNCHANGED <<journalSealed, sealed, prepared>>
  /\ UNCHANGED <<processVars, open, sessionVars, admissionVars, authorization, terminal,
                 received, finalVars, rowVars, executionVars, turns>>

\* The conditions of commitCanonicalTurn on the sessions and executions rows.
CanonicalCommitAccepted(e) ==
  /\ row[e] = "active"
  /\ rowRevision = base[e]
  /\ rowNextTurn = turn[e]

MutantAdoptTurn(e) ==
  /\ row' = [row EXCEPT ![e] = "canonical"]
  /\ rowNextTurn' = turn[e] + 1
  /\ turns' = Append(turns, e)
  /\ UNCHANGED rowRevision

\* adoptCanonicalInTransaction: the turn, the execution's adoption and the
\* Session's revision and next turn in one transaction.
AdoptTurn(e) ==
  /\ row' = [row EXCEPT ![e] = "canonical"]
  /\ rowRevision' = base[e] + 1
  /\ rowNextTurn' = turn[e] + 1
  /\ turns' = Append(turns, e)

MutantApplyCommitted(e, outcome) ==
  /\ stateRevision' = base[e] + 1
  /\ nextTurn' = turn[e] + 1

\* applyCommitted: the projection advances if the store's write returned,
\* whatever becomes of the terminal result.
ApplyCommitted(e, outcome) ==
  IF outcome \in {"ok", "unread"}
    THEN stateRevision' = base[e] + 1 /\ nextTurn' = turn[e] + 1
    ELSE UNCHANGED <<stateRevision, nextTurn>>

\* authorizeCommit with an accepting decision.  The projection advances after
\* the store's transaction; an exception in between ("after") leaves it behind.
\* The terminal result is built last, from a read of the execution's row: if that
\* throws ("unread"), row and projection have moved.  Both leave the
\* authorization taken without a terminal result.
AuthorizeAccepted(e, outcome) ==
  /\ open
  /\ Undecided(e)
  /\ e \in prepared
  /\ persistent /\ ~CanonicalCommitAccepted(e) => outcome = "before"
  /\ authorization' = [authorization EXCEPT ![e] = "accepted"]
  /\ IF persistent /\ outcome # "before"
       THEN AdoptTurn(e)
       ELSE SettleRow(e, outcome) /\ UNCHANGED <<rowRevision, rowNextTurn, turns>>
  /\ ApplyCommitted(e, outcome)
  /\ IF outcome = "ok"
       THEN RecordTerminal(e, IF persistent THEN "canonical" ELSE "accepted")
       ELSE NoTerminal
  /\ UNCHANGED <<processVars, open, checkpoint, rollbackFailed, pendingModelChange,
                 unanswered, sealed, journalVars, finalVars, rowCheckpoint, base, turn, saved>>

\* authorizeCommit with a rejecting decision.  Here, and in the settlements below,
\* a terminal result that cannot be read is the same as "after".
AuthorizeRejected(e, outcome) ==
  /\ open
  /\ Undecided(e)
  /\ e \in prepared
  /\ authorization' = [authorization EXCEPT ![e] = "rejected"]
  /\ SettleRow(e, outcome)
  /\ IF outcome = "ok" THEN RecordTerminal(e, "non_canonical") ELSE NoTerminal
  /\ UNCHANGED <<processVars, open, sessionVars, unanswered, sealed, journalVars,
                 finalVars, rowVars, base, turn, saved, turns>>

\* settleFailure, from the moment the failure's data message is here.
SettleFailure(e, flushOutcome, outcome) ==
  /\ open
  /\ Undecided(e)
  /\ finalKind[e] = "failure"
  /\ e \notin journalFailed
  /\ e \notin sealed
  /\ flushOutcome \in FlushOutcomes(e)
  /\ FlushTo(e, received[e], flushOutcome)
  /\ IF flushOutcome = "ok"
       THEN /\ journalSealed' = journalSealed \cup {e}
            /\ sealed' = sealed \cup {e}
            /\ authorization' = [authorization EXCEPT ![e] = "rejected"]
            /\ SettleRow(e, outcome)
            /\ IF outcome = "ok" THEN RecordTerminal(e, "non_canonical") ELSE NoTerminal
       ELSE /\ outcome = "before"
            /\ UNCHANGED <<journalSealed, sealed, authorization, row>>
            /\ NoTerminal
  /\ UNCHANGED <<processVars, open, sessionVars, unanswered, received, finalVars, rowVars,
                 base, turn, turns>>

\* sealGeneration: the Core gives the execution up, at any time.  The journal
\* is sealed even if its flush throws; then nothing else happens, and every
\* later seal throws the journal's failure again.
SealGeneration(e, flushOutcome, outcome) ==
  /\ open
  /\ Undecided(e)
  /\ e \notin unanswered
  /\ journalSealed' = journalSealed \cup {e}
  /\ IF e \in journalFailed
       THEN flushOutcome = "before" /\ UNCHANGED <<durable, saved, journalFailed>>
       ELSE flushOutcome \in FlushOutcomes(e) /\ FlushTo(e, received[e], flushOutcome)
  /\ IF flushOutcome = "ok"
       THEN /\ sealed' = sealed \cup {e}
            /\ authorization' = [authorization EXCEPT ![e] = "rejected"]
            /\ SettleRow(e, outcome)
            /\ IF outcome = "ok" THEN RecordTerminal(e, "non_canonical") ELSE NoTerminal
       ELSE /\ outcome = "before"
            /\ UNCHANGED <<sealed, authorization, row>>
            /\ NoTerminal
  /\ UNCHANGED <<processVars, open, sessionVars, unanswered, received, finalVars, rowVars,
                 base, turn, turns>>

-----------------------------------------------------------------------------
(* Checkpoints, and closing the owner.                                     *)

MutantLeavesATurn(covered, completed) == covered >= 1 /\ covered <= completed

\* A checkpoint covers at least one completed turn and leaves at least one.
LeavesATurn(covered, completed) == covered >= 1 /\ covered < completed

\* installCheckpoint during a turn, over the turns the projection has completed.
InstallCheckpoint(covered) ==
  /\ open
  /\ \E e \in held \ unanswered : Undecided(e) /\ base[e] = stateRevision
  /\ LeavesATurn(covered, nextTurn - 1)
  /\ rowCheckpoint' = covered
  /\ checkpoint' = covered
  /\ rollbackFailed' = FALSE
  /\ UNCHANGED <<processVars, open, stateRevision, nextTurn, pendingModelChange,
                 admissionVars, decisionVars, journalVars, finalVars, rowRevision,
                 rowNextTurn, executionVars, saved, turns>>

MutantRestoredCheckpoint == rowCheckpoint

\* What the row is taken back to: the authority's checkpoint or, when that has
\* none, what the handle held before.
RestoredCheckpoint == IF checkpoint > 0 THEN checkpoint ELSE rowCheckpoint

\* installAfterTurnContext of the retained terminal execution.  The store takes
\* the checkpoint first.  If the hook's event is not appended ("before") it is
\* taken back; an exception there too ("after") leaves the store ahead of the
\* memory.  A detached handle's rollback cannot throw.
InstallAfterTurnContext(e, covered, outcome) ==
  /\ open
  /\ e \in held
  /\ terminal[e] \in {"canonical", "accepted"}
  /\ LeavesATurn(covered, turn[e])
  /\ outcome = "after" => persistent
  /\ rowCheckpoint' = IF outcome = "before" THEN RestoredCheckpoint ELSE covered
  /\ checkpoint' = IF outcome = "ok" THEN covered ELSE checkpoint
  /\ rollbackFailed' = CASE outcome = "ok" -> FALSE
                        [] outcome = "after" -> TRUE
                        [] outcome = "before" -> rollbackFailed /\ checkpoint = 0
  /\ UNCHANGED <<processVars, open, stateRevision, nextTurn, pendingModelChange,
                 admissionVars, decisionVars, journalVars, finalVars, rowRevision,
                 rowNextTurn, executionVars, saved, turns>>

\* close: the journals of undecided executions are sealed, those in flushed
\* reach the store, and the owner and its memory are gone.  Rows stay active.
CloseOwner(flushed) ==
  /\ open
  /\ flushed \subseteq {e \in held \ journalFailed : Undecided(e)}
  /\ saved' = [e \in Executions |-> IF e \in flushed THEN received[e] ELSE saved[e]]
  /\ ForgetExecutions
  /\ ForgetSession
  /\ UNCHANGED <<processVars, finalVars, rowRevision, rowNextTurn, executionVars, turns>>

-----------------------------------------------------------------------------
Lifecycle ==
  \/ Crash
  \/ Boot
  \/ FinishInitialize
  \/ \E e \in Executions : ReconcileExecution(e)
  \/ OpenOwner
  \/ \E flushed \in SUBSET held : CloseOwner(flushed)

Admission ==
  \/ UpdateMetadata
  \/ \E e \in Executions : \/ Admit(e)
                           \/ AdmitUnanswered(e)
                           \/ AdmitFailsAfterSession(e)
                           \/ AdmitFailsAfterExecution(e)

Journal ==
  \E e \in Executions :
    \/ \E kind \in {"none", "proposal", "failure"}, outcome \in Outcomes :
         ReceiveData(e, kind, outcome)
    \/ ReceiveOutOfSequence(e)
    \/ \E outcome \in Outcomes : FlushTimer(e, outcome)

Settlement ==
  \E e \in Executions, outcome \in Outcomes :
    \/ PrepareProposal(e, outcome)
    \/ \E commitOutcome \in CommitOutcomes : AuthorizeAccepted(e, commitOutcome)
    \/ AuthorizeRejected(e, outcome)
    \/ \E flushOutcome \in Outcomes : \/ SettleFailure(e, flushOutcome, outcome)
                                      \/ SealGeneration(e, flushOutcome, outcome)

Checkpointing ==
  \E covered \in 1 .. nextTurn :
    \/ InstallCheckpoint(covered)
    \/ \E e \in Executions, outcome \in Outcomes :
         InstallAfterTurnContext(e, covered, outcome)

Next == Lifecycle \/ Admission \/ Journal \/ Settlement \/ Checkpointing

\* A host restarts its Data Worker and store initialization runs to its end.
Fairness ==
  /\ WF_vars(Boot)
  /\ WF_vars(\E e \in Executions : ReconcileExecution(e))

Spec == Init /\ [][Next]_vars

FairSpec == Spec /\ Fairness

-----------------------------------------------------------------------------
(* Properties.                                                             *)

\* The session_turns log is the conversation: entry i is a canonical execution
\* admitted for turn i, no canonical execution is missing from it, the log's
\* base revisions grow, and the sessions row points at the turn after the last.
TurnLogConsistent ==
  /\ \A i \in 1 .. Len(turns) : row[turns[i]] = "canonical" /\ turn[turns[i]] = i
  /\ \A e \in Executions : row[e] = "canonical" => turn[e] \in 1 .. Len(turns) /\ turns[turn[e]] = e
  /\ \A i, j \in 1 .. Len(turns) : i < j => base[turns[i]] < base[turns[j]]
  /\ rowNextTurn = Len(turns) + 1

\* A commit whose exception came after the transaction: the row is canonical and
\* the owner has an authorization without a terminal result.
LostCommit ==
  \E e \in held : row[e] = "canonical" /\ terminal[e] = "none"

\* The projection every later admission and commit is judged by is the sessions
\* row, unless a commit was lost; it never runs ahead of the row.
MemoryFollowsStore ==
  persistent /\ open =>
    \/ rowRevision = 0 /\ stateRevision = 1 /\ nextTurn = 1
    \/ rowRevision = stateRevision /\ rowNextTurn = nextTurn
    \/ LostCommit /\ stateRevision < rowRevision /\ nextTurn < rowNextTurn

\* The result the owner answers with is the row's: a terminal result, once
\* given, agrees with the adoption stored, and an execution that can still be
\* decided has an active row to settle.
TerminalMatchesRow ==
  \A e \in held :
    /\ terminal[e] = "canonical" => row[e] = "canonical"
    /\ terminal[e] \in {"accepted", "non_canonical"} => row[e] = "non_canonical"
    /\ Undecided(e) => row[e] = "active"
    /\ row[e] = "canonical" => authorization[e] = "accepted"

\* What else the owner and the store rely on: an execution's base revision is a
\* revision the Session has reached and a canonical one's has been left behind, a
\* detached Session stores no conversation, a closed owner holds nothing, and the
\* owner is open only while the store is published.
RevisionsBehindRow ==
  /\ \A e \in Executions : row[e] # "none" => base[e] >= 1
  /\ \A i \in 1 .. Len(turns) : base[turns[i]] < rowRevision
  /\ ~persistent => turns = << >> /\ rowRevision = 0 /\ rowNextTurn = 1

OwnerFresh ==
  /\ stateRevision >= 1
  /\ ~open => held = {} /\ stateRevision = 1 /\ nextTurn = 1
  /\ phase # "up" => ~open
  /\ \A e \in Executions : row[e] = "none" => terminal[e] = "none"

\* The inductive invariant: the log, the projection and the terminal results
\* cannot be shown to survive a step without one another.
SessionInvariant ==
  /\ TypeOK
  /\ TurnLogConsistent
  /\ RevisionsBehindRow
  /\ MemoryFollowsStore
  /\ OwnerFresh
  /\ TerminalMatchesRow

\* A turn is adopted only with the whole evidence the Agent sent before its
\* proposal saved, although nothing flushes the journal at the commit itself.
AdoptedEvidenceComplete ==
  \A e \in Executions :
    /\ row[e] = "canonical" \/ terminal[e] = "accepted" =>
         finalKind[e] = "proposal" /\ saved[e] = finalSequence[e]
    /\ e \in held => durable[e] <= saved[e] /\ saved[e] <= received[e]

\* A checkpoint, in memory or in the row, covers turns of the log and always
\* leaves one complete turn to be replayed in full; and the row holds the
\* checkpoint the memory believes in, also after one was taken back, unless
\* taking it back has failed.
CheckpointCoversHistory ==
  persistent =>
    /\ rowCheckpoint > 0 => rowCheckpoint < Len(turns)
    /\ checkpoint > 0 => checkpoint < Len(turns)
    /\ open => rowCheckpoint = checkpoint \/ rollbackFailed

\* Memory is bounded: at most one settled execution is retained, and no
\* prepared proposal outlives the settlement of its execution.
OneTerminalRetained ==
  /\ \A d, e \in held : terminal[d] # "none" /\ terminal[e] # "none" => d = e
  /\ \A e \in prepared : terminal[e] = "none"

\* What the journal and the owner leave behind of a settled execution: its whole
\* evidence in the store (the flush before the proposal), itself alone in memory
\* (recordTerminal).
SettledIsSavedAndReleased == AdoptedEvidenceComplete /\ OneTerminalRetained

\* The projection moves to the next turn only in the step that accepts an
\* undecided execution admitted for exactly this turn and settles its row, as the
\* log's next turn unless the Session is detached, and then by one turn and one
\* revision: applyCommitted never overwrites a metadata revision that was applied
\* after the admission whose base it counts from, and never runs ahead of the row.
ProjectionAdvancesWithTurn ==
  [][open /\ open' /\ nextTurn' # nextTurn =>
       /\ nextTurn' = nextTurn + 1
       /\ stateRevision' = stateRevision + 1
       /\ \E e \in held : /\ Undecided(e)
                          /\ turn[e] = nextTurn
                          /\ authorization'[e] = "accepted"
                          /\ row[e] = "active"
                          /\ IF persistent
                               THEN row'[e] = "canonical" /\ turns' = Append(turns, e)
                               ELSE row'[e] = "non_canonical"]_vars

\* A decision is final: what authorizeCommit, settleFailure or sealGeneration
\* took as the authorization of an execution no later call replaces, whatever
\* races with it, for as long as the owner holds the execution.
DecisionIsFinal ==
  [][\A e \in held \cap held' :
       authorization[e] # "none" => /\ authorization'[e] = authorization[e]
                                    /\ terminal[e] # "none" => terminal'[e] = terminal[e]]_vars

\* The rows implement the abstract history: every method of the owner, faults and
\* crashes included, is one admission, one settlement, one metadata write of the
\* Session, or nothing at all.
History == INSTANCE SessionHistory WITH status <- row, log <- turns, revision <- rowRevision

ImplementsHistory == History!Spec

\* An execution that a crash left active is settled by the restart.
RestartSettles ==
  \A e \in Executions : (phase = "down" /\ row[e] = "active") ~> row[e] = "non_canonical"

=============================================================================
