-------------------------- MODULE DataSession_proofs --------------------------
(***************************************************************************)
(* Proofs about the two ends of a turn's settlement: DataSession, for any  *)
(* set of executions and any bounds, and then ExecutionCoordinator, for    *)
(* any number of turns: what a turn leaves behind, who may wait for whom,  *)
(* and what may commit.  The two modules share no variable.                *)
(***************************************************************************)
EXTENDS DataSession, ExecutionCoordinator, TLAPS

-----------------------------------------------------------------------------
(* Type correctness.                                                       *)

\* A step that leaves the variables of a part of TypeOK alone keeps that part.
LEMMA UnchangedTypes ==
  ASSUME TypeOK
  PROVE  /\ UNCHANGED <<phase, crashes, persistent, open>> => ProcessTypeOK'
         /\ UNCHANGED <<sessionVars>> => SessionTypeOK'
         /\ UNCHANGED <<admissionVars, decisionVars>> => DecisionTypeOK'
         /\ UNCHANGED <<journalVars, saved>> => JournalTypeOK'
         /\ UNCHANGED <<finalVars>> => FinalTypeOK'
         /\ UNCHANGED <<rowVars, turns>> => RowTypeOK'
         /\ UNCHANGED <<executionVars>> => ExecutionTypeOK'
BY DEF TypeOK, ProcessTypeOK, SessionTypeOK, DecisionTypeOK, JournalTypeOK, FinalTypeOK,
       RowTypeOK, ExecutionTypeOK, sessionVars, admissionVars, decisionVars, journalVars, finalVars,
       rowVars, executionVars

\* A flush, whatever its outcome, leaves the journal's cursors and the saved
\* sequence well typed.
LEMMA FlushToType ==
  ASSUME JournalTypeOK, NEW e \in Executions, NEW s \in Nat, NEW outcome,
         FlushTo(e, s, outcome)
  PROVE  /\ durable' \in [Executions -> Nat]
         /\ saved' \in [Executions -> Nat]
         /\ journalFailed' \in SUBSET Executions
BY DEF JournalTypeOK, FlushTo

\* Settling a row as non-canonical keeps the rows well typed.
LEMMA SettleRowType ==
  ASSUME ExecutionTypeOK, NEW e \in Executions, NEW outcome, SettleRow(e, outcome)
  PROVE  row' \in [Executions -> RowStates]
BY DEF ExecutionTypeOK, SettleRow, RowStates

\* Recording a terminal result, or none, keeps the owner's map well typed.
LEMMA RecordTerminalType ==
  ASSUME DecisionTypeOK, NEW e \in Executions,
         NEW result \in {"accepted", "canonical", "non_canonical"},
         RecordTerminal(e, result) \/ NoTerminal
  PROVE  /\ terminal' \in [Executions -> {"none", "accepted", "canonical", "non_canonical"}]
         /\ held' \in SUBSET Executions
         /\ prepared' \in SUBSET Executions
BY DEF DecisionTypeOK, RecordTerminal, NoTerminal

\* Forgetting everything about the executions is well typed; the sequence saved
\* in the store is not forgotten.
LEMMA ForgetExecutionsType ==
  ASSUME ForgetExecutions, saved' \in [Executions -> Nat]
  PROVE  DecisionTypeOK' /\ JournalTypeOK'
BY DEF ForgetExecutions, DecisionTypeOK, JournalTypeOK

\* No method of the owner, fault or crash leaves a variable outside its type.
THEOREM TypeCorrect == Spec => []TypeOK
<1>1. Init => TypeOK
  <2> SUFFICES ASSUME Init PROVE TypeOK
    OBVIOUS
  <2>1. ProcessTypeOK
    BY DEF Init, ProcessTypeOK
  <2>2. SessionTypeOK
    BY DEF Init, SessionTypeOK
  <2>3. DecisionTypeOK
    BY DEF Init, DecisionTypeOK
  <2>4. JournalTypeOK
    BY DEF Init, JournalTypeOK
  <2>5. FinalTypeOK
    BY DEF Init, FinalTypeOK
  <2>6. RowTypeOK
    BY DEF Init, RowTypeOK
  <2>7. ExecutionTypeOK
    BY DEF Init, ExecutionTypeOK, RowStates
  <2>8. QED
    BY <2>1, <2>2, <2>3, <2>4, <2>5, <2>6, <2>7 DEF TypeOK
<1>2. TypeOK /\ [Next]_vars => TypeOK'
  <2> SUFFICES ASSUME TypeOK, [Next]_vars PROVE TypeOK'
    OBVIOUS
  <2> USE DEF TypeOK, sessionVars, admissionVars, decisionVars, journalVars, finalVars, processVars,
              rowVars, executionVars, storeVars
  <2>1. CASE Crash
    <3>1. ProcessTypeOK'
      <4>1. phase' \in {"down", "booting", "up"} /\ open' \in BOOLEAN
        BY <2>1, Zenon DEF Crash, ForgetSession
      <4>2. crashes' \in Nat
        BY <2>1 DEF Crash, ProcessTypeOK
      <4>3. persistent' \in BOOLEAN
        BY <2>1, Zenon DEF Crash, ProcessTypeOK
      <4>4. QED
        BY <4>1, <4>2, <4>3 DEF ProcessTypeOK
    <3>2. SessionTypeOK'
      BY <2>1 DEF Crash, ForgetSession, SessionTypeOK
    <3>3. DecisionTypeOK' /\ JournalTypeOK'
      BY <2>1, ForgetExecutionsType DEF Crash, JournalTypeOK
    <3>4. RowTypeOK'
      BY <2>1 DEF Crash, ForgetSession, RowTypeOK
    <3>5. QED
      BY <2>1, <3>1, <3>2, <3>3, <3>4, UnchangedTypes DEF Crash
  <2>2. CASE Boot
    <3>1. ProcessTypeOK'
      BY <2>2 DEF Boot, ProcessTypeOK
    <3>2. QED
      BY <2>2, <3>1, UnchangedTypes DEF Boot
  <2>3. CASE FinishInitialize
    <3>1. ProcessTypeOK'
      BY <2>3 DEF FinishInitialize, ProcessTypeOK
    <3>2. QED
      BY <2>3, <3>1, UnchangedTypes DEF FinishInitialize
  <2>4. ASSUME NEW e \in Executions,
                ReconcileExecution(e)
         PROVE  TypeOK'
    <3>1. ExecutionTypeOK'
      BY <2>4 DEF ReconcileExecution, ExecutionTypeOK, RowStates
    <3>2. QED
      BY <2>4, <3>1, UnchangedTypes DEF ReconcileExecution
  <2>5. CASE OpenOwner
    <3>1. ProcessTypeOK'
      BY <2>5 DEF OpenOwner, ProcessTypeOK
    <3>2. SessionTypeOK'
      BY <2>5 DEF OpenOwner, SessionTypeOK, RowTypeOK
    <3>3. QED
      BY <2>5, <3>1, <3>2, UnchangedTypes DEF OpenOwner
  <2>6. ASSUME NEW flushed \in SUBSET held,
                CloseOwner(flushed)
         PROVE  TypeOK'
    <3>1. ProcessTypeOK'
      BY <2>6 DEF CloseOwner, ForgetSession, ProcessTypeOK
    <3>2. SessionTypeOK'
      BY <2>6 DEF CloseOwner, ForgetSession, SessionTypeOK
    <3>3. DecisionTypeOK' /\ JournalTypeOK'
      BY <2>6, ForgetExecutionsType DEF CloseOwner, JournalTypeOK
    <3>4. RowTypeOK'
      BY <2>6 DEF CloseOwner, ForgetSession, RowTypeOK
    <3>5. QED
      BY <2>6, <3>1, <3>2, <3>3, <3>4, UnchangedTypes DEF CloseOwner
  <2>7. CASE UpdateMetadata
    <3>1. SessionTypeOK'
      <4>1. pendingModelChange' \in BOOLEAN /\ rollbackFailed' \in BOOLEAN
        BY <2>7, Zenon DEF UpdateMetadata, SessionTypeOK
      <4>2. stateRevision' \in Nat /\ nextTurn' \in Nat /\ checkpoint' \in Nat
        BY <2>7 DEF UpdateMetadata, SessionTypeOK
      <4>3. QED
        BY <4>1, <4>2 DEF SessionTypeOK
    <3>2. RowTypeOK'
      BY <2>7 DEF UpdateMetadata, RowTypeOK, SessionTypeOK
    <3>3. QED
      BY <2>7, <3>1, <3>2, UnchangedTypes DEF UpdateMetadata
  <2>8. ASSUME NEW e \in Executions,
                Admit(e) \/ AdmitUnanswered(e)
         PROVE  TypeOK'
    <3>1. SessionTypeOK'
      BY <2>8 DEF Admit, AdmitUnanswered, HoldExecution, SessionTypeOK
    <3>2. DecisionTypeOK'
      BY <2>8 DEF Admit, AdmitUnanswered, HoldExecution, DecisionTypeOK
    <3>3. RowTypeOK'
      BY <2>8 DEF Admit, AdmitUnanswered, HoldExecution, SaveInitialSession, RowTypeOK, SessionTypeOK
    <3>4. ExecutionTypeOK'
      BY <2>8 DEF Admit, AdmitUnanswered, HoldExecution, InsertExecution, ExecutionTypeOK,
              SessionTypeOK, RowStates
    <3>5. QED
      BY <2>8, <3>1, <3>2, <3>3, <3>4, UnchangedTypes DEF Admit, AdmitUnanswered, HoldExecution
  <2>9. ASSUME NEW e \in Executions,
                AdmitFailsAfterSession(e)
         PROVE  TypeOK'
    <3>1. RowTypeOK'
      BY <2>9 DEF AdmitFailsAfterSession, SaveInitialSession, RowTypeOK, SessionTypeOK
    <3>2. QED
      BY <2>9, <3>1, UnchangedTypes DEF AdmitFailsAfterSession
  <2>10. ASSUME NEW e \in Executions,
                AdmitFailsAfterExecution(e)
         PROVE  TypeOK'
    <3>1. RowTypeOK'
      BY <2>10 DEF AdmitFailsAfterExecution, SaveInitialSession, RowTypeOK, SessionTypeOK
    <3>2. ExecutionTypeOK'
      BY <2>10 DEF AdmitFailsAfterExecution, InsertExecution, ExecutionTypeOK, SessionTypeOK,
                  RowStates
    <3>3. QED
      BY <2>10, <3>1, <3>2, UnchangedTypes DEF AdmitFailsAfterExecution
  <2>11. ASSUME NEW e \in Executions, NEW kind \in {"none", "proposal", "failure"},
                NEW outcome \in Outcomes,
                ReceiveData(e, kind, outcome)
         PROVE  TypeOK'
    <3>1. JournalTypeOK'
      <4>1. received[e] + 1 \in Nat /\ received' \in [Executions -> Nat]
        BY <2>11 DEF ReceiveData, JournalTypeOK
      <4>2. CASE FlushTo(e, received[e] + 1, outcome)
        BY <2>11, <4>1, <4>2, FlushToType DEF ReceiveData, JournalTypeOK
      <4>3. CASE UNCHANGED <<durable, saved, journalFailed>>
        BY <2>11, <4>1, <4>3 DEF ReceiveData, JournalTypeOK
      <4>4. QED
        BY <2>11, <4>2, <4>3 DEF ReceiveData
    <3>2. FinalTypeOK'
      BY <2>11 DEF ReceiveData, FinalTypeOK, JournalTypeOK
    <3>3. QED
      BY <2>11, <3>1, <3>2, UnchangedTypes DEF ReceiveData
  <2>12. ASSUME NEW e \in Executions,
                ReceiveOutOfSequence(e)
         PROVE  TypeOK'
    <3>1. JournalTypeOK'
      BY <2>12 DEF ReceiveOutOfSequence, JournalTypeOK
    <3>2. QED
      BY <2>12, <3>1, UnchangedTypes DEF ReceiveOutOfSequence
  <2>13. ASSUME NEW e \in Executions, NEW outcome \in Outcomes,
                FlushTimer(e, outcome)
         PROVE  TypeOK'
    <3>1. JournalTypeOK'
      BY <2>13, FlushToType, received[e] \in Nat DEF FlushTimer, JournalTypeOK
    <3>2. QED
      BY <2>13, <3>1, UnchangedTypes DEF FlushTimer
  <2>14. ASSUME NEW e \in Executions, NEW outcome \in Outcomes,
                PrepareProposal(e, outcome)
         PROVE  TypeOK'
    <3>1. DecisionTypeOK'
      BY <2>14 DEF PrepareProposal, DecisionTypeOK
    <3>2. JournalTypeOK'
      BY <2>14, FlushToType, received[e] \in Nat DEF PrepareProposal, JournalTypeOK
    <3>3. QED
      BY <2>14, <3>1, <3>2, UnchangedTypes DEF PrepareProposal
  <2>15. ASSUME NEW e \in Executions, NEW outcome \in CommitOutcomes,
                AuthorizeAccepted(e, outcome)
         PROVE  TypeOK'
    <3>1. SessionTypeOK'
      BY <2>15 DEF AuthorizeAccepted, ApplyCommitted, SessionTypeOK, ExecutionTypeOK
    <3>2. DecisionTypeOK'
      BY <2>15, RecordTerminalType DEF AuthorizeAccepted, DecisionTypeOK
    <3>3. RowTypeOK'
      <4>1. CASE AdoptTurn(e)
        BY <2>15, <4>1 DEF AuthorizeAccepted, AdoptTurn, RowTypeOK, ExecutionTypeOK
      <4>2. CASE UNCHANGED <<rowRevision, rowNextTurn, turns>>
        BY <2>15, <4>2 DEF AuthorizeAccepted, RowTypeOK
      <4>3. QED
        BY <2>15, <4>1, <4>2 DEF AuthorizeAccepted
    <3>4. ExecutionTypeOK'
      BY <2>15, SettleRowType DEF AuthorizeAccepted, AdoptTurn, ExecutionTypeOK, RowStates
    <3>5. QED
      BY <2>15, <3>1, <3>2, <3>3, <3>4, UnchangedTypes DEF AuthorizeAccepted
  <2>16. ASSUME NEW e \in Executions, NEW outcome \in Outcomes,
                AuthorizeRejected(e, outcome)
         PROVE  TypeOK'
    <3>1. DecisionTypeOK'
      BY <2>16, RecordTerminalType DEF AuthorizeRejected, DecisionTypeOK
    <3>2. ExecutionTypeOK'
      BY <2>16, SettleRowType DEF AuthorizeRejected, ExecutionTypeOK
    <3>3. QED
      BY <2>16, <3>1, <3>2, UnchangedTypes DEF AuthorizeRejected
  <2>17. ASSUME NEW e \in Executions, NEW outcome \in Outcomes, NEW flushOutcome \in Outcomes,
                SettleFailure(e, flushOutcome, outcome)
         PROVE  TypeOK'
    <3>1. DecisionTypeOK'
      BY <2>17, RecordTerminalType DEF SettleFailure, DecisionTypeOK
    <3>2. JournalTypeOK'
      BY <2>17, FlushToType, received[e] \in Nat DEF SettleFailure, JournalTypeOK
    <3>3. ExecutionTypeOK'
      BY <2>17, SettleRowType DEF SettleFailure, ExecutionTypeOK
    <3>4. QED
      BY <2>17, <3>1, <3>2, <3>3, UnchangedTypes DEF SettleFailure
  <2>18. ASSUME NEW e \in Executions, NEW outcome \in Outcomes, NEW flushOutcome \in Outcomes,
                SealGeneration(e, flushOutcome, outcome)
         PROVE  TypeOK'
    <3>1. DecisionTypeOK'
      BY <2>18, RecordTerminalType DEF SealGeneration, DecisionTypeOK
    <3>2. JournalTypeOK'
      BY <2>18, FlushToType, received[e] \in Nat DEF SealGeneration, JournalTypeOK
    <3>3. ExecutionTypeOK'
      BY <2>18, SettleRowType DEF SealGeneration, ExecutionTypeOK
    <3>4. QED
      BY <2>18, <3>1, <3>2, <3>3, UnchangedTypes DEF SealGeneration
  <2>19. ASSUME NEW covered \in 1 .. nextTurn,
                InstallCheckpoint(covered)
         PROVE  TypeOK'
    <3>1. SessionTypeOK'
      <4>1. pendingModelChange' \in BOOLEAN /\ rollbackFailed' \in BOOLEAN
        BY <2>19, Zenon DEF InstallCheckpoint, SessionTypeOK
      <4>2. stateRevision' \in Nat /\ nextTurn' \in Nat /\ checkpoint' \in Nat
        BY <2>19 DEF InstallCheckpoint, SessionTypeOK
      <4>3. QED
        BY <4>1, <4>2 DEF SessionTypeOK
    <3>2. RowTypeOK'
      BY <2>19 DEF InstallCheckpoint, RowTypeOK
    <3>3. QED
      BY <2>19, <3>1, <3>2, UnchangedTypes DEF InstallCheckpoint
  <2>20. ASSUME NEW covered \in 1 .. nextTurn, NEW e \in Executions, NEW outcome \in Outcomes,
                InstallAfterTurnContext(e, covered, outcome)
         PROVE  TypeOK'
    <3>1. SessionTypeOK'
      <4>1. pendingModelChange' \in BOOLEAN
        BY <2>20, Zenon DEF InstallAfterTurnContext, SessionTypeOK
      <4>2. rollbackFailed' \in BOOLEAN
        BY <2>20 DEF InstallAfterTurnContext, SessionTypeOK, Outcomes
      <4>3. stateRevision' \in Nat /\ nextTurn' \in Nat /\ checkpoint' \in Nat
        BY <2>20 DEF InstallAfterTurnContext, SessionTypeOK
      <4>4. QED
        BY <4>1, <4>2, <4>3 DEF SessionTypeOK
    <3>2. RowTypeOK'
      BY <2>20 DEF InstallAfterTurnContext, RestoredCheckpoint, RowTypeOK, SessionTypeOK
    <3>3. QED
      BY <2>20, <3>1, <3>2, UnchangedTypes DEF InstallAfterTurnContext
  <2>21. CASE UNCHANGED vars
    BY <2>21, UnchangedTypes DEF vars
  <2>22. QED
    BY <2>1, <2>2, <2>3, <2>4, <2>5, <2>6, <2>7, <2>8, <2>9, <2>10, <2>11, <2>12, <2>13,
       <2>14, <2>15, <2>16, <2>17, <2>18, <2>19, <2>20, <2>21
       DEF Next, Lifecycle, Admission, Journal, Settlement, Checkpointing
<1>3. QED
  BY <1>1, <1>2, PTL DEF Spec

-----------------------------------------------------------------------------
(* The kinds of steps, as far as the safety properties can tell them apart. *)

\* What the properties below are about.
observed == <<phase, open, stateRevision, nextTurn, held, authorization, terminal,
              rowRevision, rowNextTurn, row, base, turn, turns>>

\* The owner is gone, by close or by a crash.
Forgets ==
  /\ open' = FALSE
  /\ stateRevision' = 1
  /\ nextTurn' = 1
  /\ held' = {}
  /\ terminal' = [e \in Executions |-> "none"]
  /\ UNCHANGED <<rowRevision, rowNextTurn, row, base, turn, turns>>

\* Initialization begins or ends.
Initializes ==
  /\ phase # "up"
  /\ UNCHANGED <<open, stateRevision, nextTurn, held, authorization, terminal,
                 rowRevision, rowNextTurn, row, base, turn, turns>>

\* An admission, complete or cut short by an exception.
Begins(e) ==
  /\ open
  /\ e \notin held
  /\ row[e] = "none"
  /\ AdmissionAccepted
  /\ SaveInitialSession
  /\ \/ UNCHANGED <<row, base, turn, held>>
     \/ InsertExecution(e) /\ held' \in {held, held \cup {e}}
  /\ UNCHANGED <<phase, open, stateRevision, nextTurn, authorization, terminal, turns>>

\* A decision against an execution that could still be decided.
Rejects(e) ==
  /\ open
  /\ Undecided(e)
  /\ \/ UNCHANGED <<row, authorization, terminal, held>>
     \/ /\ authorization' = [authorization EXCEPT ![e] = "rejected"]
        /\ \/ UNCHANGED <<row, terminal, held>>
           \/ /\ row' = [row EXCEPT ![e] = "non_canonical"]
              /\ UNCHANGED <<terminal, held>>
           \/ /\ row' = [row EXCEPT ![e] = "non_canonical"]
              /\ terminal' = [terminal EXCEPT ![e] = "non_canonical"]
              /\ held' = {d \in held : d = e \/ terminal[d] = "none"}
  /\ UNCHANGED <<phase, open, stateRevision, nextTurn, rowRevision, rowNextTurn, base,
                 turn, turns>>

\* The decision for an execution, with the three outcomes of its transaction.
Accepts(e) ==
  /\ open
  /\ Undecided(e)
  /\ authorization' = [authorization EXCEPT ![e] = "accepted"]
  /\ \/ UNCHANGED <<row, rowRevision, rowNextTurn, turns, stateRevision, nextTurn,
                    terminal, held>>
     \/ /\ IF persistent
             THEN CanonicalCommitAccepted(e) /\ AdoptTurn(e)
             ELSE /\ row' = [row EXCEPT ![e] = "non_canonical"]
                  /\ UNCHANGED <<rowRevision, rowNextTurn, turns>>
        /\ \/ UNCHANGED <<stateRevision, nextTurn, terminal, held>>
           \/ /\ stateRevision' = base[e] + 1
              /\ nextTurn' = turn[e] + 1
              /\ UNCHANGED <<terminal, held>>
           \/ /\ stateRevision' = base[e] + 1
              /\ nextTurn' = turn[e] + 1
              /\ terminal' = [terminal EXCEPT ![e] = IF persistent THEN "canonical"
                                                                   ELSE "accepted"]
              /\ held' = {d \in held : d = e \/ terminal[d] = "none"}
  /\ UNCHANGED <<phase, open, base, turn>>

\* A Session stays persistent or detached.
LEMMA KindIsFixed ==
  ASSUME [Next]_vars
  PROVE  persistent' = persistent
<1> USE DEF processVars
<1>1. CASE Lifecycle
  BY <1>1 DEF Lifecycle, Crash, Boot, FinishInitialize, ReconcileExecution, OpenOwner, CloseOwner
<1>2. CASE Admission
  BY <1>2 DEF Admission, UpdateMetadata, Admit, AdmitUnanswered, HoldExecution,
              AdmitFailsAfterSession, AdmitFailsAfterExecution
<1>3. CASE Journal
  BY <1>3 DEF Journal, ReceiveData, ReceiveOutOfSequence, FlushTimer
<1>4. CASE Settlement
  BY <1>4 DEF Settlement, PrepareProposal, AuthorizeAccepted, AuthorizeRejected, SettleFailure,
              SealGeneration
<1>5. CASE Checkpointing
  BY <1>5 DEF Checkpointing, InstallCheckpoint, InstallAfterTurnContext
<1>6. CASE UNCHANGED vars
  BY <1>6 DEF vars
<1>7. QED
  BY <1>1, <1>2, <1>3, <1>4, <1>5, <1>6 DEF Next

\* Every step is of one of these kinds.
LEMMA StepKinds ==
  ASSUME [Next]_vars
  PROVE  \/ UNCHANGED observed
         \/ Forgets
         \/ Initializes
         \/ \E e \in Executions : ReconcileExecution(e)
         \/ OpenOwner
         \/ UpdateMetadata
         \/ \E e \in Executions : Begins(e)
         \/ \E e \in Executions : Rejects(e)
         \/ \E e \in Executions : Accepts(e)
<1> USE DEF sessionVars, admissionVars, decisionVars, journalVars, finalVars, processVars, rowVars,
            executionVars, storeVars
<1>1. ASSUME Crash \/ \E flushed \in SUBSET held : CloseOwner(flushed) PROVE Forgets
  BY <1>1 DEF Crash, CloseOwner, Forgets, ForgetExecutions, ForgetSession
<1>2. ASSUME Boot \/ FinishInitialize PROVE Initializes
  BY <1>2 DEF Boot, FinishInitialize, Initializes
<1>3. ASSUME NEW e \in Executions,
             \/ Admit(e) \/ AdmitUnanswered(e)
             \/ AdmitFailsAfterSession(e) \/ AdmitFailsAfterExecution(e)
      PROVE  Begins(e)
  BY <1>3 DEF Admit, AdmitUnanswered, HoldExecution, AdmitFailsAfterSession,
              AdmitFailsAfterExecution, Begins, CanAdmit
<1>4. ASSUME Journal PROVE UNCHANGED observed
  BY <1>4 DEF Journal, ReceiveData, ReceiveOutOfSequence, FlushTimer, FlushTo, observed
<1>5. ASSUME Checkpointing PROVE UNCHANGED observed
  BY <1>5 DEF Checkpointing, InstallCheckpoint, InstallAfterTurnContext, observed
<1>6. ASSUME NEW e \in Executions, NEW outcome \in Outcomes, PrepareProposal(e, outcome)
      PROVE  UNCHANGED observed
  BY <1>6 DEF PrepareProposal, observed
<1>7. ASSUME NEW e \in Executions, NEW outcome \in CommitOutcomes, AuthorizeAccepted(e, outcome)
      PROVE  Accepts(e)
  BY <1>7 DEF AuthorizeAccepted, Accepts, SettleRow, ApplyCommitted, RecordTerminal,
              NoTerminal, Outcomes, CommitOutcomes
<1>8. ASSUME NEW e \in Executions, NEW outcome \in Outcomes, AuthorizeRejected(e, outcome)
      PROVE  Rejects(e)
  BY <1>8 DEF AuthorizeRejected, Rejects, SettleRow, RecordTerminal, NoTerminal, Outcomes
<1>9. ASSUME NEW e \in Executions, NEW outcome \in Outcomes, NEW flushOutcome \in Outcomes,
             SettleFailure(e, flushOutcome, outcome) \/ SealGeneration(e, flushOutcome, outcome)
      PROVE  Rejects(e)
  <2>1. CASE SettleFailure(e, flushOutcome, outcome)
    BY <2>1 DEF SettleFailure, Rejects, SettleRow, RecordTerminal, NoTerminal, Outcomes
  <2>2. CASE SealGeneration(e, flushOutcome, outcome)
    BY <2>2 DEF SealGeneration, Rejects, SettleRow, RecordTerminal, NoTerminal, Outcomes
  <2>3. QED
    BY <1>9, <2>1, <2>2
<1>10. CASE UNCHANGED vars
  BY <1>10 DEF vars, observed
<1>11. QED
  BY <1>1, <1>2, <1>3, <1>4, <1>5, <1>6, <1>7, <1>8, <1>9, <1>10
     DEF Next, Lifecycle, Admission, Settlement

-----------------------------------------------------------------------------
(* The inductive invariant.                                                *)

\* A Session without a row has no conversation.
LEMMA EmptyLog ==
  ASSUME SessionInvariant, rowRevision = 0
  PROVE  turns = << >> /\ rowNextTurn = 1
<1>1. Len(turns) \in Nat /\ turns \in Seq(Executions)
  BY DEF SessionInvariant, TypeOK, RowTypeOK
<1>2. Len(turns) = 0
  <2> SUFFICES ASSUME Len(turns) >= 1 PROVE FALSE
    BY <1>1
  <2>1. turns[1] \in Executions /\ base[turns[1]] < 0
    BY <1>1 DEF SessionInvariant, RevisionsBehindRow
  <2>2. QED
    BY <2>1 DEF SessionInvariant, TypeOK, ExecutionTypeOK
<1>3. QED
  BY <1>1, <1>2 DEF SessionInvariant, TurnLogConsistent

\* What the first transaction of an admission does to the sessions row: nothing,
\* or it creates the row of a new Session at the projection's revision and turn.
LEMMA SaveInitialSessionEffect ==
  ASSUME SessionInvariant, open, AdmissionAccepted, SaveInitialSession
  PROVE  \/ UNCHANGED <<rowRevision, rowNextTurn>>
         \/ /\ persistent
            /\ rowRevision = 0 /\ turns = << >> /\ rowNextTurn = 1
            /\ stateRevision = 1 /\ nextTurn = 1
            /\ rowRevision' = 1 /\ rowNextTurn' = 1
<1>1. SUFFICES ASSUME persistent, pendingModelChange
               PROVE  /\ rowRevision = 0 /\ turns = << >> /\ rowNextTurn = 1
                      /\ stateRevision = 1 /\ nextTurn = 1
                      /\ rowRevision' = 1 /\ rowNextTurn' = 1
  BY DEF SaveInitialSession
<1>2. rowRevision' = stateRevision /\ rowNextTurn' = nextTurn
  BY <1>1 DEF SaveInitialSession
<1>3. MetadataWriteAccepted(stateRevision)
  BY <1>1 DEF AdmissionAccepted
<1>4. /\ stateRevision \in Nat /\ nextTurn \in Nat /\ rowRevision \in Nat
      /\ stateRevision >= 1
  BY DEF SessionInvariant, TypeOK, SessionTypeOK, RowTypeOK, OwnerFresh
<1>5. rowRevision = 0 /\ stateRevision = 1 /\ nextTurn = 1
  BY <1>1, <1>3, <1>4 DEF MetadataWriteAccepted, SessionInvariant, MemoryFollowsStore
<1>6. QED
  BY <1>2, <1>5, EmptyLog

\* What a metadata write of a persistent Session does to the sessions row: it
\* creates it, or it moves it on from the projection's revision by one.
LEMMA UpdateMetadataEffect ==
  ASSUME SessionInvariant, UpdateMetadata, persistent
  PROVE  /\ \/ /\ rowRevision = 0 /\ turns = << >> /\ rowNextTurn = 1
               /\ stateRevision = 1 /\ nextTurn = 1
            \/ rowRevision = stateRevision /\ rowNextTurn = nextTurn
         /\ rowRevision' = stateRevision + 1
         /\ rowNextTurn' = nextTurn
<1>1. /\ open
      /\ MetadataWriteAccepted(stateRevision + 1)
      /\ rowRevision' = stateRevision + 1
      /\ rowNextTurn' = nextTurn
  BY DEF UpdateMetadata
<1>2. /\ stateRevision \in Nat /\ nextTurn \in Nat /\ rowRevision \in Nat
      /\ stateRevision >= 1
  BY DEF SessionInvariant, TypeOK, SessionTypeOK, RowTypeOK, OwnerFresh
<1>3. \/ rowRevision = 0 /\ stateRevision = 1 /\ nextTurn = 1
      \/ rowRevision = stateRevision /\ rowNextTurn = nextTurn
  BY <1>1, <1>2 DEF MetadataWriteAccepted, SessionInvariant, MemoryFollowsStore
<1>4. QED
  BY <1>1, <1>3, EmptyLog

\* A row that is settled as non-canonical was active, so it is not in the log.
LEMMA LogSurvivesDiscard ==
  ASSUME SessionInvariant, NEW e \in Executions, row[e] = "active",
         row' = [row EXCEPT ![e] = "non_canonical"],
         UNCHANGED <<base, turn, turns, rowRevision, rowNextTurn, persistent>>
  PROVE  TurnLogConsistent' /\ RevisionsBehindRow'
<1>1. /\ turns \in Seq(Executions)
      /\ row \in [Executions -> RowStates]
  BY DEF SessionInvariant, TypeOK, RowTypeOK, ExecutionTypeOK
<1>2. \A i \in 1 .. Len(turns) : turns[i] # e /\ turns[i] \in Executions
  BY <1>1 DEF SessionInvariant, TurnLogConsistent
<1>3. TurnLogConsistent'
  BY <1>1, <1>2 DEF SessionInvariant, TurnLogConsistent
<1>4. RevisionsBehindRow'
  BY <1>1 DEF SessionInvariant, RevisionsBehindRow
<1>5. QED
  BY <1>3, <1>4

\* Every step keeps the conversation log consistent and behind the row.
LEMMA TurnLogStep ==
  ASSUME SessionInvariant, [Next]_vars
  PROVE  TurnLogConsistent' /\ RevisionsBehindRow'
<1>a. persistent' = persistent
  BY KindIsFixed
<1> USE <1>a
<1>0. /\ turns \in Seq(Executions)
      /\ row \in [Executions -> RowStates]
      /\ base \in [Executions -> Nat]
      /\ turn \in [Executions -> Nat]
      /\ rowRevision \in Nat /\ rowNextTurn \in Nat
      /\ stateRevision \in Nat /\ nextTurn \in Nat /\ stateRevision >= 1
      /\ \A i \in 1 .. Len(turns) : turns[i] \in Executions
  BY DEF SessionInvariant, TypeOK, RowTypeOK, ExecutionTypeOK, SessionTypeOK, OwnerFresh
<1>1. CASE UNCHANGED <<rowRevision, rowNextTurn, row, base, turn, turns>>
  BY <1>1 DEF SessionInvariant, TurnLogConsistent, RevisionsBehindRow
<1>2. ASSUME NEW e \in Executions, ReconcileExecution(e)
      PROVE  TurnLogConsistent' /\ RevisionsBehindRow'
  BY <1>2, LogSurvivesDiscard DEF ReconcileExecution, rowVars
<1>3. CASE UpdateMetadata
  <2>1. UNCHANGED <<row, base, turn, turns>>
    BY <1>3 DEF UpdateMetadata, executionVars
  <2>2. CASE persistent
    BY <1>0, <1>3, <2>1, <2>2, UpdateMetadataEffect
       DEF SessionInvariant, TurnLogConsistent, RevisionsBehindRow
  <2>3. CASE ~persistent
    BY <1>1, <1>3, <2>1, <2>3 DEF UpdateMetadata
  <2>4. QED
    BY <2>2, <2>3
<1>4. ASSUME NEW e \in Executions, Begins(e)
      PROVE  TurnLogConsistent' /\ RevisionsBehindRow'
  <2>1. /\ rowNextTurn' = rowNextTurn
        /\ rowRevision' >= rowRevision /\ rowRevision' \in Nat
        /\ ~persistent => rowRevision' = rowRevision
        /\ turns' = turns
    BY <1>0, <1>4, SaveInitialSessionEffect DEF Begins
  <2>2. CASE UNCHANGED <<row, base, turn>>
    BY <1>0, <2>1, <2>2 DEF SessionInvariant, TurnLogConsistent, RevisionsBehindRow
  <2>3. CASE InsertExecution(e)
    <3>1. \A i \in 1 .. Len(turns) : turns[i] # e
      BY <1>4 DEF Begins, SessionInvariant, TurnLogConsistent
    <3>2. \A d \in Executions : d # e => /\ row'[d] = row[d]
                                         /\ base'[d] = base[d]
                                         /\ turn'[d] = turn[d]
      BY <1>0, <2>3 DEF InsertExecution
    <3>3. row'[e] = "active" /\ base'[e] = stateRevision
      BY <1>0, <2>3 DEF InsertExecution
    <3>4. \A i \in 1 .. Len(turns') : /\ turns'[i] = turns[i]
                                      /\ row'[turns'[i]] = row[turns[i]]
                                      /\ base'[turns'[i]] = base[turns[i]]
                                      /\ turn'[turns'[i]] = turn[turns[i]]
      BY <1>0, <2>1, <3>1, <3>2
    <3>5. TurnLogConsistent'
      <4>1. /\ \A i \in 1 .. Len(turns') : row'[turns'[i]] = "canonical" /\ turn'[turns'[i]] = i
            /\ \A i, j \in 1 .. Len(turns') : i < j => base'[turns'[i]] < base'[turns'[j]]
            /\ rowNextTurn' = Len(turns') + 1
        BY <2>1, <3>4 DEF SessionInvariant, TurnLogConsistent
      <4>2. \A d \in Executions : row'[d] = "canonical"
                                    => turn'[d] \in 1 .. Len(turns') /\ turns'[turn'[d]] = d
        BY <2>1, <3>2, <3>3 DEF SessionInvariant, TurnLogConsistent
      <4>3. QED
        BY <4>1, <4>2 DEF TurnLogConsistent
    <3>6. RevisionsBehindRow'
      <4>1. \A i \in 1 .. Len(turns') : base'[turns'[i]] < rowRevision'
        BY <1>0, <2>1, <3>4 DEF SessionInvariant, RevisionsBehindRow
      <4>2. \A d \in Executions : row'[d] # "none" => base'[d] >= 1
        BY <1>0, <3>2, <3>3 DEF SessionInvariant, RevisionsBehindRow
      <4>3. QED
        BY <2>1, <4>1, <4>2 DEF SessionInvariant, RevisionsBehindRow
    <3>7. QED
      BY <3>5, <3>6
  <2>4. QED
    BY <1>4, <2>2, <2>3 DEF Begins
<1>5. ASSUME NEW e \in Executions, Rejects(e)
      PROVE  TurnLogConsistent' /\ RevisionsBehindRow'
  <2>1. row[e] = "active"
    BY <1>5 DEF Rejects, Undecided, SessionInvariant, TerminalMatchesRow
  <2>2. CASE UNCHANGED row
    BY <1>1, <1>5, <2>2 DEF Rejects
  <2>3. CASE row' = [row EXCEPT ![e] = "non_canonical"]
    BY <1>5, <2>1, <2>3, LogSurvivesDiscard DEF Rejects
  <2>4. QED
    BY <1>5, <2>2, <2>3 DEF Rejects
<1>6. ASSUME NEW e \in Executions, Accepts(e)
      PROVE  TurnLogConsistent' /\ RevisionsBehindRow'
  <2>1. row[e] = "active" /\ base[e] >= 1
    BY <1>6 DEF Accepts, Undecided, SessionInvariant, TerminalMatchesRow, RevisionsBehindRow
  <2>2. UNCHANGED <<base, turn>>
    BY <1>6 DEF Accepts
  <2>3. CASE UNCHANGED <<row, rowRevision, rowNextTurn, turns>>
    BY <1>1, <2>2, <2>3
  <2>4. CASE /\ row' = [row EXCEPT ![e] = "non_canonical"]
             /\ UNCHANGED <<rowRevision, rowNextTurn, turns>>
    BY <2>1, <2>2, <2>4, LogSurvivesDiscard
  <2>5. CASE persistent /\ CanonicalCommitAccepted(e) /\ AdoptTurn(e)
    <3>1. /\ rowRevision = base[e] /\ turn[e] = Len(turns) + 1
          /\ rowRevision' = base[e] + 1 /\ rowNextTurn' = turn[e] + 1
          /\ row' = [row EXCEPT ![e] = "canonical"]
          /\ turns' = Append(turns, e)
      BY <2>5 DEF CanonicalCommitAccepted, AdoptTurn, SessionInvariant, TurnLogConsistent
    <3>2. /\ Len(turns') = Len(turns) + 1
          /\ Len(turns) \in Nat
          /\ \A i \in 1 .. Len(turns) : turns'[i] = turns[i] /\ turns[i] # e
          /\ turns'[Len(turns) + 1] = e
      BY <1>0, <2>1, <3>1 DEF SessionInvariant, TurnLogConsistent
    <3>3. \A i \in 1 .. Len(turns') : row'[turns'[i]] = "canonical" /\ turn'[turns'[i]] = i
      BY <1>0, <2>2, <3>1, <3>2 DEF SessionInvariant, TurnLogConsistent
    <3>4. \A d \in Executions : row'[d] = "canonical"
                                  => turn'[d] \in 1 .. Len(turns') /\ turns'[turn'[d]] = d
      BY <1>0, <2>2, <3>1, <3>2 DEF SessionInvariant, TurnLogConsistent
    <3>5. \A i, j \in 1 .. Len(turns') : i < j => base'[turns'[i]] < base'[turns'[j]]
      <4> SUFFICES ASSUME NEW i \in 1 .. Len(turns'), NEW j \in 1 .. Len(turns'), i < j
                   PROVE  base[turns'[i]] < base[turns'[j]]
        BY <2>2
      <4>1. i \in 1 .. Len(turns) /\ turns'[i] = turns[i]
        BY <3>2
      <4>2. CASE j \in 1 .. Len(turns)
        BY <3>2, <4>1, <4>2 DEF SessionInvariant, TurnLogConsistent
      <4>3. CASE j = Len(turns) + 1
        BY <3>1, <3>2, <4>1, <4>3 DEF SessionInvariant, RevisionsBehindRow
      <4>4. QED
        BY <3>2, <4>2, <4>3
    <3>6. TurnLogConsistent'
      BY <3>1, <3>2, <3>3, <3>4, <3>5 DEF TurnLogConsistent
    <3>7. \A i \in 1 .. Len(turns') : base'[turns'[i]] < rowRevision'
      BY <1>0, <2>2, <3>1, <3>2 DEF SessionInvariant, RevisionsBehindRow
    <3>8. \A d \in Executions : row'[d] # "none" => base'[d] >= 1
      BY <1>0, <2>1, <2>2, <3>1 DEF SessionInvariant, RevisionsBehindRow
    <3>9. QED
      BY <2>5, <3>6, <3>7, <3>8 DEF RevisionsBehindRow
  <2>6. QED
    BY <1>6, <2>3, <2>4, <2>5 DEF Accepts
<1>7. QED
  BY <1>1, <1>2, <1>3, <1>4, <1>5, <1>6, StepKinds
     DEF observed, Forgets, Initializes, OpenOwner, storeVars, rowVars, executionVars

\* Every step keeps the terminal results in agreement with the rows.
LEMMA TerminalStep ==
  ASSUME SessionInvariant, [Next]_vars
  PROVE  TerminalMatchesRow'
<1>0. /\ held \in SUBSET Executions
      /\ row \in [Executions -> RowStates]
      /\ terminal \in [Executions -> {"none", "accepted", "canonical", "non_canonical"}]
      /\ authorization \in [Executions -> {"none", "accepted", "rejected"}]
  BY DEF SessionInvariant, TypeOK, DecisionTypeOK, ExecutionTypeOK
<1>1. CASE UNCHANGED <<held, row, terminal, authorization>>
  BY <1>1 DEF SessionInvariant, TerminalMatchesRow, Undecided
<1>2. CASE held' = {}
  BY <1>2 DEF TerminalMatchesRow
<1>3. ASSUME NEW e \in Executions, ReconcileExecution(e) PROVE TerminalMatchesRow'
  <2>1. held = {}
    BY <1>3 DEF ReconcileExecution, SessionInvariant, OwnerFresh
  <2>2. QED
    BY <1>2, <1>3, <2>1 DEF ReconcileExecution, admissionVars
<1>4. ASSUME NEW e \in Executions, Begins(e) PROVE TerminalMatchesRow'
  <2>1. row[e] = "none" /\ e \notin held /\ terminal[e] = "none"
    BY <1>4 DEF Begins, SessionInvariant, OwnerFresh
  <2>2. UNCHANGED <<terminal, authorization>>
    BY <1>4 DEF Begins
  <2>3. CASE UNCHANGED <<row, held>>
    BY <1>1, <2>2, <2>3
  <2>4. CASE row' = [row EXCEPT ![e] = "active"] /\ held' \in {held, held \cup {e}}
    BY <1>0, <2>1, <2>2, <2>4 DEF SessionInvariant, TerminalMatchesRow, Undecided
  <2>5. QED
    BY <1>4, <2>3, <2>4 DEF Begins, InsertExecution
<1>5. ASSUME NEW e \in Executions, Rejects(e) PROVE TerminalMatchesRow'
  <2>1. e \in held /\ row[e] = "active" /\ terminal[e] = "none"
    BY <1>5 DEF Rejects, Undecided, SessionInvariant, TerminalMatchesRow
  <2>2. CASE UNCHANGED <<row, authorization, terminal, held>>
    BY <1>1, <2>2
  <2>3. CASE authorization' = [authorization EXCEPT ![e] = "rejected"]
    <3>1. CASE UNCHANGED <<row, terminal, held>>
      BY <1>0, <2>1, <2>3, <3>1 DEF SessionInvariant, TerminalMatchesRow, Undecided
    <3>2. CASE row' = [row EXCEPT ![e] = "non_canonical"] /\ UNCHANGED <<terminal, held>>
      BY <1>0, <2>1, <2>3, <3>2 DEF SessionInvariant, TerminalMatchesRow, Undecided
    <3>3. CASE /\ row' = [row EXCEPT ![e] = "non_canonical"]
               /\ terminal' = [terminal EXCEPT ![e] = "non_canonical"]
               /\ held' = {d \in held : d = e \/ terminal[d] = "none"}
      BY <1>0, <2>1, <2>3, <3>3 DEF SessionInvariant, TerminalMatchesRow, Undecided
    <3>4. QED
      BY <1>5, <2>2, <3>1, <3>2, <3>3 DEF Rejects
  <2>4. QED
    BY <1>5, <2>2, <2>3 DEF Rejects
<1>6. ASSUME NEW e \in Executions, Accepts(e) PROVE TerminalMatchesRow'
  <2>1. e \in held /\ row[e] = "active" /\ terminal[e] = "none"
    BY <1>6 DEF Accepts, Undecided, SessionInvariant, TerminalMatchesRow
  <2>2. authorization' = [authorization EXCEPT ![e] = "accepted"]
    BY <1>6 DEF Accepts
  <2>3. CASE UNCHANGED <<row, terminal, held>>
    BY <1>0, <2>1, <2>2, <2>3 DEF SessionInvariant, TerminalMatchesRow, Undecided
  <2>4. CASE row' = [row EXCEPT ![e] = IF persistent THEN "canonical" ELSE "non_canonical"]
    <3>1. CASE UNCHANGED <<terminal, held>>
      BY <1>0, <2>1, <2>2, <2>4, <3>1 DEF SessionInvariant, TerminalMatchesRow, Undecided
    <3>2. CASE /\ terminal' = [terminal EXCEPT ![e] = IF persistent THEN "canonical"
                                                                    ELSE "accepted"]
               /\ held' = {d \in held : d = e \/ terminal[d] = "none"}
      BY <1>0, <2>1, <2>2, <2>4, <3>2 DEF SessionInvariant, TerminalMatchesRow, Undecided
    <3>3. QED
      BY <1>6, <2>3, <3>1, <3>2 DEF Accepts
  <2>5. QED
    BY <1>6, <2>3, <2>4 DEF Accepts, AdoptTurn
<1>7. QED
  BY <1>1, <1>2, <1>3, <1>4, <1>5, <1>6, StepKinds
     DEF observed, Forgets, Initializes, OpenOwner, UpdateMetadata, admissionVars, decisionVars,
         storeVars, executionVars

\* Every step keeps the owner's projection at the sessions row, or behind it by a
\* commit that was lost.
LEMMA MemoryStep ==
  ASSUME SessionInvariant, [Next]_vars
  PROVE  MemoryFollowsStore'
<1>a. persistent' = persistent
  BY KindIsFixed
<1> USE <1>a
<1>0. /\ held \in SUBSET Executions
      /\ row \in [Executions -> RowStates]
      /\ terminal \in [Executions -> {"none", "accepted", "canonical", "non_canonical"}]
      /\ base \in [Executions -> Nat] /\ turn \in [Executions -> Nat]
      /\ rowRevision \in Nat /\ rowNextTurn \in Nat
      /\ stateRevision \in Nat /\ nextTurn \in Nat /\ stateRevision >= 1
  BY DEF SessionInvariant, TypeOK, DecisionTypeOK, RowTypeOK, ExecutionTypeOK,
         SessionTypeOK, OwnerFresh
<1> SUFFICES ASSUME persistent, open'
             PROVE  \/ rowRevision' = 0 /\ stateRevision' = 1 /\ nextTurn' = 1
                    \/ rowRevision' = stateRevision' /\ rowNextTurn' = nextTurn'
                    \/ /\ LostCommit'
                       /\ stateRevision' < rowRevision'
                       /\ nextTurn' < rowNextTurn'
  BY DEF MemoryFollowsStore
<1> DEFINE Goal == \/ rowRevision' = 0 /\ stateRevision' = 1 /\ nextTurn' = 1
                   \/ rowRevision' = stateRevision' /\ rowNextTurn' = nextTurn'
                   \/ /\ LostCommit'
                      /\ stateRevision' < rowRevision'
                      /\ nextTurn' < rowNextTurn'
<1>1. CASE UNCHANGED <<open, rowRevision, rowNextTurn, stateRevision, nextTurn, held, row,
                       terminal>>
  BY <1>1 DEF SessionInvariant, MemoryFollowsStore, LostCommit
<1>2. CASE OpenOwner
  BY <1>0, <1>2 DEF OpenOwner, sessionVars, storeVars, rowVars, SessionInvariant, OwnerFresh
<1>3. CASE UpdateMetadata
  BY <1>3, UpdateMetadataEffect DEF UpdateMetadata
<1>4. ASSUME NEW e \in Executions, ReconcileExecution(e) PROVE Goal
  BY <1>4 DEF ReconcileExecution, SessionInvariant, OwnerFresh
<1>5. ASSUME NEW e \in Executions, Begins(e) PROVE Goal
  <2>1. /\ open /\ row[e] = "none" /\ e \notin held
        /\ UNCHANGED <<stateRevision, nextTurn, terminal>>
        /\ \/ UNCHANGED <<row, held>>
           \/ row' = [row EXCEPT ![e] = "active"] /\ held' \in {held, held \cup {e}}
    BY <1>5 DEF Begins, InsertExecution
  <2>2. LostCommit => LostCommit'
    BY <1>0, <2>1 DEF LostCommit
  <2>3. \/ UNCHANGED <<rowRevision, rowNextTurn>>
        \/ rowRevision' = stateRevision' /\ rowNextTurn' = nextTurn'
    BY <1>5, <2>1, SaveInitialSessionEffect DEF Begins
  <2>4. QED
    BY <2>1, <2>2, <2>3 DEF SessionInvariant, MemoryFollowsStore
<1>6. ASSUME NEW e \in Executions, Rejects(e) PROVE Goal
  <2>1. e \in held /\ row[e] = "active" /\ terminal[e] = "none"
    BY <1>6 DEF Rejects, Undecided, SessionInvariant, TerminalMatchesRow
  <2>2. open /\ UNCHANGED <<stateRevision, nextTurn, rowRevision, rowNextTurn>>
    BY <1>6 DEF Rejects
  <2>3. LostCommit => LostCommit'
    BY <1>0, <1>6, <2>1 DEF LostCommit, Rejects
  <2>4. QED
    BY <2>2, <2>3 DEF SessionInvariant, MemoryFollowsStore
<1>7. ASSUME NEW e \in Executions, Accepts(e) PROVE Goal
  <2>1. e \in held /\ row[e] = "active" /\ terminal[e] = "none" /\ base[e] >= 1 /\ open
    BY <1>7 DEF Accepts, Undecided, SessionInvariant, TerminalMatchesRow, RevisionsBehindRow
  <2>2. CASE UNCHANGED <<row, rowRevision, rowNextTurn, turns, stateRevision, nextTurn,
                         terminal, held>>
    BY <1>1, <1>7, <2>2 DEF Accepts
  <2>3. CASE CanonicalCommitAccepted(e) /\ AdoptTurn(e)
    <3>1. /\ rowRevision = base[e] /\ rowNextTurn = turn[e]
          /\ rowRevision' = base[e] + 1 /\ rowNextTurn' = turn[e] + 1
          /\ row' = [row EXCEPT ![e] = "canonical"]
      BY <2>3 DEF CanonicalCommitAccepted, AdoptTurn
    <3>2. CASE UNCHANGED <<stateRevision, nextTurn, terminal, held>>
      <4>1. LostCommit'
        BY <1>0, <2>1, <3>1, <3>2 DEF LostCommit
      <4>2. stateRevision <= rowRevision /\ nextTurn <= rowNextTurn
        BY <1>0, <2>1, <3>1 DEF SessionInvariant, MemoryFollowsStore
      <4>3. QED
        BY <1>0, <3>1, <3>2, <4>1, <4>2
    <3>3. CASE stateRevision' = base[e] + 1 /\ nextTurn' = turn[e] + 1
      BY <3>1, <3>3
    <3>4. QED
      BY <1>7, <2>2, <3>2, <3>3 DEF Accepts
  <2>4. QED
    BY <1>7, <2>2, <2>3 DEF Accepts
<1>8. QED
  BY <1>1, <1>2, <1>3, <1>4, <1>5, <1>6, <1>7, StepKinds DEF observed, Forgets, Initializes

\* Every step keeps a closed owner empty and an unadmitted execution unsettled.
LEMMA OwnerStep ==
  ASSUME SessionInvariant, [Next]_vars
  PROVE  OwnerFresh'
<1>0. /\ row \in [Executions -> RowStates]
      /\ terminal \in [Executions -> {"none", "accepted", "canonical", "non_canonical"}]
      /\ base \in [Executions -> Nat]
      /\ rowRevision \in Nat
      /\ stateRevision \in Nat
  BY DEF SessionInvariant, TypeOK, DecisionTypeOK, RowTypeOK, ExecutionTypeOK, SessionTypeOK
<1>1. CASE UNCHANGED <<phase, open, stateRevision, nextTurn, held, row, terminal>>
  BY <1>1 DEF SessionInvariant, OwnerFresh
<1>2. CASE Forgets
  <2>1. stateRevision' >= 1
    BY <1>2 DEF Forgets
  <2>2. \A e \in Executions : terminal'[e] = "none"
    BY <1>2 DEF Forgets
  <2>3. QED
    BY <1>2, <2>1, <2>2, Zenon DEF Forgets, OwnerFresh
<1>3. CASE Initializes
  BY <1>3 DEF Initializes, SessionInvariant, OwnerFresh
<1>4. ASSUME NEW e \in Executions, ReconcileExecution(e) PROVE OwnerFresh'
  BY <1>0, <1>4 DEF ReconcileExecution, SessionInvariant, OwnerFresh, processVars, sessionVars,
                    admissionVars, decisionVars
<1>5. CASE OpenOwner
  BY <1>0, <1>5 DEF OpenOwner, SessionInvariant, OwnerFresh, processVars, sessionVars,
                    admissionVars, decisionVars, storeVars, executionVars
<1>6. CASE UpdateMetadata
  BY <1>0, <1>6 DEF UpdateMetadata, SessionInvariant, OwnerFresh, processVars, admissionVars,
                    decisionVars, executionVars
<1>7. ASSUME NEW e \in Executions, Begins(e) PROVE OwnerFresh'
  BY <1>0, <1>7 DEF Begins, InsertExecution, SessionInvariant, OwnerFresh
<1>8. ASSUME NEW e \in Executions, Rejects(e) PROVE OwnerFresh'
  <2>1. row[e] = "active"
    BY <1>8 DEF Rejects, Undecided, SessionInvariant, TerminalMatchesRow
  <2>2. \A d \in Executions : row'[d] = "none" => terminal'[d] = "none"
    BY <1>0, <1>8, <2>1 DEF Rejects, SessionInvariant, OwnerFresh
  <2>3. QED
    BY <1>8, <2>2 DEF Rejects, SessionInvariant, OwnerFresh
<1>9. ASSUME NEW e \in Executions, Accepts(e) PROVE OwnerFresh'
  <2>1. row[e] = "active"
    BY <1>9 DEF Accepts, Undecided, SessionInvariant, TerminalMatchesRow
  <2>2. \A d \in Executions : row'[d] = "none" => terminal'[d] = "none"
    BY <1>0, <1>9, <2>1 DEF Accepts, AdoptTurn, SessionInvariant, OwnerFresh
  <2>3. stateRevision' >= 1
    BY <1>0, <1>9 DEF Accepts, SessionInvariant, OwnerFresh
  <2>4. QED
    BY <1>9, <2>2, <2>3 DEF Accepts, SessionInvariant, OwnerFresh
<1>10. QED
  BY <1>1, <1>2, <1>3, <1>4, <1>5, <1>6, <1>7, <1>8, <1>9, StepKinds DEF observed

\* The inductive invariant holds in every reachable state.
THEOREM InvariantHolds == Spec => []SessionInvariant
<1>1. Init /\ TypeOK => SessionInvariant
  <2> SUFFICES ASSUME Init, TypeOK PROVE SessionInvariant
    OBVIOUS
  <2>1. TurnLogConsistent
    BY DEF Init, TurnLogConsistent
  <2>2. RevisionsBehindRow
    BY DEF Init, RevisionsBehindRow
  <2>3. MemoryFollowsStore
    BY DEF Init, MemoryFollowsStore
  <2>4. OwnerFresh
    <3>1. \A e \in Executions : terminal[e] = "none"
      BY DEF Init
    <3>2. stateRevision >= 1
      BY DEF Init
    <3>3. QED
      BY <3>1, <3>2, Zenon DEF Init, OwnerFresh
  <2>5. TerminalMatchesRow
    BY DEF Init, TerminalMatchesRow
  <2>6. QED
    BY <2>1, <2>2, <2>3, <2>4, <2>5 DEF SessionInvariant
<1>2. SessionInvariant /\ TypeOK' /\ [Next]_vars => SessionInvariant'
  BY TurnLogStep, TerminalStep, MemoryStep, OwnerStep DEF SessionInvariant
<1>3. QED
  BY <1>1, <1>2, TypeCorrect, PTL DEF Spec

\* The session_turns log always is the conversation: turn i is the canonical
\* execution admitted for turn i, and none is missing or stored twice.
THEOREM TurnLogTheorem == Spec => []TurnLogConsistent
<1>1. SessionInvariant => TurnLogConsistent
  BY DEF SessionInvariant
<1>2. QED
  BY <1>1, InvariantHolds, PTL

\* The SessionAuthority's projection never runs ahead of the sessions row.
THEOREM MemoryTheorem == Spec => []MemoryFollowsStore
<1>1. SessionInvariant => MemoryFollowsStore
  BY DEF SessionInvariant
<1>2. QED
  BY <1>1, InvariantHolds, PTL

\* The terminal result the owner answers with is the one in the executions row.
THEOREM TerminalTheorem == Spec => []TerminalMatchesRow
<1>1. SessionInvariant => TerminalMatchesRow
  BY DEF SessionInvariant
<1>2. QED
  BY <1>1, InvariantHolds, PTL

\* No later call replaces the authorization or the terminal result of an
\* execution that the owner still holds.
THEOREM DecisionTheorem == Spec => DecisionIsFinal
<1> DEFINE Final == \A e \in held \cap held' :
                      authorization[e] # "none" =>
                        /\ authorization'[e] = authorization[e]
                        /\ terminal[e] # "none" => terminal'[e] = terminal[e]
<1>1. SessionInvariant /\ [Next]_vars => Final
  <2> SUFFICES ASSUME SessionInvariant, [Next]_vars PROVE Final
    OBVIOUS
  <2>0. /\ terminal \in [Executions -> {"none", "accepted", "canonical", "non_canonical"}]
        /\ authorization \in [Executions -> {"none", "accepted", "rejected"}]
        /\ held \in SUBSET Executions
    BY DEF SessionInvariant, TypeOK, DecisionTypeOK
  <2>1. CASE UNCHANGED <<authorization, terminal>>
    BY <2>1
  <2>2. CASE held' = {}
    BY <2>2
  <2>3. ASSUME NEW e \in Executions, Rejects(e) PROVE Final
    <3>1. terminal[e] = "none" /\ authorization[e] = "none"
      BY <2>3 DEF Rejects, Undecided
    <3>2. \A d \in Executions : d # e => /\ authorization'[d] = authorization[d]
                                         /\ terminal'[d] = terminal[d]
      BY <2>0, <2>3 DEF Rejects
    <3>3. QED
      BY <2>0, <3>1, <3>2
  <2>4. ASSUME NEW e \in Executions, Accepts(e) PROVE Final
    <3>1. terminal[e] = "none" /\ authorization[e] = "none"
      BY <2>4 DEF Accepts, Undecided
    <3>2. \A d \in Executions : d # e => /\ authorization'[d] = authorization[d]
                                         /\ terminal'[d] = terminal[d]
      BY <2>0, <2>4 DEF Accepts
    <3>3. QED
      BY <2>0, <3>1, <3>2
  <2>5. QED
    BY <2>1, <2>2, <2>3, <2>4, StepKinds
       DEF observed, Forgets, Initializes, ReconcileExecution, OpenOwner, UpdateMetadata,
           Begins, decisionVars
<1>2. QED
  BY <1>1, InvariantHolds, PTL DEF Spec, DecisionIsFinal

-----------------------------------------------------------------------------
(* Refinement.                                                             *)

\* The rows of the Session implement the abstract history: every method of the
\* owner, with its faults, and every crash and restart is one step of it or none.
THEOREM HistoryTheorem == Spec => ImplementsHistory
<1>1. Init => History!Init
  BY DEF Init, History!Init
<1>2. SessionInvariant /\ [Next]_vars => [History!Next]_(History!vars)
  <2> SUFFICES ASSUME SessionInvariant, [Next]_vars
               PROVE  History!Next \/ UNCHANGED <<row, turns, rowRevision>>
    BY DEF History!vars
  <2>0. /\ row \in [Executions -> RowStates]
        /\ base \in [Executions -> Nat]
        /\ rowRevision \in Nat /\ stateRevision \in Nat
    BY DEF SessionInvariant, TypeOK, RowTypeOK, ExecutionTypeOK, SessionTypeOK
  <2>1. ASSUME NEW e \in Executions, ReconcileExecution(e) PROVE History!Next
    <3>1. History!Discard(e)
      BY <2>1 DEF ReconcileExecution, rowVars, History!Discard
    <3>2. QED
      BY <3>1 DEF History!Next
  <2>2. CASE UpdateMetadata
    <3>1. CASE persistent
      <4>1. \/ rowRevision = 0 /\ rowRevision' = 2
            \/ rowRevision # 0 /\ rowRevision' = rowRevision + 1
        BY <2>2, <2>0, <3>1, UpdateMetadataEffect DEF SessionInvariant, OwnerFresh
      <4>2. UNCHANGED <<row, turns>>
        BY <2>2 DEF UpdateMetadata, executionVars
      <4>3. History!Touch
        BY <4>1, <4>2 DEF History!Touch, History!NextRevisions
      <4>4. QED
        BY <4>3 DEF History!Next
    <3>2. CASE ~persistent
      BY <2>2, <3>2 DEF UpdateMetadata, executionVars
    <3>3. QED
      BY <3>1, <3>2
  <2>3. ASSUME NEW e \in Executions, Begins(e)
        PROVE  History!Next \/ UNCHANGED <<row, turns, rowRevision>>
    <3>1. /\ rowRevision' \in {rowRevision} \cup History!NextRevisions
          /\ turns' = turns /\ row[e] = "none"
      BY <2>3, SaveInitialSessionEffect DEF Begins, History!NextRevisions
    <3>2. CASE row' = [row EXCEPT ![e] = "active"]
      <4>1. History!Begin(e)
        BY <3>1, <3>2 DEF History!Begin
      <4>2. QED
        BY <4>1 DEF History!Next
    <3>3. CASE row' = row /\ rowRevision' # rowRevision
      <4>1. History!Touch
        BY <3>1, <3>3 DEF History!Touch
      <4>2. QED
        BY <4>1 DEF History!Next
    <3>4. QED
      BY <2>3, <3>1, <3>2, <3>3 DEF Begins, InsertExecution
  <2>4. ASSUME NEW e \in Executions, Rejects(e)
        PROVE  History!Next \/ UNCHANGED <<row, turns, rowRevision>>
    <3>1. row[e] = "active"
      BY <2>4 DEF Rejects, Undecided, SessionInvariant, TerminalMatchesRow
    <3>2. CASE row' = [row EXCEPT ![e] = "non_canonical"]
      <4>1. History!Discard(e)
        BY <2>4, <3>1, <3>2 DEF Rejects, History!Discard
      <4>2. QED
        BY <4>1 DEF History!Next
    <3>3. QED
      BY <2>4, <3>2 DEF Rejects
  <2>5. ASSUME NEW e \in Executions, Accepts(e)
        PROVE  History!Next \/ UNCHANGED <<row, turns, rowRevision>>
    <3>1. row[e] = "active"
      BY <2>5 DEF Accepts, Undecided, SessionInvariant, TerminalMatchesRow
    <3>2. CASE /\ row' = [row EXCEPT ![e] = "non_canonical"]
               /\ UNCHANGED <<rowRevision, turns>>
      <4>1. History!Discard(e)
        BY <3>1, <3>2 DEF History!Discard
      <4>2. QED
        BY <4>1 DEF History!Next
    <3>3. CASE CanonicalCommitAccepted(e) /\ AdoptTurn(e)
      <4>1. History!Adopt(e)
        BY <3>1, <3>3 DEF CanonicalCommitAccepted, AdoptTurn, History!Adopt
      <4>2. QED
        BY <4>1 DEF History!Next
    <3>4. QED
      BY <2>5, <3>2, <3>3 DEF Accepts
  <2>6. QED
    BY <2>1, <2>2, <2>3, <2>4, <2>5, StepKinds
       DEF observed, Forgets, Initializes, OpenOwner, storeVars, rowVars, executionVars
<1>3. QED
  BY <1>1, <1>2, InvariantHolds, PTL DEF Spec, ImplementsHistory, History!Spec

-----------------------------------------------------------------------------
(* The settlement: what a terminal result leaves behind.                   *)

\* The execution that runs: the Core knows of it and waits for its result, which a
\* flush may have made impossible (Abandoned).
Current(e) ==
  Undecided(e) /\ e \notin unanswered /\ ~(e \in journalSealed /\ e \in journalFailed)

\* An execution that was never admitted has left no trace.
UnadmittedIsBlank ==
  \A e \in Executions : row[e] = "none" =>
    /\ e \notin held /\ e \notin prepared
    /\ received[e] = 0 /\ durable[e] = 0 /\ saved[e] = 0
    /\ finalKind[e] = "none"

\* Nothing is received after the turn's last message, and of an execution the Core
\* knows nothing of nothing ever is.
FinalIsLast ==
  /\ \A e \in held : finalKind[e] # "none" => finalSequence[e] = received[e]
  /\ \A e \in unanswered : finalKind[e] = "none"

\* Nothing is left to be flushed once a proposal is prepared, and nothing else can
\* reach its journal.
PreparedIsFlushed ==
  /\ \A e \in prepared : /\ e \in held /\ e \in journalSealed /\ e \notin journalFailed
                         /\ finalKind[e] = "proposal"
  /\ \A e \in held :
       e \in prepared \/ row[e] = "canonical" \/ terminal[e] = "accepted" =>
         durable[e] = received[e]

\* What runs was admitted for the turn and the revision of the projection, alone.
CurrentIsProjected ==
  /\ \A e \in Executions : Current(e) => base[e] = stateRevision /\ turn[e] = nextTurn
  /\ \A d, e \in Executions : Current(d) /\ Current(e) => d = e

\* Only a detached Session accepts a turn it does not store.
AcceptedIsDetached == persistent => \A e \in Executions : terminal[e] # "accepted"

\* An owner that opens finds in the row the checkpoint it starts with.
CheckpointFollowed ==
  /\ CheckpointCoversHistory
  /\ ~open => checkpoint = 0

SettlementInduct ==
  /\ UnadmittedIsBlank
  /\ FinalIsLast
  /\ PreparedIsFlushed
  /\ CurrentIsProjected
  /\ AcceptedIsDetached
  /\ SettledIsSavedAndReleased
  /\ CheckpointFollowed

\* The types the proofs below use.
SettlementTypes ==
  /\ received \in [Executions -> Nat] /\ durable \in [Executions -> Nat]
  /\ saved \in [Executions -> Nat] /\ finalSequence \in [Executions -> Nat]
  /\ finalKind \in [Executions -> {"none", "proposal", "failure"}]
  /\ terminal \in [Executions -> {"none", "accepted", "canonical", "non_canonical"}]
  /\ authorization \in [Executions -> {"none", "accepted", "rejected"}]
  /\ row \in [Executions -> RowStates]
  /\ base \in [Executions -> Nat] /\ turn \in [Executions -> Nat]
  /\ held \in SUBSET Executions /\ prepared \in SUBSET Executions
  /\ unanswered \in SUBSET Executions

\* They follow from the type invariant.
LEMMA SettlementTyped == SessionInvariant => SettlementTypes
BY DEF SettlementTypes, SessionInvariant, TypeOK, DecisionTypeOK, JournalTypeOK, FinalTypeOK,
   ExecutionTypeOK

\* A crash forgets everything but the rows.
LEMMA CrashSettles ==
  ASSUME SessionInvariant, SettlementInduct,
         Crash
  PROVE  SettlementInduct'
<1> USE DEF SettlementInduct, sessionVars, admissionVars, decisionVars, journalVars, finalVars, processVars,
            rowVars, executionVars, storeVars
<1>0. SettlementTypes
  BY SettlementTyped
<1>1. UnadmittedIsBlank'
  BY <1>0 DEF Crash, ForgetExecutions, UnadmittedIsBlank
<1>2. FinalIsLast'
  BY <1>0 DEF Crash, ForgetExecutions, FinalIsLast
<1>3. PreparedIsFlushed'
  BY <1>0 DEF Crash, ForgetExecutions, PreparedIsFlushed
<1>4. CurrentIsProjected'
  BY <1>0 DEF Crash, ForgetExecutions, CurrentIsProjected, Current, Undecided
<1>5. AcceptedIsDetached'
  BY <1>0 DEF Crash, ForgetExecutions, AcceptedIsDetached
<1>6. SettledIsSavedAndReleased'
  BY <1>0 DEF Crash, ForgetExecutions, SettledIsSavedAndReleased, AdoptedEvidenceComplete,
     OneTerminalRetained
<1>7. CheckpointFollowed'
  BY <1>0 DEF Crash, ForgetSession, CheckpointFollowed, CheckpointCoversHistory
<1>8. QED
  BY <1>1, <1>2, <1>3, <1>4, <1>5, <1>6, <1>7

\* A closing owner saves some journals of undecided executions, and forgets all.
LEMMA CloseOwnerSettles ==
  ASSUME SessionInvariant, SettlementInduct, NEW flushed \in SUBSET held,
         CloseOwner(flushed)
  PROVE  SettlementInduct'
<1> USE DEF SettlementInduct, sessionVars, admissionVars, decisionVars, journalVars, finalVars, processVars,
            rowVars, executionVars, storeVars
<1>0. SettlementTypes
  BY SettlementTyped
<1>1. UnadmittedIsBlank'
  BY <1>0 DEF CloseOwner, ForgetExecutions, UnadmittedIsBlank
<1>2. FinalIsLast'
  BY <1>0 DEF CloseOwner, ForgetExecutions, FinalIsLast
<1>3. PreparedIsFlushed'
  BY <1>0 DEF CloseOwner, ForgetExecutions, PreparedIsFlushed
<1>4. CurrentIsProjected'
  BY <1>0 DEF CloseOwner, ForgetExecutions, CurrentIsProjected, Current, Undecided
<1>5. AcceptedIsDetached'
  BY <1>0 DEF CloseOwner, ForgetExecutions, AcceptedIsDetached
<1>6. SettledIsSavedAndReleased'
  BY <1>0 DEF CloseOwner, ForgetExecutions, SettledIsSavedAndReleased, AdoptedEvidenceComplete,
     OneTerminalRetained, FinalIsLast
<1>7. CheckpointFollowed'
  BY <1>0 DEF CloseOwner, ForgetSession, CheckpointFollowed, CheckpointCoversHistory
<1>8. QED
  BY <1>1, <1>2, <1>3, <1>4, <1>5, <1>6, <1>7

\* Before the store is published nobody holds an execution.
LEMMA ReconcileExecutionSettles ==
  ASSUME SessionInvariant, SettlementInduct, NEW e \in Executions,
         ReconcileExecution(e)
  PROVE  SettlementInduct'
<1> USE DEF SettlementInduct, sessionVars, admissionVars, decisionVars, journalVars, finalVars, processVars,
            rowVars, executionVars, storeVars
<1>0. SettlementTypes
  BY SettlementTyped
<1>1. UnadmittedIsBlank'
  BY <1>0 DEF ReconcileExecution, UnadmittedIsBlank
<1>2. FinalIsLast'
  BY <1>0 DEF ReconcileExecution, FinalIsLast
<1>3. PreparedIsFlushed'
  BY <1>0 DEF ReconcileExecution, PreparedIsFlushed
<1>4. CurrentIsProjected'
  BY <1>0 DEF ReconcileExecution, CurrentIsProjected, Current, Undecided
<1>5. AcceptedIsDetached'
  BY <1>0 DEF ReconcileExecution, AcceptedIsDetached
<1>6. SettledIsSavedAndReleased'
  BY <1>0 DEF ReconcileExecution, SettledIsSavedAndReleased, AdoptedEvidenceComplete,
     OneTerminalRetained
<1>7. CheckpointFollowed'
  BY <1>0 DEF ReconcileExecution, CheckpointFollowed, CheckpointCoversHistory
<1>8. QED
  BY <1>1, <1>2, <1>3, <1>4, <1>5, <1>6, <1>7

\* An owner that opens holds no execution and takes the checkpoint of the row.
LEMMA OpenOwnerSettles ==
  ASSUME SessionInvariant, SettlementInduct,
         OpenOwner
  PROVE  SettlementInduct'
<1> USE DEF SettlementInduct, sessionVars, admissionVars, decisionVars, journalVars, finalVars, processVars,
            rowVars, executionVars, storeVars
<1>0. SettlementTypes
  BY SettlementTyped
<1>1. UnadmittedIsBlank'
  BY <1>0 DEF OpenOwner, UnadmittedIsBlank
<1>2. FinalIsLast'
  BY <1>0 DEF OpenOwner, FinalIsLast
<1>3. PreparedIsFlushed'
  BY <1>0 DEF OpenOwner, PreparedIsFlushed
<1>4. CurrentIsProjected'
  BY <1>0 DEF OpenOwner, CurrentIsProjected, Current, Undecided, SessionInvariant, OwnerFresh
<1>5. AcceptedIsDetached'
  BY <1>0 DEF OpenOwner, AcceptedIsDetached
<1>6. SettledIsSavedAndReleased'
  BY <1>0 DEF OpenOwner, SettledIsSavedAndReleased, AdoptedEvidenceComplete, OneTerminalRetained
<1>7. CheckpointFollowed'
  <2>1. rowRevision \in Nat /\ rowCheckpoint \in Nat /\ checkpoint \in Nat
    BY DEF SessionInvariant, TypeOK, RowTypeOK, SessionTypeOK
  <2>2. persistent /\ rowRevision = 0 => turns = << >>
    <3>1. turns \in Seq(Executions) /\ base \in [Executions -> Nat]
      BY DEF SessionInvariant, TypeOK, RowTypeOK, ExecutionTypeOK
    <3>2. \A i \in 1 .. Len(turns) : base[turns[i]] < rowRevision
      BY DEF SessionInvariant, RevisionsBehindRow
    <3>3. rowRevision = 0 => Len(turns) = 0
      BY <3>1, <3>2
    <3>4. QED
      BY <3>1, <3>3
  <2>3. rowRevision = 0 /\ persistent => rowCheckpoint = 0
    BY <2>1, <2>2 DEF CheckpointFollowed, CheckpointCoversHistory
  <2>4. QED
    BY <2>1, <2>3 DEF OpenOwner, CheckpointFollowed, CheckpointCoversHistory
<1>8. QED
  BY <1>1, <1>2, <1>3, <1>4, <1>5, <1>6, <1>7

\* Metadata is written while no execution is undecided.
LEMMA UpdateMetadataSettles ==
  ASSUME SessionInvariant, SettlementInduct,
         UpdateMetadata
  PROVE  SettlementInduct'
<1> USE DEF SettlementInduct, sessionVars, admissionVars, decisionVars, journalVars, finalVars, processVars,
            rowVars, executionVars, storeVars
<1>0. SettlementTypes
  BY SettlementTyped
<1>1. UnadmittedIsBlank'
  BY <1>0 DEF UpdateMetadata, UnadmittedIsBlank
<1>2. FinalIsLast'
  BY <1>0 DEF UpdateMetadata, FinalIsLast
<1>3. PreparedIsFlushed'
  BY <1>0 DEF UpdateMetadata, PreparedIsFlushed
<1>4. CurrentIsProjected'
  BY <1>0 DEF UpdateMetadata, HasUnsettledExecution, CurrentIsProjected, Current, Undecided
<1>5. AcceptedIsDetached'
  BY <1>0 DEF UpdateMetadata, AcceptedIsDetached
<1>6. SettledIsSavedAndReleased'
  BY <1>0 DEF UpdateMetadata, SettledIsSavedAndReleased, AdoptedEvidenceComplete,
     OneTerminalRetained
<1>7. CheckpointFollowed'
  BY <1>0 DEF UpdateMetadata, CheckpointFollowed, CheckpointCoversHistory
<1>8. QED
  BY <1>1, <1>2, <1>3, <1>4, <1>5, <1>6, <1>7

\* The execution that is admitted is the only one that runs.
LEMMA AdmitSettles ==
  ASSUME SessionInvariant, SettlementInduct, NEW e \in Executions,
         Admit(e) \/ AdmitUnanswered(e)
  PROVE  SettlementInduct'
<1> USE DEF SettlementInduct, sessionVars, admissionVars, decisionVars, journalVars, finalVars, processVars,
            rowVars, executionVars, storeVars
<1>0. /\ SettlementTypes
      /\ HoldExecution(e)
      /\ unanswered' \in {unanswered, unanswered \cup {e}}
  BY SettlementTyped DEF Admit, AdmitUnanswered
<1>1. UnadmittedIsBlank'
  BY <1>0 DEF HoldExecution, InsertExecution, UnadmittedIsBlank, SettlementTypes
<1>2. FinalIsLast'
  BY <1>0 DEF HoldExecution, CanAdmit, FinalIsLast, UnadmittedIsBlank
<1>3. PreparedIsFlushed'
  BY <1>0 DEF HoldExecution, CanAdmit, InsertExecution, PreparedIsFlushed, UnadmittedIsBlank
<1>4. CurrentIsProjected'
  BY <1>0 DEF HoldExecution, CanAdmit, InsertExecution, CoreIdle, Abandoned, CurrentIsProjected,
     Current, Undecided, SettlementTypes
<1>5. AcceptedIsDetached'
  BY <1>0 DEF HoldExecution, AcceptedIsDetached
<1>6. SettledIsSavedAndReleased'
  BY <1>0 DEF HoldExecution, CanAdmit, InsertExecution, SettledIsSavedAndReleased,
     AdoptedEvidenceComplete, OneTerminalRetained, UnadmittedIsBlank, SessionInvariant, OwnerFresh
<1>7. CheckpointFollowed'
  BY <1>0 DEF HoldExecution, CheckpointFollowed, CheckpointCoversHistory
<1>8. QED
  BY <1>1, <1>2, <1>3, <1>4, <1>5, <1>6, <1>7

\* A Session whose admission failed runs nothing.
LEMMA AdmitFailsAfterSessionSettles ==
  ASSUME SessionInvariant, SettlementInduct, NEW e \in Executions,
         AdmitFailsAfterSession(e)
  PROVE  SettlementInduct'
<1> USE DEF SettlementInduct, sessionVars, admissionVars, decisionVars, journalVars, finalVars, processVars,
            rowVars, executionVars, storeVars
<1>0. SettlementTypes
  BY SettlementTyped
<1>1. UnadmittedIsBlank'
  BY <1>0 DEF AdmitFailsAfterSession, UnadmittedIsBlank
<1>2. FinalIsLast'
  BY <1>0 DEF AdmitFailsAfterSession, FinalIsLast
<1>3. PreparedIsFlushed'
  BY <1>0 DEF AdmitFailsAfterSession, PreparedIsFlushed
<1>4. CurrentIsProjected'
  BY <1>0 DEF AdmitFailsAfterSession, CurrentIsProjected, Current, Undecided
<1>5. AcceptedIsDetached'
  BY <1>0 DEF AdmitFailsAfterSession, AcceptedIsDetached
<1>6. SettledIsSavedAndReleased'
  BY <1>0 DEF AdmitFailsAfterSession, SettledIsSavedAndReleased, AdoptedEvidenceComplete,
     OneTerminalRetained
<1>7. CheckpointFollowed'
  BY <1>0 DEF AdmitFailsAfterSession, CheckpointFollowed, CheckpointCoversHistory
<1>8. QED
  BY <1>1, <1>2, <1>3, <1>4, <1>5, <1>6, <1>7

\* A row that nobody holds runs nothing.
LEMMA AdmitFailsAfterExecutionSettles ==
  ASSUME SessionInvariant, SettlementInduct, NEW e \in Executions,
         AdmitFailsAfterExecution(e)
  PROVE  SettlementInduct'
<1> USE DEF SettlementInduct, sessionVars, admissionVars, decisionVars, journalVars, finalVars, processVars,
            rowVars, executionVars, storeVars
<1>0. SettlementTypes
  BY SettlementTyped
<1>1. UnadmittedIsBlank'
  BY <1>0 DEF AdmitFailsAfterExecution, InsertExecution, UnadmittedIsBlank
<1>2. FinalIsLast'
  BY <1>0 DEF AdmitFailsAfterExecution, FinalIsLast
<1>3. PreparedIsFlushed'
  BY <1>0 DEF AdmitFailsAfterExecution, InsertExecution, PreparedIsFlushed
<1>4. CurrentIsProjected'
  BY <1>0 DEF AdmitFailsAfterExecution, InsertExecution, CurrentIsProjected, Current, Undecided
<1>5. AcceptedIsDetached'
  BY <1>0 DEF AdmitFailsAfterExecution, AcceptedIsDetached
<1>6. SettledIsSavedAndReleased'
  BY <1>0 DEF AdmitFailsAfterExecution, InsertExecution, SettledIsSavedAndReleased,
     AdoptedEvidenceComplete, OneTerminalRetained
<1>7. CheckpointFollowed'
  BY <1>0 DEF AdmitFailsAfterExecution, CheckpointFollowed, CheckpointCoversHistory
<1>8. QED
  BY <1>1, <1>2, <1>3, <1>4, <1>5, <1>6, <1>7

\* A message is received before the turn's last one, so nothing was prepared.
LEMMA ReceiveDataSettles ==
  ASSUME SessionInvariant, SettlementInduct, NEW e \in Executions,
         NEW kind \in {"none", "proposal", "failure"}, NEW outcome \in Outcomes,
         ReceiveData(e, kind, outcome)
  PROVE  SettlementInduct'
<1> USE DEF SettlementInduct, sessionVars, admissionVars, decisionVars, journalVars, finalVars, processVars,
            rowVars, executionVars, storeVars
<1>0. SettlementTypes
  BY SettlementTyped
<1>1. UnadmittedIsBlank'
  BY <1>0 DEF ReceiveData, FlushTo, UnadmittedIsBlank, SettlementTypes
<1>2. FinalIsLast'
  BY <1>0 DEF ReceiveData, FinalIsLast, SettlementTypes
<1>3. PreparedIsFlushed'
  BY <1>0 DEF ReceiveData, FlushTo, PreparedIsFlushed, SettlementTypes, SettledIsSavedAndReleased,
     AdoptedEvidenceComplete
<1>4. CurrentIsProjected'
  BY <1>0 DEF ReceiveData, FlushTo, CurrentIsProjected, Current, Undecided
<1>5. AcceptedIsDetached'
  BY <1>0 DEF ReceiveData, AcceptedIsDetached
<1>6. SettledIsSavedAndReleased'
  BY <1>0 DEF ReceiveData, FlushTo, SettledIsSavedAndReleased, AdoptedEvidenceComplete,
     OneTerminalRetained, SettlementTypes
<1>7. CheckpointFollowed'
  BY <1>0 DEF ReceiveData, CheckpointFollowed, CheckpointCoversHistory
<1>8. QED
  BY <1>1, <1>2, <1>3, <1>4, <1>5, <1>6, <1>7

\* A message out of sequence fails the journal of a turn that is not prepared.
LEMMA ReceiveOutOfSequenceSettles ==
  ASSUME SessionInvariant, SettlementInduct, NEW e \in Executions,
         ReceiveOutOfSequence(e)
  PROVE  SettlementInduct'
<1> USE DEF SettlementInduct, sessionVars, admissionVars, decisionVars, journalVars, finalVars, processVars,
            rowVars, executionVars, storeVars
<1>0. SettlementTypes
  BY SettlementTyped
<1>1. UnadmittedIsBlank'
  BY <1>0 DEF ReceiveOutOfSequence, UnadmittedIsBlank
<1>2. FinalIsLast'
  BY <1>0 DEF ReceiveOutOfSequence, FinalIsLast
<1>3. PreparedIsFlushed'
  BY <1>0 DEF ReceiveOutOfSequence, PreparedIsFlushed
<1>4. CurrentIsProjected'
  BY <1>0 DEF ReceiveOutOfSequence, CurrentIsProjected, Current, Undecided
<1>5. AcceptedIsDetached'
  BY <1>0 DEF ReceiveOutOfSequence, AcceptedIsDetached
<1>6. SettledIsSavedAndReleased'
  BY <1>0 DEF ReceiveOutOfSequence, SettledIsSavedAndReleased, AdoptedEvidenceComplete,
     OneTerminalRetained
<1>7. CheckpointFollowed'
  BY <1>0 DEF ReceiveOutOfSequence, CheckpointFollowed, CheckpointCoversHistory
<1>8. QED
  BY <1>1, <1>2, <1>3, <1>4, <1>5, <1>6, <1>7

\* A flush reaches no turn whose evidence was complete.
LEMMA FlushTimerSettles ==
  ASSUME SessionInvariant, SettlementInduct, NEW e \in Executions, NEW outcome \in Outcomes,
         FlushTimer(e, outcome)
  PROVE  SettlementInduct'
<1> USE DEF SettlementInduct, sessionVars, admissionVars, decisionVars, journalVars, finalVars, processVars,
            rowVars, executionVars, storeVars
<1>0. SettlementTypes
  BY SettlementTyped
<1>1. UnadmittedIsBlank'
  BY <1>0 DEF FlushTimer, FlushTo, UnadmittedIsBlank
<1>2. FinalIsLast'
  BY <1>0 DEF FlushTimer, FinalIsLast
<1>3. PreparedIsFlushed'
  BY <1>0 DEF FlushTimer, FlushTo, PreparedIsFlushed, SettlementTypes
<1>4. CurrentIsProjected'
  BY <1>0 DEF FlushTimer, FlushTo, CurrentIsProjected, Current, Undecided
<1>5. AcceptedIsDetached'
  BY <1>0 DEF FlushTimer, AcceptedIsDetached
<1>6. SettledIsSavedAndReleased'
  BY <1>0 DEF FlushTimer, FlushTo, SettledIsSavedAndReleased, AdoptedEvidenceComplete,
     OneTerminalRetained, FinalIsLast, SettlementTypes
<1>7. CheckpointFollowed'
  BY <1>0 DEF FlushTimer, CheckpointFollowed, CheckpointCoversHistory
<1>8. QED
  BY <1>1, <1>2, <1>3, <1>4, <1>5, <1>6, <1>7

\* A proposal is prepared with everything received flushed.
LEMMA PrepareProposalSettles ==
  ASSUME SessionInvariant, SettlementInduct, NEW e \in Executions, NEW outcome \in Outcomes,
         PrepareProposal(e, outcome)
  PROVE  SettlementInduct'
<1> USE DEF SettlementInduct, sessionVars, admissionVars, decisionVars, journalVars, finalVars, processVars,
            rowVars, executionVars, storeVars
<1>0. SettlementTypes
  BY SettlementTyped
<1>1. UnadmittedIsBlank'
  BY <1>0 DEF PrepareProposal, FlushTo, UnadmittedIsBlank
<1>2. FinalIsLast'
  BY <1>0 DEF PrepareProposal, FinalIsLast
<1>3. PreparedIsFlushed'
  BY <1>0 DEF PrepareProposal, FlushTo, PreparedIsFlushed, SettlementTypes, Undecided,
     FlushOutcomes
<1>4. CurrentIsProjected'
  BY <1>0 DEF PrepareProposal, FlushTo, CurrentIsProjected, Current, Undecided
<1>5. AcceptedIsDetached'
  BY <1>0 DEF PrepareProposal, AcceptedIsDetached
<1>6. SettledIsSavedAndReleased'
  BY <1>0 DEF PrepareProposal, FlushTo, SettledIsSavedAndReleased, AdoptedEvidenceComplete,
     OneTerminalRetained, FinalIsLast, SettlementTypes, Undecided
<1>7. CheckpointFollowed'
  BY <1>0 DEF PrepareProposal, CheckpointFollowed, CheckpointCoversHistory
<1>8. QED
  BY <1>1, <1>2, <1>3, <1>4, <1>5, <1>6, <1>7

\* What is adopted was prepared, and then nothing runs.
LEMMA AuthorizeAcceptedSettles ==
  ASSUME SessionInvariant, SettlementInduct, NEW e \in Executions, NEW outcome \in CommitOutcomes,
         AuthorizeAccepted(e, outcome)
  PROVE  SettlementInduct'
<1> USE DEF SettlementInduct, sessionVars, admissionVars, decisionVars, journalVars, finalVars, processVars,
            rowVars, executionVars, storeVars
<1>0. SettlementTypes
  BY SettlementTyped
<1>1. UnadmittedIsBlank'
  BY <1>0 DEF AuthorizeAccepted, RecordTerminal, NoTerminal, SettleRow, AdoptTurn,
     CanonicalCommitAccepted, UnadmittedIsBlank, PreparedIsFlushed, SettlementTypes, Undecided,
     SessionInvariant, TerminalMatchesRow, OwnerFresh
<1>2. FinalIsLast'
  BY <1>0 DEF AuthorizeAccepted, RecordTerminal, NoTerminal, FinalIsLast
<1>3. PreparedIsFlushed'
  BY <1>0 DEF AuthorizeAccepted, ApplyCommitted, RecordTerminal, NoTerminal, SettleRow, AdoptTurn,
     CanonicalCommitAccepted, PreparedIsFlushed, FinalIsLast, SettlementTypes, RowStates,
     Undecided, OwnerFresh, SettledIsSavedAndReleased, OneTerminalRetained,
     AdoptedEvidenceComplete, FlushOutcomes
<1>4. CurrentIsProjected'
  <2>1. e \in prepared /\ Current(e) /\ ~Undecided(e)'
    BY <1>0 DEF AuthorizeAccepted, PreparedIsFlushed, FinalIsLast, Current, Undecided,
       SettlementTypes
  <2>2. \A d \in Executions : Current(d)' => d # e /\ Current(d)
    BY <1>0, <2>1 DEF AuthorizeAccepted, RecordTerminal, NoTerminal, Current, Undecided
  <2>3. \A d \in Executions : ~Current(d)'
    BY <2>1, <2>2 DEF CurrentIsProjected
  <2>4. QED
    BY <2>3 DEF CurrentIsProjected
<1>5. AcceptedIsDetached'
  BY <1>0 DEF AuthorizeAccepted, RecordTerminal, NoTerminal, AcceptedIsDetached, SettlementTypes
<1>6. SettledIsSavedAndReleased'
  <2>1. /\ e \in held /\ finalKind[e] = "proposal"
        /\ durable[e] = received[e] /\ finalSequence[e] = received[e]
    BY <1>0 DEF AuthorizeAccepted, PreparedIsFlushed, FinalIsLast
  <2>2. UNCHANGED <<received, durable, saved, finalKind, finalSequence>>
    BY DEF AuthorizeAccepted
  <2>3. /\ held' \subseteq held
        /\ \A d \in Executions \ {e} : row'[d] = row[d] /\ terminal'[d] = terminal[d]
    BY <1>0 DEF AuthorizeAccepted, RecordTerminal, NoTerminal, SettleRow, AdoptTurn,
       SettlementTypes
  <2>4. AdoptedEvidenceComplete'
    BY <1>0, <2>1, <2>2, <2>3 DEF SettledIsSavedAndReleased, AdoptedEvidenceComplete,
       SettlementTypes
  <2>5. OneTerminalRetained'
    BY <1>0 DEF AuthorizeAccepted, RecordTerminal, NoTerminal, SettledIsSavedAndReleased,
       OneTerminalRetained, SettlementTypes
  <2>6. QED
    BY <2>4, <2>5 DEF SettledIsSavedAndReleased
<1>7. CheckpointFollowed'
  <2>1. Len(turns) \in Nat /\ Len(turns') >= Len(turns)
    BY DEF AuthorizeAccepted, AdoptTurn
  <2>2. UNCHANGED <<persistent, open, checkpoint, rollbackFailed, rowCheckpoint>>
    BY DEF AuthorizeAccepted
  <2>3. Len(turns') \in Nat /\ checkpoint \in Nat /\ rowCheckpoint \in Nat
    BY DEF SessionInvariant, TypeOK, RowTypeOK, SessionTypeOK
  <2>4. QED
    BY <2>1, <2>2, <2>3 DEF CheckpointFollowed, CheckpointCoversHistory
<1>8. QED
  BY <1>1, <1>2, <1>3, <1>4, <1>5, <1>6, <1>7

\* A rejected execution is not adopted.
LEMMA AuthorizeRejectedSettles ==
  ASSUME SessionInvariant, SettlementInduct, NEW e \in Executions, NEW outcome \in Outcomes,
         AuthorizeRejected(e, outcome)
  PROVE  SettlementInduct'
<1> USE DEF SettlementInduct, sessionVars, admissionVars, decisionVars, journalVars, finalVars, processVars,
            rowVars, executionVars, storeVars
<1>0. SettlementTypes
  BY SettlementTyped
<1>1. UnadmittedIsBlank'
  BY <1>0 DEF AuthorizeRejected, RecordTerminal, NoTerminal, SettleRow, UnadmittedIsBlank,
     SettlementTypes
<1>2. FinalIsLast'
  BY <1>0 DEF AuthorizeRejected, RecordTerminal, NoTerminal, FinalIsLast
<1>3. PreparedIsFlushed'
  BY <1>0 DEF AuthorizeRejected, RecordTerminal, NoTerminal, SettleRow, PreparedIsFlushed,
     SettlementTypes, SettledIsSavedAndReleased, OneTerminalRetained
<1>4. CurrentIsProjected'
  BY <1>0 DEF AuthorizeRejected, RecordTerminal, NoTerminal, CurrentIsProjected, Current,
     Undecided
<1>5. AcceptedIsDetached'
  BY <1>0 DEF AuthorizeRejected, RecordTerminal, NoTerminal, AcceptedIsDetached, SettlementTypes
<1>6. SettledIsSavedAndReleased'
  BY <1>0 DEF AuthorizeRejected, RecordTerminal, NoTerminal, SettleRow, SettledIsSavedAndReleased,
     AdoptedEvidenceComplete, OneTerminalRetained, SettlementTypes
<1>7. CheckpointFollowed'
  BY <1>0 DEF AuthorizeRejected, CheckpointFollowed, CheckpointCoversHistory
<1>8. QED
  BY <1>1, <1>2, <1>3, <1>4, <1>5, <1>6, <1>7

\* A failed execution is not adopted, and was not prepared.
LEMMA SettleFailureSettles ==
  ASSUME SessionInvariant, SettlementInduct, NEW e \in Executions, NEW flushOutcome \in Outcomes,
         NEW outcome \in Outcomes,
         SettleFailure(e, flushOutcome, outcome)
  PROVE  SettlementInduct'
<1> USE DEF SettlementInduct, sessionVars, admissionVars, decisionVars, journalVars, finalVars, processVars,
            rowVars, executionVars, storeVars
<1>0. SettlementTypes
  BY SettlementTyped
<1>1. UnadmittedIsBlank'
  BY <1>0 DEF SettleFailure, FlushTo, RecordTerminal, NoTerminal, SettleRow, UnadmittedIsBlank,
     SettlementTypes
<1>2. FinalIsLast'
  BY <1>0 DEF SettleFailure, RecordTerminal, NoTerminal, FinalIsLast
<1>3. PreparedIsFlushed'
  BY <1>0 DEF SettleFailure, FlushTo, RecordTerminal, NoTerminal, SettleRow, PreparedIsFlushed,
     SettlementTypes, SettledIsSavedAndReleased, OneTerminalRetained
<1>4. CurrentIsProjected'
  BY <1>0 DEF SettleFailure, FlushTo, RecordTerminal, NoTerminal, CurrentIsProjected, Current,
     Undecided, SettlementTypes
<1>5. AcceptedIsDetached'
  BY <1>0 DEF SettleFailure, RecordTerminal, NoTerminal, AcceptedIsDetached, SettlementTypes
<1>6. SettledIsSavedAndReleased'
  BY <1>0 DEF SettleFailure, FlushTo, RecordTerminal, NoTerminal, SettleRow,
     SettledIsSavedAndReleased, AdoptedEvidenceComplete, OneTerminalRetained, SettlementTypes
<1>7. CheckpointFollowed'
  BY <1>0 DEF SettleFailure, CheckpointFollowed, CheckpointCoversHistory
<1>8. QED
  BY <1>1, <1>2, <1>3, <1>4, <1>5, <1>6, <1>7

\* An execution that is given up is not adopted, whatever its flush comes to.
LEMMA SealGenerationSettles ==
  ASSUME SessionInvariant, SettlementInduct, NEW e \in Executions, NEW flushOutcome \in Outcomes,
         NEW outcome \in Outcomes,
         SealGeneration(e, flushOutcome, outcome)
  PROVE  SettlementInduct'
<1> USE DEF SettlementInduct, sessionVars, admissionVars, decisionVars, journalVars, finalVars, processVars,
            rowVars, executionVars, storeVars
<1>0. SettlementTypes
  BY SettlementTyped
<1>1. UnadmittedIsBlank'
  BY <1>0 DEF SealGeneration, FlushTo, RecordTerminal, NoTerminal, SettleRow, UnadmittedIsBlank,
     SettlementTypes
<1>2. FinalIsLast'
  BY <1>0 DEF SealGeneration, RecordTerminal, NoTerminal, FinalIsLast
<1>3. PreparedIsFlushed'
  BY <1>0 DEF SealGeneration, FlushTo, FlushOutcomes, RecordTerminal, NoTerminal, SettleRow,
     PreparedIsFlushed, SettlementTypes, SettledIsSavedAndReleased, OneTerminalRetained
<1>4. CurrentIsProjected'
  BY <1>0 DEF SealGeneration, FlushTo, RecordTerminal, NoTerminal, CurrentIsProjected, Current,
     Undecided, SettlementTypes
<1>5. AcceptedIsDetached'
  BY <1>0 DEF SealGeneration, RecordTerminal, NoTerminal, AcceptedIsDetached, SettlementTypes
<1>6. SettledIsSavedAndReleased'
  BY <1>0 DEF SealGeneration, FlushTo, RecordTerminal, NoTerminal, SettleRow,
     SettledIsSavedAndReleased, AdoptedEvidenceComplete, OneTerminalRetained, FinalIsLast,
     SettlementTypes, Undecided
<1>7. CheckpointFollowed'
  BY <1>0 DEF SealGeneration, CheckpointFollowed, CheckpointCoversHistory
<1>8. QED
  BY <1>1, <1>2, <1>3, <1>4, <1>5, <1>6, <1>7

\* The projection is not ahead of the log.
LEMMA InstallCheckpointSettles ==
  ASSUME SessionInvariant, SettlementInduct, NEW covered \in 1 .. nextTurn,
         InstallCheckpoint(covered)
  PROVE  SettlementInduct'
<1> USE DEF SettlementInduct, sessionVars, admissionVars, decisionVars, journalVars, finalVars, processVars,
            rowVars, executionVars, storeVars
<1>0. SettlementTypes
  BY SettlementTyped
<1>1. UnadmittedIsBlank'
  BY <1>0 DEF InstallCheckpoint, UnadmittedIsBlank
<1>2. FinalIsLast'
  BY <1>0 DEF InstallCheckpoint, FinalIsLast
<1>3. PreparedIsFlushed'
  BY <1>0 DEF InstallCheckpoint, PreparedIsFlushed
<1>4. CurrentIsProjected'
  BY <1>0 DEF InstallCheckpoint, CurrentIsProjected, Current, Undecided
<1>5. AcceptedIsDetached'
  BY <1>0 DEF InstallCheckpoint, AcceptedIsDetached
<1>6. SettledIsSavedAndReleased'
  BY <1>0 DEF InstallCheckpoint, SettledIsSavedAndReleased, AdoptedEvidenceComplete,
     OneTerminalRetained
<1>7. CheckpointFollowed'
  BY <1>0 DEF InstallCheckpoint, LeavesATurn, CheckpointFollowed, CheckpointCoversHistory, SessionInvariant,
     TurnLogConsistent, MemoryFollowsStore, TypeOK, SessionTypeOK
<1>8. QED
  BY <1>1, <1>2, <1>3, <1>4, <1>5, <1>6, <1>7

\* A canonical execution's turn is in the log.
LEMMA InstallAfterTurnContextSettles ==
  ASSUME SessionInvariant, SettlementInduct, NEW covered \in 1 .. nextTurn, NEW e \in Executions,
         NEW outcome \in Outcomes,
         InstallAfterTurnContext(e, covered, outcome)
  PROVE  SettlementInduct'
<1> USE DEF SettlementInduct, sessionVars, admissionVars, decisionVars, journalVars, finalVars, processVars,
            rowVars, executionVars, storeVars
<1>0. SettlementTypes
  BY SettlementTyped
<1>1. UnadmittedIsBlank'
  BY <1>0 DEF InstallAfterTurnContext, UnadmittedIsBlank
<1>2. FinalIsLast'
  BY <1>0 DEF InstallAfterTurnContext, FinalIsLast
<1>3. PreparedIsFlushed'
  BY <1>0 DEF InstallAfterTurnContext, PreparedIsFlushed
<1>4. CurrentIsProjected'
  BY <1>0 DEF InstallAfterTurnContext, CurrentIsProjected, Current, Undecided
<1>5. AcceptedIsDetached'
  BY <1>0 DEF InstallAfterTurnContext, AcceptedIsDetached
<1>6. SettledIsSavedAndReleased'
  BY <1>0 DEF InstallAfterTurnContext, SettledIsSavedAndReleased, AdoptedEvidenceComplete,
     OneTerminalRetained
<1>7. CheckpointFollowed'
  BY <1>0 DEF InstallAfterTurnContext, RestoredCheckpoint, LeavesATurn, CheckpointFollowed,
     CheckpointCoversHistory, SessionInvariant, TerminalMatchesRow, TurnLogConsistent,
     AcceptedIsDetached, TypeOK, SessionTypeOK, RowTypeOK, Outcomes
<1>8. QED
  BY <1>1, <1>2, <1>3, <1>4, <1>5, <1>6, <1>7

\* Nothing of the settlement moves.
LEMMA StutterSettles ==
  ASSUME SessionInvariant, SettlementInduct,
         Boot \/ FinishInitialize \/ UNCHANGED vars
  PROVE  SettlementInduct'
<1> USE DEF SettlementInduct, sessionVars, admissionVars, decisionVars, journalVars, finalVars, processVars,
            rowVars, executionVars, storeVars
<1>0. SettlementTypes
  BY SettlementTyped
<1>1. UnadmittedIsBlank'
  BY <1>0 DEF Boot, FinishInitialize, vars, UnadmittedIsBlank
<1>2. FinalIsLast'
  BY <1>0 DEF Boot, FinishInitialize, vars, FinalIsLast
<1>3. PreparedIsFlushed'
  BY <1>0 DEF Boot, FinishInitialize, vars, PreparedIsFlushed
<1>4. CurrentIsProjected'
  BY <1>0 DEF Boot, FinishInitialize, vars, CurrentIsProjected, Current, Undecided
<1>5. AcceptedIsDetached'
  BY <1>0 DEF Boot, FinishInitialize, vars, AcceptedIsDetached
<1>6. SettledIsSavedAndReleased'
  BY <1>0 DEF Boot, FinishInitialize, vars, SettledIsSavedAndReleased, AdoptedEvidenceComplete,
     OneTerminalRetained
<1>7. CheckpointFollowed'
  BY DEF Boot, FinishInitialize, vars, CheckpointFollowed, CheckpointCoversHistory
<1>8. QED
  BY <1>1, <1>2, <1>3, <1>4, <1>5, <1>6, <1>7

\* Nothing is admitted at first.
LEMMA SettlementAtStart == Init => SettlementInduct
BY DEF Init, SettlementInduct, UnadmittedIsBlank, FinalIsLast, PreparedIsFlushed,
   CurrentIsProjected, Current, Undecided, AcceptedIsDetached, SettledIsSavedAndReleased,
   AdoptedEvidenceComplete, OneTerminalRetained, CheckpointFollowed, CheckpointCoversHistory

\* Every method, fault, crash and restart keeps what a settlement rests on.
LEMMA SettlementKept ==
  ASSUME SessionInvariant, SettlementInduct, [Next]_vars
  PROVE  SettlementInduct'
<1>1. CASE Lifecycle
  BY <1>1, CrashSettles, StutterSettles, ReconcileExecutionSettles, OpenOwnerSettles,
     CloseOwnerSettles DEF Lifecycle
<1>2. CASE Admission
  BY <1>2, UpdateMetadataSettles, AdmitSettles, AdmitFailsAfterSessionSettles,
     AdmitFailsAfterExecutionSettles DEF Admission
<1>3. CASE Journal
  BY <1>3, ReceiveDataSettles, ReceiveOutOfSequenceSettles, FlushTimerSettles DEF Journal
<1>4. CASE Settlement
  BY <1>4, PrepareProposalSettles, AuthorizeAcceptedSettles, AuthorizeRejectedSettles,
     SettleFailureSettles, SealGenerationSettles DEF Settlement
<1>5. CASE Checkpointing
  BY <1>5, InstallCheckpointSettles, InstallAfterTurnContextSettles DEF Checkpointing
<1>6. CASE UNCHANGED vars
  BY <1>6, StutterSettles
<1>7. QED
  BY <1>1, <1>2, <1>3, <1>4, <1>5, <1>6 DEF Next

\* What a settlement rests on holds for every number of executions, any buffer limit
\* and any number of crashes.
THEOREM SettlementHolds == Spec => []SettlementInduct
  BY SettlementAtStart, SettlementKept, InvariantHolds, PTL DEF Spec

\* An adopted turn has its whole evidence in the store, and the owner keeps one settled
\* execution at most and no proposal of it.
THEOREM SettlementIsSaved == Spec => []SettledIsSavedAndReleased
<1>1. SettlementInduct => SettledIsSavedAndReleased
  BY DEF SettlementInduct
<1>2. QED
  BY <1>1, SettlementHolds, PTL

\* No checkpoint, installed during a turn or after it, taken back or read again by a new
\* owner, covers the last turn of the log, and unless taking one back has failed the row
\* holds the checkpoint of the memory.
THEOREM CheckpointHolds == Spec => []CheckpointCoversHistory
<1>1. SettlementInduct => CheckpointCoversHistory
  BY DEF SettlementInduct, CheckpointFollowed
<1>2. QED
  BY <1>1, SettlementHolds, PTL

\* Only applyCommitted moves the next turn of an open owner.
LEMMA OnlyCommitsAdvance ==
  ASSUME [Next]_vars, open, open', nextTurn' # nextTurn
  PROVE  \E e \in Executions, outcome \in {"ok", "unread"} :
           /\ AuthorizeAccepted(e, outcome)
           /\ stateRevision' = base[e] + 1 /\ nextTurn' = turn[e] + 1
<1> USE DEF sessionVars
<1>1. ASSUME NEW e \in Executions, NEW outcome \in CommitOutcomes, AuthorizeAccepted(e, outcome)
      PROVE  /\ outcome \in {"ok", "unread"}
             /\ stateRevision' = base[e] + 1 /\ nextTurn' = turn[e] + 1
  BY <1>1 DEF AuthorizeAccepted, ApplyCommitted
<1>2. ~Lifecycle
  BY DEF Lifecycle, Crash, ForgetSession, Boot, FinishInitialize, ReconcileExecution, OpenOwner,
     CloseOwner
<1>3. ~Admission
  BY DEF Admission, UpdateMetadata, Admit, AdmitUnanswered, HoldExecution,
     AdmitFailsAfterSession, AdmitFailsAfterExecution
<1>4. ~Journal
  BY DEF Journal, ReceiveData, ReceiveOutOfSequence, FlushTimer
<1>5. ~Checkpointing
  BY DEF Checkpointing, InstallCheckpoint, InstallAfterTurnContext
<1>6. ~UNCHANGED vars
  BY DEF vars
<1>7. CASE Settlement
  BY <1>1, <1>7 DEF Settlement, PrepareProposal, AuthorizeRejected, SettleFailure, SealGeneration
<1>8. QED
  BY <1>2, <1>3, <1>4, <1>5, <1>6, <1>7 DEF Next

\* The projection moves by one turn and one revision, and only in the step that accepts the
\* execution that was admitted for that turn and settles its row, as the log's next turn
\* unless the Session is detached.
THEOREM ProjectionAdvances == Spec => ProjectionAdvancesWithTurn
<1> DEFINE SettlesRow(e) ==
             IF persistent THEN row'[e] = "canonical" /\ turns' = Append(turns, e)
                           ELSE row'[e] = "non_canonical"
           Advances ==
             open /\ open' /\ nextTurn' # nextTurn =>
               /\ nextTurn' = nextTurn + 1
               /\ stateRevision' = stateRevision + 1
               /\ \E e \in held : /\ Undecided(e)
                                  /\ turn[e] = nextTurn
                                  /\ authorization'[e] = "accepted"
                                  /\ row[e] = "active"
                                  /\ SettlesRow(e)
<1>1. ASSUME SessionInvariant, SettlementInduct, [Next]_vars
      PROVE  Advances
  <2> SUFFICES ASSUME open, open', nextTurn' # nextTurn
               PROVE  /\ nextTurn' = nextTurn + 1
                      /\ stateRevision' = stateRevision + 1
                      /\ \E e \in held : /\ Undecided(e)
                                         /\ turn[e] = nextTurn
                                         /\ authorization'[e] = "accepted"
                                         /\ row[e] = "active"
                                         /\ SettlesRow(e)
    OBVIOUS
  <2>1. PICK e \in Executions, outcome \in {"ok", "unread"} :
          /\ AuthorizeAccepted(e, outcome)
          /\ stateRevision' = base[e] + 1 /\ nextTurn' = turn[e] + 1
    BY <1>1, OnlyCommitsAdvance
  <2>2. e \in held /\ Undecided(e) /\ Current(e)
    BY <1>1, <2>1 DEF AuthorizeAccepted, SettlementInduct, PreparedIsFlushed, FinalIsLast, Current
  <2>3. base[e] = stateRevision /\ turn[e] = nextTurn
    BY <1>1, <2>2 DEF SettlementInduct, CurrentIsProjected
  <2>4. authorization'[e] = "accepted" /\ row[e] = "active"
    BY <1>1, <2>1, <2>2, SettlementTyped
       DEF AuthorizeAccepted, SettlementTypes, SessionInvariant, TerminalMatchesRow
  <2>5. SettlesRow(e)
    BY <1>1, <2>1, SettlementTyped DEF AuthorizeAccepted, AdoptTurn, SettleRow, SettlementTypes
  <2>6. QED
    BY <2>1, <2>2, <2>3, <2>4, <2>5
<1>2. QED
  BY <1>1, InvariantHolds, SettlementHolds, PTL DEF Spec, ProjectionAdvancesWithTurn

-----------------------------------------------------------------------------
(***************************************************************************)
(*                       THE EXECUTION COORDINATOR                         *)
(***************************************************************************)

-----------------------------------------------------------------------------
(* The inductive invariant.                                                *)

\* Where R stands says how far the settlement is.
PlaceOfSettlement ==
  /\ pc \in PreparingPcs =>
       /\ commit = "none" /\ seal = "none" /\ terminalPromise = "none" /\ reported = << >>
       /\ data \in (IF pc = "failedStart" THEN {"none", "stuck"} ELSE {"none"})
  /\ HasExecution => data # "none"
  /\ pc \in {"failureSettled", "failureProcess"} => data = "non_canonical"
  /\ pc \in {"finally", "idle"} => data \notin {"active", "prepared"}
  /\ commit # "none" => pc \in {"joinCommit", "finally", "idle"}
  /\ commit \in {"authorized", "refused", "settled", "process"} => pc = "joinCommit"
  /\ seal # "none" => forced \/ pc \in {"joinSeal", "finally", "idle"}
  /\ terminalPromise = "none" => commit = "none" /\ seal = "none"

\* What the two promises have been told is what Data has decided.
PromisesFollowData ==
  /\ commit \in {"authorized", "settled", "process", "done"} => data \in Decided
  /\ commit \in {"refused", "failed"} => data = "stuck"
  /\ seal \in {"sealed", "done"} => data = "non_canonical"
  /\ seal \in {"refused", "failed"} => data = "stuck"
  /\ data = "canonical" => commit # "none" /\ seal = "none"

\* A turn is reported by its failure path or its commit promise, and by its seal.
ReportsAreCounted ==
  /\ Len(reported) <= (IF seal = "done" THEN 1 ELSE 0) +
                      (IF commit = "done" \/ (commit = "none" /\ pc \in {"finally", "idle"})
                       THEN 1 ELSE 0)
  /\ reported # << >> => data \in Decided

SettlementInvariant ==
  /\ CoordinatorTypeOK /\ ReportMatchesOutcome
  /\ PlaceOfSettlement /\ PromisesFollowData /\ ReportsAreCounted

\* The states of R that still need the generation it was admitted with.
NeedsGeneration ==
  pc \in {"capacity", "starting", "admit", "registration", "answer", "failureCleanup",
         "settleFailure", "failureSettled", "prepare", "proposalCleanup", "metadata"}

\* A generation that is lost where somebody still needs it was lost by a disturbance.
LossIsNoticed ==
  /\ NeedsGeneration /\ unavailable => disturbed
  /\ commit \in {"authorized", "settled"} /\ unavailable => disturbed
  /\ escalation = "process" => HasExecution /\ forced /\ unavailable
  /\ "worker_error" \in queue => worker = "dead"
  /\ pc \in {"capacity", "starting"} => unavailable \/ (worker = "starting" /\ queue = {})

\* What is armed belongs to a cancelled turn; only a cancel in the finally block leaves a
\* watchdog behind, and close comes after every turn.
TimersAreOwned ==
  /\ watchdog => cancelled /\ pc # "idle"
  /\ pc = "finally" /\ watchdog /\ ~disturbed => closing # "no"
  /\ staleWatchdog /\ ~disturbed => pc = "idle" /\ closing # "no"
  /\ closing \in {"stopping", "closed"} => pc = "idle"

GenerationInvariant ==
  SettlementInvariant /\ LossIsNoticed /\ TimersAreOwned

-----------------------------------------------------------------------------
(* Types: Boolean variables apart from all others.                        *)

FlagTypes ==
  /\ cancelled \in BOOLEAN /\ forced \in BOOLEAN
  /\ watchdog \in BOOLEAN /\ staleWatchdog \in BOOLEAN
  /\ unavailable \in BOOLEAN /\ needsReplacement \in BOOLEAN
  /\ steering \in BOOLEAN /\ disturbed \in BOOLEAN

StateTypes ==
  /\ pc \in {"idle"} \cup PreparingPcs \cup ExecutingPcs
  /\ commit \in {"none", "authorized", "refused", "settled", "process", "done", "failed"}
  /\ seal \in {"none", "cleanup", "sealed", "refused", "done", "failed"}
  /\ terminalPromise \in {"none", "commit", "seal"}
  /\ escalation \in {"none", "process"}
  /\ worker \in {"idle", "starting", "running", "answered", "hooks", "dead"}
  /\ queue \subseteq {"proposal_ready", "failure_ready", "turn_settled", "worker_error"}
  /\ data \in DataStates
  /\ reported \in Seq(BOOLEAN)
  /\ submitted \in 0 .. MaxTurns
  /\ closing \in {"no", "waiting", "stopping", "closed"}

\* What a turn_end event appended to the reports does to them.
LEMMA ReportAppended ==
  ASSUME NEW s \in Seq(BOOLEAN), NEW b \in BOOLEAN
  PROVE  /\ Append(s, b) \in Seq(BOOLEAN)
         /\ Len(Append(s, b)) = Len(s) + 1
         /\ Append(s, b) # << >>
         /\ DOMAIN s = 1 .. Len(s)
         /\ DOMAIN Append(s, b) = 1 .. (Len(s) + 1)
         /\ \A i \in 1 .. Len(s) : Append(s, b)[i] = s[i]
         /\ Append(s, b)[Len(s) + 1] = b
         /\ Len(s) \in Nat
  OBVIOUS

\* No step takes a variable of R, its promises, the Worker or the queue out of its type.
LEMMA StateTypesKept == CoordinatorTypeOK /\ [CoordinatorNext]_coordinatorVars => StateTypes'
  <1> SUFFICES ASSUME CoordinatorTypeOK, [CoordinatorNext]_coordinatorVars PROVE StateTypes'
    OBVIOUS
  <1> USE DEF promiseVars, cancelVars, generationVars, serviceVars,
              PreparingPcs, ExecutingPcs, HasExecution, Decided, DataStates,
              CoordinatorTypeOK, StateTypes
  <1>1. CASE ReplaceGeneration
    <2>1. pc' \in {"capacity", "failedStart"} /\ queue' \subseteq queue
      BY <1>1 DEF ReplaceGeneration
    <2>2. worker' \in {"starting", worker}
      BY <1>1 DEF ReplaceGeneration
    <2>3. UNCHANGED <<commit, seal, terminalPromise, escalation, data, reported, submitted,
                      closing>>
      BY <1>1 DEF ReplaceGeneration
    <2>4. QED
      BY <2>1, <2>2, <2>3
  <1>2. CASE StartRegisters
    BY <1>2 DEF StartRegisters
  <1>3. CASE FinishStart
    BY <1>3 DEF FinishStart, GenerationLost
  <1>4. CASE Admitted
    BY <1>4 DEF Admitted
  <1>5. CASE AbortAdmission
    BY <1>5 DEF AbortAdmission
  <1>6. CASE Registered
    BY <1>6 DEF Registered, Throw, Seal, Join, GenerationLost
  <1>7. CASE TakeAnswer
    BY <1>7 DEF TakeAnswer, GenerationLost, Answers
  <1>8. CASE ErrorCleaned
    BY <1>8 DEF ErrorCleaned, Throw, Seal, Join, GenerationLost
  <1>9. CASE CatchSeals
    BY <1>9 DEF CatchSeals, Seal, Join, GenerationLost
  <1>10. CASE FailureCleaned
    BY <1>10 DEF FailureCleaned, Throw, GenerationLost
  <1>11. CASE FailureReplied
    BY <1>11 DEF FailureReplied, Throw, Acknowledge, GenerationLost
  <1>12. CASE FailureSettled
    BY <1>12 DEF FailureSettled, GenerationLost, Settlements
  <1>13. CASE FailureProcessed
    BY <1>13 DEF FailureProcessed, Finish, Terminated
  <1>14. CASE Prepared
    BY <1>14 DEF Prepared, Throw, Join, GenerationLost
  <1>15. CASE ProposalCleaned
    BY <1>15 DEF ProposalCleaned, Throw, Join, GenerationLost
  <1>16. CASE Decide
    BY <1>16 DEF Decide, Throw, GenerationLost, MayCommit
  <1>17. CASE CommitJoined
    BY <1>17 DEF CommitJoined, Finish, GenerationLost
  <1>18. CASE SealJoined
    BY <1>18 DEF SealJoined, Finish
  <1>19. CASE FinishTurn
    BY <1>19 DEF FinishTurn
  <1>20. CASE StopWorker
    BY <1>20 DEF StopWorker, Terminated
  <1>21. CASE StopFails
    BY <1>21 DEF StopFails, Terminated
  <1>22. CASE CommitReplied
    BY <1>22 DEF CommitReplied, Acknowledge, GenerationLost
  <1>23. CASE CommitSettled
    BY <1>23 DEF CommitSettled, GenerationLost, Settlements
  <1>24. CASE CommitProcessed
    BY <1>24 DEF CommitProcessed
  <1>25. CASE SealCleaned
    BY <1>25 DEF SealCleaned
  <1>26. CASE SealReplied
    <2>1. reported' \in Seq(BOOLEAN)
      <3>1. CASE reported' = Append(reported, FALSE)
        BY <3>1, ReportAppended
      <3>2. CASE reported' = reported
        BY <3>2
      <3>3. QED
        BY <1>26, <3>1, <3>2 DEF SealReplied
    <2>2. seal' \in {"done", "failed"}
      BY <1>26 DEF SealReplied
    <2>3. UNCHANGED <<pc, commit, terminalPromise, escalation, worker, queue, data, submitted,
                      closing>>
      BY <1>26 DEF SealReplied
    <2>4. QED
      BY <2>1, <2>2, <2>3
  <1>27. CASE WorkerSettles
    BY <1>27 DEF WorkerSettles
  <1>28. CASE WorkerCloses
    BY <1>28 DEF WorkerCloses, Terminated
  <1>29. CASE WorkerErrs
    BY <1>29 DEF WorkerErrs
  <1>30. CASE Cancel
    BY <1>30 DEF Cancel, GenerationLost, RejectWaiters, ReadyPending, AnswerPending,
       FailurePending, CommitPending, HostWaitsForWorker, RequestCancel, SendCommand,
       Cancellable
  <1>31. CASE Steer
    BY <1>31 DEF Steer, GenerationLost, RejectWaiters, ReadyPending, AnswerPending,
       FailurePending, CommitPending, HostWaitsForWorker
  <1>32. CASE SteerReply
    BY <1>32 DEF SteerReply
  <1>33. CASE SteerTimeout
    BY <1>33 DEF SteerTimeout, GenerationLost, RejectWaiters, ReadyPending, AnswerPending,
       FailurePending, CommitPending, HostWaitsForWorker
  <1>34. CASE Close
    BY <1>34 DEF Close, GenerationLost, RejectWaiters, ReadyPending, AnswerPending,
       FailurePending, CommitPending, HostWaitsForWorker, RequestCancel, SendCommand,
       Cancellable
  <1>35. CASE WatchdogFires
    BY <1>35 DEF WatchdogFires, GenerationLost, RejectWaiters, ReadyPending, AnswerPending,
       FailurePending, CommitPending, HostWaitsForWorker
  <1>36. CASE Escalate
    BY <1>36 DEF Escalate, GenerationLost, RejectWaiters, ReadyPending, AnswerPending,
       FailurePending, CommitPending, HostWaitsForWorker
  <1>37. CASE StaleWatchdogFires
    BY <1>37 DEF StaleWatchdogFires, GenerationLost, RejectWaiters, ReadyPending,
       AnswerPending, FailurePending, CommitPending, HostWaitsForWorker
  <1>38. ASSUME NEW initiallyCancelled \in BOOLEAN, Submit(initiallyCancelled)
        PROVE  StateTypes'
    BY MaxTurnsAssumption, <1>38 DEF Submit, FreshExecution
  <1>39. ASSUME NEW m \in {"proposal_ready", "failure_ready"}, WorkerAnswers(m)
        PROVE  StateTypes'
    BY <1>39 DEF WorkerAnswers
  <1>40. CASE UNCHANGED coordinatorVars
    BY <1>40 DEF coordinatorVars
  <1>41. QED
    BY <1>1, <1>2, <1>3, <1>4, <1>5, <1>6, <1>7, <1>8, <1>9, <1>10, <1>11, <1>12, <1>13,
       <1>14, <1>15, <1>16, <1>17, <1>18, <1>19, <1>20, <1>21, <1>22, <1>23, <1>24, <1>25,
       <1>26, <1>27, <1>28, <1>29, <1>30, <1>31, <1>32, <1>33, <1>34, <1>35, <1>36, <1>37,
       <1>38, <1>39, <1>40 DEF CoordinatorNext, HostSteps, CloseSteps, CommitSteps, SealSteps,
       WorkerSteps, UserSteps

\* No step gives a flag of the coordinator a value that is not a Boolean.
LEMMA FlagTypesKept == CoordinatorTypeOK /\ [CoordinatorNext]_coordinatorVars => FlagTypes'
  <1> SUFFICES ASSUME CoordinatorTypeOK, [CoordinatorNext]_coordinatorVars PROVE FlagTypes'
    OBVIOUS
  <1> USE DEF promiseVars, cancelVars, generationVars, serviceVars,
              PreparingPcs, ExecutingPcs, HasExecution, Decided, DataStates,
              CoordinatorTypeOK, FlagTypes
  <1>1. CASE ReplaceGeneration
    BY <1>1 DEF ReplaceGeneration
  <1>2. CASE StartRegisters
    BY <1>2 DEF StartRegisters
  <1>3. CASE FinishStart
    BY <1>3 DEF FinishStart, GenerationLost
  <1>4. CASE Admitted
    BY <1>4 DEF Admitted
  <1>5. CASE AbortAdmission
    BY <1>5 DEF AbortAdmission
  <1>6. CASE Registered
    BY <1>6 DEF Registered, Throw, Seal, Join, GenerationLost
  <1>7. CASE TakeAnswer
    BY <1>7 DEF TakeAnswer, GenerationLost, Answers
  <1>8. CASE ErrorCleaned
    BY <1>8 DEF ErrorCleaned, Throw, Seal, Join, GenerationLost
  <1>9. CASE CatchSeals
    BY <1>9 DEF CatchSeals, Seal, Join, GenerationLost
  <1>10. CASE FailureCleaned
    BY <1>10 DEF FailureCleaned, Throw, GenerationLost
  <1>11. CASE FailureReplied
    BY <1>11 DEF FailureReplied, Throw, Acknowledge, GenerationLost
  <1>12. CASE FailureSettled
    BY <1>12 DEF FailureSettled, GenerationLost, Settlements
  <1>13. CASE FailureProcessed
    BY <1>13 DEF FailureProcessed, Finish, Terminated
  <1>14. CASE Prepared
    BY <1>14 DEF Prepared, Throw, Join, GenerationLost
  <1>15. CASE ProposalCleaned
    BY <1>15 DEF ProposalCleaned, Throw, Join, GenerationLost
  <1>16. CASE Decide
    BY <1>16 DEF Decide, Throw, GenerationLost, MayCommit
  <1>17. CASE CommitJoined
    BY <1>17 DEF CommitJoined, Finish, GenerationLost
  <1>18. CASE SealJoined
    BY <1>18 DEF SealJoined, Finish
  <1>19. CASE FinishTurn
    BY <1>19 DEF FinishTurn
  <1>20. CASE StopWorker
    BY <1>20 DEF StopWorker, Terminated
  <1>21. CASE StopFails
    BY <1>21 DEF StopFails, Terminated
  <1>22. CASE CommitReplied
    BY <1>22 DEF CommitReplied, Acknowledge, GenerationLost
  <1>23. CASE CommitSettled
    BY <1>23 DEF CommitSettled, GenerationLost, Settlements
  <1>24. CASE CommitProcessed
    BY <1>24 DEF CommitProcessed
  <1>25. CASE SealCleaned
    BY <1>25 DEF SealCleaned
  <1>26. CASE SealReplied
    BY <1>26 DEF SealReplied
  <1>27. CASE WorkerSettles
    BY <1>27 DEF WorkerSettles
  <1>28. CASE WorkerCloses
    BY <1>28 DEF WorkerCloses, Terminated
  <1>29. CASE WorkerErrs
    BY <1>29 DEF WorkerErrs
  <1>30. CASE Cancel
    BY <1>30 DEF Cancel, GenerationLost, RejectWaiters, ReadyPending, AnswerPending,
       FailurePending, CommitPending, HostWaitsForWorker, RequestCancel, SendCommand,
       Cancellable
  <1>31. CASE Steer
    BY <1>31 DEF Steer, GenerationLost, RejectWaiters, ReadyPending, AnswerPending,
       FailurePending, CommitPending, HostWaitsForWorker
  <1>32. CASE SteerReply
    BY <1>32 DEF SteerReply
  <1>33. CASE SteerTimeout
    BY <1>33 DEF SteerTimeout, GenerationLost, RejectWaiters, ReadyPending, AnswerPending,
       FailurePending, CommitPending, HostWaitsForWorker
  <1>34. CASE Close
    BY <1>34 DEF Close, GenerationLost, RejectWaiters, ReadyPending, AnswerPending,
       FailurePending, CommitPending, HostWaitsForWorker, RequestCancel, SendCommand,
       Cancellable
  <1>35. CASE WatchdogFires
    <2>1. HasExecution \in BOOLEAN /\ HostWaitsForWorker \in BOOLEAN
      BY DEF HostWaitsForWorker, ReadyPending, AnswerPending, FailurePending, CommitPending
    <2>2. forced' \in BOOLEAN /\ disturbed' \in BOOLEAN
      BY <1>35, <2>1 DEF WatchdogFires
    <2>3. QED
      BY <1>35, <2>2 DEF WatchdogFires, GenerationLost
  <1>36. CASE Escalate
    BY <1>36 DEF Escalate, GenerationLost, RejectWaiters, ReadyPending, AnswerPending,
       FailurePending, CommitPending, HostWaitsForWorker
  <1>37. CASE StaleWatchdogFires
    BY <1>37 DEF StaleWatchdogFires, GenerationLost, RejectWaiters, ReadyPending,
       AnswerPending, FailurePending, CommitPending, HostWaitsForWorker
  <1>38. ASSUME NEW initiallyCancelled \in BOOLEAN, Submit(initiallyCancelled)
        PROVE  FlagTypes'
    BY MaxTurnsAssumption, <1>38 DEF Submit, FreshExecution
  <1>39. ASSUME NEW m \in {"proposal_ready", "failure_ready"}, WorkerAnswers(m)
        PROVE  FlagTypes'
    BY <1>39 DEF WorkerAnswers
  <1>40. CASE UNCHANGED coordinatorVars
    BY <1>40 DEF coordinatorVars
  <1>41. QED
    BY <1>1, <1>2, <1>3, <1>4, <1>5, <1>6, <1>7, <1>8, <1>9, <1>10, <1>11, <1>12, <1>13,
       <1>14, <1>15, <1>16, <1>17, <1>18, <1>19, <1>20, <1>21, <1>22, <1>23, <1>24, <1>25,
       <1>26, <1>27, <1>28, <1>29, <1>30, <1>31, <1>32, <1>33, <1>34, <1>35, <1>36, <1>37,
       <1>38, <1>39, <1>40 DEF CoordinatorNext, HostSteps, CloseSteps, CommitSteps, SealSteps,
       WorkerSteps, UserSteps

-----------------------------------------------------------------------------
(* The settlement and the generation.                                      *)

\* Every step keeps the four invariants of places, promises, losses and timers: each
\* relies on the others, so they are proved together.
LEMMA PlacesKept ==
  GenerationInvariant /\ [CoordinatorNext]_coordinatorVars =>
    (PlaceOfSettlement /\ PromisesFollowData /\ LossIsNoticed /\ TimersAreOwned)'
  <1> DEFINE Places == PlaceOfSettlement /\ PromisesFollowData
             Losses == LossIsNoticed /\ TimersAreOwned
  <1> SUFFICES ASSUME GenerationInvariant, [CoordinatorNext]_coordinatorVars PROVE Places' /\ Losses'
    OBVIOUS
  <1> USE DEF promiseVars, cancelVars, generationVars, serviceVars,
              PreparingPcs, ExecutingPcs, HasExecution, Decided,
              GenerationInvariant, SettlementInvariant, CoordinatorTypeOK, PlaceOfSettlement,
              PromisesFollowData, LossIsNoticed, NeedsGeneration, TimersAreOwned
  <1>1. CASE ReplaceGeneration
    BY <1>1 DEF ReplaceGeneration
  <1>2. CASE StartRegisters
    BY <1>2 DEF StartRegisters
  <1>3. CASE FinishStart
    BY <1>3 DEF FinishStart, GenerationLost
  <1>4. CASE Admitted
    BY <1>4 DEF Admitted
  <1>5. CASE AbortAdmission
    BY <1>5 DEF AbortAdmission
  <1>6. CASE Registered
    BY <1>6 DEF Registered, Throw, Seal, Join, GenerationLost
  <1>7. CASE TakeAnswer
    BY <1>7 DEF TakeAnswer, GenerationLost, Answers
  <1>8. CASE ErrorCleaned
    BY <1>8 DEF ErrorCleaned, Throw, Seal, Join, GenerationLost
  <1>9. CASE CatchSeals
    BY <1>9 DEF CatchSeals, Seal, Join, GenerationLost
  <1>10. CASE FailureCleaned
    BY <1>10 DEF FailureCleaned, Throw, GenerationLost
  <1>11. CASE FailureReplied
    BY <1>11 DEF FailureReplied, Throw, Acknowledge, GenerationLost
  <1>12. CASE FailureSettled
    BY <1>12 DEF FailureSettled, GenerationLost, Settlements
  <1>13. CASE FailureProcessed
    BY <1>13 DEF FailureProcessed, Finish, Terminated
  <1>14. CASE Prepared
    BY <1>14 DEF Prepared, Throw, Join, GenerationLost
  <1>15. CASE ProposalCleaned
    BY <1>15 DEF ProposalCleaned, Throw, Join, GenerationLost
  <1>16. CASE Decide
    BY <1>16 DEF Decide, Throw, GenerationLost, MayCommit
  <1>17. CASE CommitJoined
    BY <1>17 DEF CommitJoined, Finish, GenerationLost
  <1>18. CASE SealJoined
    BY <1>18 DEF SealJoined, Finish
  <1>19. CASE FinishTurn
    BY <1>19 DEF FinishTurn
  <1>20. CASE StopWorker
    BY <1>20 DEF StopWorker, Terminated
  <1>21. CASE StopFails
    BY <1>21 DEF StopFails, Terminated
  <1>22. CASE CommitReplied
    BY <1>22 DEF CommitReplied, Acknowledge, GenerationLost
  <1>23. CASE CommitSettled
    BY <1>23 DEF CommitSettled, GenerationLost, Settlements
  <1>24. CASE CommitProcessed
    BY <1>24 DEF CommitProcessed
  <1>25. CASE SealCleaned
    BY <1>25 DEF SealCleaned
  <1>26. CASE SealReplied
    <2>1. CASE seal = "sealed"
      BY <1>26, <2>1, ReportAppended DEF SealReplied
    <2>2. CASE seal = "refused"
      BY <1>26, <2>2 DEF SealReplied
    <2>3. QED
      BY <1>26, <2>1, <2>2 DEF SealReplied
  <1>27. CASE WorkerSettles
    BY <1>27 DEF WorkerSettles
  <1>28. CASE WorkerCloses
    BY <1>28 DEF WorkerCloses, Terminated
  <1>29. CASE WorkerErrs
    BY <1>29 DEF WorkerErrs
  <1>30. CASE Cancel
    <2>1. PlaceOfSettlement'
      BY <1>30 DEF Cancel, GenerationLost, RejectWaiters, ReadyPending, AnswerPending,
         FailurePending, CommitPending, HostWaitsForWorker, RequestCancel, SendCommand,
         Cancellable
    <2>2. PromisesFollowData'
      BY <1>30 DEF Cancel, GenerationLost, RejectWaiters, ReadyPending, AnswerPending,
         FailurePending, CommitPending, HostWaitsForWorker, RequestCancel, SendCommand,
         Cancellable
    <2>3. LossIsNoticed'
      BY <1>30 DEF Cancel, GenerationLost, RejectWaiters, ReadyPending, AnswerPending,
         FailurePending, CommitPending, HostWaitsForWorker, RequestCancel, SendCommand,
         Cancellable
    <2>4. TimersAreOwned'
      BY <1>30 DEF Cancel, GenerationLost, RejectWaiters, ReadyPending, AnswerPending,
         FailurePending, CommitPending, HostWaitsForWorker, RequestCancel, SendCommand,
         Cancellable
    <2>5. QED
      BY <2>1, <2>2, <2>3, <2>4
  <1>31. CASE Steer
    <2>1. PlaceOfSettlement'
      BY <1>31 DEF Steer, GenerationLost, RejectWaiters, ReadyPending, AnswerPending,
         FailurePending, CommitPending, HostWaitsForWorker
    <2>2. PromisesFollowData'
      BY <1>31 DEF Steer, GenerationLost, RejectWaiters, ReadyPending, AnswerPending,
         FailurePending, CommitPending, HostWaitsForWorker
    <2>3. LossIsNoticed'
      BY <1>31 DEF Steer, GenerationLost, RejectWaiters, ReadyPending, AnswerPending,
         FailurePending, CommitPending, HostWaitsForWorker
    <2>4. TimersAreOwned'
      BY <1>31 DEF Steer, GenerationLost, RejectWaiters, ReadyPending, AnswerPending,
         FailurePending, CommitPending, HostWaitsForWorker
    <2>5. QED
      BY <2>1, <2>2, <2>3, <2>4
  <1>32. CASE SteerReply
    BY <1>32 DEF SteerReply
  <1>33. CASE SteerTimeout
    <2>1. PlaceOfSettlement'
      BY <1>33 DEF SteerTimeout, GenerationLost, RejectWaiters, ReadyPending, AnswerPending,
         FailurePending, CommitPending, HostWaitsForWorker
    <2>2. PromisesFollowData'
      BY <1>33 DEF SteerTimeout, GenerationLost, RejectWaiters, ReadyPending, AnswerPending,
         FailurePending, CommitPending, HostWaitsForWorker
    <2>3. LossIsNoticed'
      BY <1>33 DEF SteerTimeout, GenerationLost, RejectWaiters, ReadyPending, AnswerPending,
         FailurePending, CommitPending, HostWaitsForWorker
    <2>4. TimersAreOwned'
      BY <1>33 DEF SteerTimeout, GenerationLost, RejectWaiters, ReadyPending, AnswerPending,
         FailurePending, CommitPending, HostWaitsForWorker
    <2>5. QED
      BY <2>1, <2>2, <2>3, <2>4
  <1>34. CASE Close
    <2>1. PlaceOfSettlement'
      BY <1>34 DEF Close, GenerationLost, RejectWaiters, ReadyPending, AnswerPending,
         FailurePending, CommitPending, HostWaitsForWorker, RequestCancel, SendCommand,
         Cancellable
    <2>2. PromisesFollowData'
      BY <1>34 DEF Close, GenerationLost, RejectWaiters, ReadyPending, AnswerPending,
         FailurePending, CommitPending, HostWaitsForWorker, RequestCancel, SendCommand,
         Cancellable
    <2>3. LossIsNoticed'
      BY <1>34 DEF Close, GenerationLost, RejectWaiters, ReadyPending, AnswerPending,
         FailurePending, CommitPending, HostWaitsForWorker, RequestCancel, SendCommand,
         Cancellable
    <2>4. TimersAreOwned'
      BY <1>34 DEF Close, GenerationLost, RejectWaiters, ReadyPending, AnswerPending,
         FailurePending, CommitPending, HostWaitsForWorker, RequestCancel, SendCommand,
         Cancellable
    <2>5. QED
      BY <2>1, <2>2, <2>3, <2>4
  <1>35. CASE WatchdogFires
    <2>1. PlaceOfSettlement'
      BY <1>35 DEF WatchdogFires, GenerationLost, RejectWaiters, ReadyPending, AnswerPending,
         FailurePending, CommitPending, HostWaitsForWorker
    <2>2. PromisesFollowData'
      BY <1>35 DEF WatchdogFires, GenerationLost, RejectWaiters, ReadyPending, AnswerPending,
         FailurePending, CommitPending, HostWaitsForWorker
    <2>3. LossIsNoticed'
      BY <1>35 DEF WatchdogFires, GenerationLost, RejectWaiters, ReadyPending, AnswerPending,
         FailurePending, CommitPending, HostWaitsForWorker
    <2>4. TimersAreOwned'
      BY <1>35 DEF WatchdogFires, GenerationLost, RejectWaiters, ReadyPending, AnswerPending,
         FailurePending, CommitPending, HostWaitsForWorker
    <2>5. QED
      BY <2>1, <2>2, <2>3, <2>4
  <1>36. CASE Escalate
    <2>1. PlaceOfSettlement'
      BY <1>36 DEF Escalate, GenerationLost, RejectWaiters, ReadyPending, AnswerPending,
         FailurePending, CommitPending, HostWaitsForWorker
    <2>2. PromisesFollowData'
      BY <1>36 DEF Escalate, GenerationLost, RejectWaiters, ReadyPending, AnswerPending,
         FailurePending, CommitPending, HostWaitsForWorker
    <2>3. LossIsNoticed'
      BY <1>36 DEF Escalate, GenerationLost, RejectWaiters, ReadyPending, AnswerPending,
         FailurePending, CommitPending, HostWaitsForWorker
    <2>4. TimersAreOwned'
      BY <1>36 DEF Escalate, GenerationLost, RejectWaiters, ReadyPending, AnswerPending,
         FailurePending, CommitPending, HostWaitsForWorker
    <2>5. QED
      BY <2>1, <2>2, <2>3, <2>4
  <1>37. CASE StaleWatchdogFires
    <2>1. PlaceOfSettlement'
      BY <1>37 DEF StaleWatchdogFires, GenerationLost, RejectWaiters, ReadyPending,
         AnswerPending, FailurePending, CommitPending, HostWaitsForWorker
    <2>2. PromisesFollowData'
      BY <1>37 DEF StaleWatchdogFires, GenerationLost, RejectWaiters, ReadyPending,
         AnswerPending, FailurePending, CommitPending, HostWaitsForWorker
    <2>3. LossIsNoticed'
      BY <1>37 DEF StaleWatchdogFires, GenerationLost, RejectWaiters, ReadyPending,
         AnswerPending, FailurePending, CommitPending, HostWaitsForWorker
    <2>4. TimersAreOwned'
      BY <1>37 DEF StaleWatchdogFires, GenerationLost, RejectWaiters, ReadyPending,
         AnswerPending, FailurePending, CommitPending, HostWaitsForWorker
    <2>5. QED
      BY <2>1, <2>2, <2>3, <2>4
  <1>38. ASSUME NEW initiallyCancelled \in BOOLEAN, Submit(initiallyCancelled)
        PROVE  Places' /\ Losses'
    BY MaxTurnsAssumption, <1>38 DEF Submit, FreshExecution
  <1>39. ASSUME NEW m \in {"proposal_ready", "failure_ready"}, WorkerAnswers(m)
        PROVE  Places' /\ Losses'
    BY <1>39 DEF WorkerAnswers
  <1>40. CASE UNCHANGED coordinatorVars
    BY <1>40 DEF coordinatorVars
  <1>41. QED
    BY <1>1, <1>2, <1>3, <1>4, <1>5, <1>6, <1>7, <1>8, <1>9, <1>10, <1>11, <1>12, <1>13,
       <1>14, <1>15, <1>16, <1>17, <1>18, <1>19, <1>20, <1>21, <1>22, <1>23, <1>24, <1>25,
       <1>26, <1>27, <1>28, <1>29, <1>30, <1>31, <1>32, <1>33, <1>34, <1>35, <1>36, <1>37,
       <1>38, <1>39, <1>40 DEF CoordinatorNext, HostSteps, CloseSteps, CommitSteps, SealSteps,
       WorkerSteps, UserSteps

\* A turn_end event that says what Data has decided agrees with all of them.
LEMMA ReportAdded ==
  ASSUME GenerationInvariant, NEW b \in BOOLEAN,
         reported' = Append(reported, b), data' = data,
         data = IF b THEN "canonical" ELSE "non_canonical"
  PROVE  /\ ReportMatchesOutcome'
         /\ Len(reported') = Len(reported) + 1 /\ Len(reported) \in Nat
         /\ reported' # << >>
  <1>1. reported \in Seq(BOOLEAN) /\ ReportMatchesOutcome
    BY DEF GenerationInvariant, SettlementInvariant, CoordinatorTypeOK
  <1>2. \A i \in 1 .. Len(reported) + 1 :
          data = IF reported'[i] THEN "canonical" ELSE "non_canonical"
    <2>1. TAKE i \in 1 .. Len(reported) + 1
    <2>2. CASE i = Len(reported) + 1
      BY <1>1, <2>2, ReportAppended
    <2>3. CASE i # Len(reported) + 1
      BY <1>1, <2>3, ReportAppended DEF ReportMatchesOutcome
    <2>4. QED
      BY <2>2, <2>3
  <1>3. QED
    BY <1>1, <1>2, ReportAppended DEF ReportMatchesOutcome

\* Every step keeps the reports in number and in agreement with Data: a second report
\* follows only where the commit promise and a seal overlap.
LEMMA ReportsKept ==
  GenerationInvariant /\ [CoordinatorNext]_coordinatorVars => (ReportsAreCounted /\ ReportMatchesOutcome)'
  <1> SUFFICES ASSUME GenerationInvariant, [CoordinatorNext]_coordinatorVars
               PROVE  ReportsAreCounted' /\ ReportMatchesOutcome'
    OBVIOUS
  <1> USE DEF promiseVars, cancelVars, generationVars, serviceVars,
              PreparingPcs, ExecutingPcs, HasExecution, Decided,
              GenerationInvariant, SettlementInvariant, CoordinatorTypeOK, PlaceOfSettlement,
              PromisesFollowData, ReportsAreCounted, ReportMatchesOutcome
  <1>1. CASE ReplaceGeneration
    BY <1>1 DEF ReplaceGeneration
  <1>2. CASE StartRegisters
    BY <1>2 DEF StartRegisters
  <1>3. CASE FinishStart
    BY <1>3 DEF FinishStart, GenerationLost
  <1>4. CASE Admitted
    BY <1>4 DEF Admitted
  <1>5. CASE AbortAdmission
    BY <1>5 DEF AbortAdmission
  <1>6. CASE Registered
    BY <1>6 DEF Registered, Throw, Seal, Join, GenerationLost
  <1>7. CASE TakeAnswer
    BY <1>7 DEF TakeAnswer, GenerationLost, Answers
  <1>8. CASE ErrorCleaned
    BY <1>8 DEF ErrorCleaned, Throw, Seal, Join, GenerationLost
  <1>9. CASE CatchSeals
    BY <1>9 DEF CatchSeals, Seal, Join, GenerationLost
  <1>10. CASE FailureCleaned
    BY <1>10 DEF FailureCleaned, Throw, GenerationLost
  <1>11. CASE FailureReplied
    BY <1>11 DEF FailureReplied, Throw, Acknowledge, GenerationLost
  <1>12. CASE FailureSettled
    BY <1>12 DEF FailureSettled, GenerationLost, Settlements
  <1>13. CASE FailureProcessed
    <2>1. /\ UNCHANGED <<data, seal, commit>> /\ pc = "failureProcess" /\ pc' = "finally"
          /\ reported' = Append(reported, FALSE)
      BY <1>13 DEF FailureProcessed, Finish
    <2>2. /\ ReportMatchesOutcome'
          /\ Len(reported') = Len(reported) + 1 /\ Len(reported) \in Nat
      BY <2>1, ReportAdded
    <2>3. ReportsAreCounted'
      BY <2>1, <2>2
    <2>4. QED
      BY <2>2, <2>3
  <1>14. CASE Prepared
    BY <1>14 DEF Prepared, Throw, Join, GenerationLost
  <1>15. CASE ProposalCleaned
    BY <1>15 DEF ProposalCleaned, Throw, Join, GenerationLost
  <1>16. CASE Decide
    BY <1>16 DEF Decide, Throw, GenerationLost, MayCommit
  <1>17. CASE CommitJoined
    BY <1>17 DEF CommitJoined, Finish, GenerationLost
  <1>18. CASE SealJoined
    BY <1>18 DEF SealJoined, Finish
  <1>19. CASE FinishTurn
    BY <1>19 DEF FinishTurn
  <1>20. CASE StopWorker
    BY <1>20 DEF StopWorker, Terminated
  <1>21. CASE StopFails
    BY <1>21 DEF StopFails, Terminated
  <1>22. CASE CommitReplied
    BY <1>22 DEF CommitReplied, Acknowledge, GenerationLost
  <1>23. CASE CommitSettled
    BY <1>23 DEF CommitSettled, GenerationLost, Settlements
  <1>24. CASE CommitProcessed
    <2>1. /\ UNCHANGED <<data, pc, seal>> /\ commit = "process" /\ commit' = "done"
          /\ reported' = Append(reported, data = "canonical")
      BY <1>24 DEF CommitProcessed
    <2>2. (data = "canonical") \in BOOLEAN
      OBVIOUS
    <2>3. data = IF data = "canonical" THEN "canonical" ELSE "non_canonical"
      BY <2>1
    <2>4. /\ ReportMatchesOutcome'
          /\ Len(reported') = Len(reported) + 1 /\ Len(reported) \in Nat
      BY <2>1, <2>2, <2>3, ReportAdded
    <2>5. ReportsAreCounted'
      BY <2>1, <2>4
    <2>6. QED
      BY <2>4, <2>5
  <1>25. CASE SealCleaned
    BY <1>25 DEF SealCleaned
  <1>26. CASE SealReplied
    <2>1. UNCHANGED <<data, pc, commit>>
      BY <1>26 DEF SealReplied
    <2>2. CASE seal = "sealed" /\ seal' = "done" /\ reported' = Append(reported, FALSE)
      BY <2>1, <2>2, ReportAdded
    <2>3. CASE seal = "refused" /\ seal' = "failed" /\ reported' = reported
      BY <2>1, <2>3
    <2>4. QED
      BY <1>26, <2>2, <2>3 DEF SealReplied
  <1>27. CASE WorkerSettles
    BY <1>27 DEF WorkerSettles
  <1>28. CASE WorkerCloses
    BY <1>28 DEF WorkerCloses, Terminated
  <1>29. CASE WorkerErrs
    BY <1>29 DEF WorkerErrs
  <1>30. CASE Cancel
    BY <1>30 DEF Cancel, GenerationLost, RejectWaiters, ReadyPending, AnswerPending,
       FailurePending, CommitPending, HostWaitsForWorker, RequestCancel, SendCommand,
       Cancellable
  <1>31. CASE Steer
    BY <1>31 DEF Steer, GenerationLost, RejectWaiters, ReadyPending, AnswerPending,
       FailurePending, CommitPending, HostWaitsForWorker
  <1>32. CASE SteerReply
    BY <1>32 DEF SteerReply
  <1>33. CASE SteerTimeout
    BY <1>33 DEF SteerTimeout, GenerationLost, RejectWaiters, ReadyPending, AnswerPending,
       FailurePending, CommitPending, HostWaitsForWorker
  <1>34. CASE Close
    BY <1>34 DEF Close, GenerationLost, RejectWaiters, ReadyPending, AnswerPending,
       FailurePending, CommitPending, HostWaitsForWorker, RequestCancel, SendCommand,
       Cancellable
  <1>35. CASE WatchdogFires
    BY <1>35 DEF WatchdogFires, GenerationLost, RejectWaiters, ReadyPending, AnswerPending,
       FailurePending, CommitPending, HostWaitsForWorker
  <1>36. CASE Escalate
    BY <1>36 DEF Escalate, GenerationLost, RejectWaiters, ReadyPending, AnswerPending,
       FailurePending, CommitPending, HostWaitsForWorker
  <1>37. CASE StaleWatchdogFires
    BY <1>37 DEF StaleWatchdogFires, GenerationLost, RejectWaiters, ReadyPending,
       AnswerPending, FailurePending, CommitPending, HostWaitsForWorker
  <1>38. ASSUME NEW initiallyCancelled \in BOOLEAN, Submit(initiallyCancelled)
        PROVE  ReportsAreCounted' /\ ReportMatchesOutcome'
    BY MaxTurnsAssumption, <1>38 DEF Submit, FreshExecution
  <1>39. ASSUME NEW m \in {"proposal_ready", "failure_ready"}, WorkerAnswers(m)
        PROVE  ReportsAreCounted' /\ ReportMatchesOutcome'
    BY <1>39 DEF WorkerAnswers
  <1>40. CASE UNCHANGED coordinatorVars
    BY <1>40 DEF coordinatorVars
  <1>41. QED
    BY <1>1, <1>2, <1>3, <1>4, <1>5, <1>6, <1>7, <1>8, <1>9, <1>10, <1>11, <1>12, <1>13,
       <1>14, <1>15, <1>16, <1>17, <1>18, <1>19, <1>20, <1>21, <1>22, <1>23, <1>24, <1>25,
       <1>26, <1>27, <1>28, <1>29, <1>30, <1>31, <1>32, <1>33, <1>34, <1>35, <1>36, <1>37,
       <1>38, <1>39, <1>40 DEF CoordinatorNext, HostSteps, CloseSteps, CommitSteps, SealSteps,
       WorkerSteps, UserSteps

-----------------------------------------------------------------------------
(* The invariant, and what it says for every number of turns.              *)

\* A new coordinator has no turn, no promise and no timer.
LEMMA GenerationInitially == CoordinatorInit => GenerationInvariant
  <1> SUFFICES ASSUME CoordinatorInit PROVE GenerationInvariant
    OBVIOUS
  <1> USE DEF CoordinatorInit
  <1>1. CoordinatorTypeOK
    <2>1. StateTypes
      BY MaxTurnsAssumption DEF StateTypes, DataStates
    <2>2. FlagTypes
      BY DEF FlagTypes
    <2>3. reported = << >> => Len(reported) <= 2
      OBVIOUS
    <2>4. QED
      BY <2>1, <2>2, <2>3 DEF CoordinatorTypeOK, StateTypes, FlagTypes
  <1>2. PlaceOfSettlement /\ PromisesFollowData
    BY DEF PlaceOfSettlement, PromisesFollowData, PreparingPcs, ExecutingPcs, HasExecution,
           Decided
  <1>3. ReportsAreCounted /\ ReportMatchesOutcome
    BY DEF ReportsAreCounted, ReportMatchesOutcome
  <1>4. LossIsNoticed /\ TimersAreOwned
    BY DEF LossIsNoticed, NeedsGeneration, TimersAreOwned
  <1>5. QED
    BY <1>1, <1>2, <1>3, <1>4 DEF GenerationInvariant, SettlementInvariant

\* No step of R, the promises, the timers, the Worker or the user breaks the invariant.
LEMMA GenerationKept == GenerationInvariant /\ [CoordinatorNext]_coordinatorVars => GenerationInvariant'
  <1> SUFFICES ASSUME GenerationInvariant, [CoordinatorNext]_coordinatorVars PROVE GenerationInvariant'
    OBVIOUS
  <1>1. StateTypes' /\ FlagTypes'
    BY StateTypesKept, FlagTypesKept DEF GenerationInvariant, SettlementInvariant
  <1>2. (PlaceOfSettlement /\ PromisesFollowData /\ LossIsNoticed /\ TimersAreOwned)'
    BY PlacesKept
  <1>3. ReportsAreCounted' /\ ReportMatchesOutcome'
    BY ReportsKept
  <1>4. Len(reported') <= 2
    BY <1>1, <1>3 DEF ReportsAreCounted, StateTypes
  <1>5. CoordinatorTypeOK'
    BY <1>1, <1>4 DEF CoordinatorTypeOK, StateTypes, FlagTypes
  <1>6. QED
    BY <1>2, <1>3, <1>5 DEF GenerationInvariant, SettlementInvariant

\* The inductive invariant holds, whatever the order in which the reservation, the two
\* settlement promises and the watchdog are resumed.
THEOREM GenerationHolds == CoordinatorSpec => []GenerationInvariant
  BY GenerationInitially, GenerationKept, PTL DEF CoordinatorSpec

\* Between two turns nothing of the last one is left open at Data, and what turn_end
\* reported is what Data decided (runReservation on every path to its finally block).
THEOREM CoordinatorCorrect == CoordinatorSpec => []CoordinatorInvariant
  <1>1. GenerationInvariant => CoordinatorInvariant
    BY DEF GenerationInvariant, SettlementInvariant, PlaceOfSettlement,
           CoordinatorInvariant, SettledBeforeIdle
  <1>2. QED
    BY <1>1, GenerationHolds, PTL

\* No registered waiter is left to a terminated generation: markUnavailableForReplacement
\* rejects what is registered, and no waiter is registered afterwards.
THEOREM WaitsCanEnd == CoordinatorSpec => []NoWaitOnTerminatedWorker
  <1>1. GenerationInvariant => NoWaitOnTerminatedWorker
    BY DEF GenerationInvariant, SettlementInvariant, CoordinatorTypeOK, LossIsNoticed,
       NeedsGeneration,
           NoWaitOnTerminatedWorker, HostWaitsForWorker, ReadyPending, AnswerPending,
           FailurePending, CommitPending
  <1>2. QED
    BY <1>1, GenerationHolds, PTL

\* Only the decision of settleProposal makes a turn canonical.
LEMMA OnlyDecideAdopts ==
  ASSUME [CoordinatorNext]_coordinatorVars, data # "canonical", data' = "canonical"
  PROVE  Decide
  <1> USE DEF promiseVars, cancelVars, generationVars, serviceVars, Decided
  <1>1. HostSteps => Decide
    BY DEF HostSteps, ReplaceGeneration, StartRegisters, Admitted, AbortAdmission,
       Registered, Throw, Seal, Join, GenerationLost, TakeAnswer, Answers, ErrorCleaned,
       CatchSeals, FailureCleaned, FailureReplied, Acknowledge, FailureSettled, Settlements,
       FailureProcessed, Finish, Terminated, Prepared, ProposalCleaned, CommitJoined,
       SealJoined, FinishTurn
  <1>2. CloseSteps => Decide
    BY DEF CloseSteps, StopWorker, Terminated, StopFails
  <1>3. CommitSteps => Decide
    BY DEF CommitSteps, CommitReplied, Acknowledge, GenerationLost, CommitSettled,
       Settlements, CommitProcessed
  <1>4. SealSteps => Decide
    BY DEF SealSteps, SealCleaned, SealReplied
  <1>5. WorkerSteps => Decide
    BY DEF WorkerSteps, FinishStart, GenerationLost, WorkerAnswers, WorkerSettles,
       WorkerCloses, Terminated, WorkerErrs
  <1>6. UserSteps => Decide
    BY DEF UserSteps, Submit, FreshExecution, Cancel, GenerationLost, RejectWaiters,
       ReadyPending, AnswerPending, FailurePending, CommitPending, HostWaitsForWorker,
       RequestCancel, SendCommand, Cancellable, Steer, SteerReply, SteerTimeout, Close
  <1>7. ~WatchdogFires /\ ~Escalate /\ ~StaleWatchdogFires /\ ~UNCHANGED coordinatorVars
    BY DEF WatchdogFires, GenerationLost, RejectWaiters, ReadyPending, AnswerPending,
       FailurePending, CommitPending, HostWaitsForWorker, Escalate, StaleWatchdogFires,
       coordinatorVars
  <1>8. QED
    BY <1>1, <1>2, <1>3, <1>4, <1>5, <1>6, <1>7 DEF CoordinatorNext

\* Once cancellation, the watchdog or the loss of the generation has reached the Host, no
\* turn is adopted: authorizeCommit is sent with the decision of that moment.
THEOREM CommitIsFenced == CoordinatorSpec => CancelFencesCommit
  <1>1. [CoordinatorNext]_coordinatorVars =>
          (data # "canonical" /\ data' = "canonical" => ~cancelled /\ ~forced /\ ~unavailable)
    BY OnlyDecideAdopts DEF Decide, Throw, MayCommit
  <1>2. QED
    BY <1>1, PTL DEF CoordinatorSpec, CancelFencesCommit

\* A step that takes the generation from a running turn that nobody cancelled or steers
\* is a disturbance: no timer of an earlier turn is left that could do it.
LEMMA RunningTurnKept ==
  ASSUME GenerationInvariant, [CoordinatorNext]_coordinatorVars,
         pc = "answer", worker = "running", ~cancelled, ~steering
  PROVE  ~unavailable' \/ disturbed'
  <1> USE DEF promiseVars, cancelVars, generationVars, serviceVars
  <1>1. /\ unavailable => disturbed
        /\ "worker_error" \notin queue
        /\ (~watchdog /\ escalation = "none") \/ disturbed
        /\ staleWatchdog => disturbed
        /\ closing \notin {"stopping", "closed"}
        /\ seal = "none" \/ forced
    BY DEF GenerationInvariant, SettlementInvariant, CoordinatorTypeOK, PlaceOfSettlement,
       LossIsNoticed,
           NeedsGeneration, TimersAreOwned
  <1>2. CASE HostSteps
    <2>1. TakeAnswer
      BY <1>2 DEF HostSteps, Decide, ReplaceGeneration, StartRegisters, Admitted,
         AbortAdmission, Registered, ErrorCleaned, CatchSeals, FailureCleaned, FailureReplied,
         FailureSettled, FailureProcessed, Prepared, ProposalCleaned, CommitJoined,
         SealJoined, FinishTurn
    <2>2. QED
      BY <1>1, <2>1 DEF TakeAnswer, Answers
  <1>3. CASE CloseSteps
    BY <1>1, <1>3 DEF CloseSteps, StopWorker, Terminated, StopFails
  <1>4. CASE CommitSteps
    BY <1>1, <1>4 DEF CommitSteps, CommitReplied, Acknowledge, GenerationLost, CommitSettled,
       Settlements, CommitProcessed
  <1>5. CASE SealSteps
    BY <1>1, <1>5 DEF SealSteps, SealCleaned, SealReplied
  <1>6. CASE WorkerSteps
    BY <1>1, <1>6 DEF WorkerSteps, FinishStart, GenerationLost, WorkerAnswers, WorkerSettles,
       WorkerCloses, Terminated, WorkerErrs
  <1>7. CASE UserSteps
    BY <1>1, <1>7 DEF UserSteps, Submit, FreshExecution, Cancel, GenerationLost,
       RejectWaiters, ReadyPending, AnswerPending, FailurePending, CommitPending,
       HostWaitsForWorker, RequestCancel, SendCommand, Cancellable, Steer, SteerReply,
       SteerTimeout, Close
  <1>8. CASE WatchdogFires \/ Escalate \/ StaleWatchdogFires \/ UNCHANGED coordinatorVars
    BY <1>1, <1>8 DEF WatchdogFires, GenerationLost, RejectWaiters, ReadyPending,
       AnswerPending, FailurePending, CommitPending, HostWaitsForWorker, Escalate,
       StaleWatchdogFires, coordinatorVars
  <1>9. QED
    BY <1>2, <1>3, <1>4, <1>5, <1>6, <1>7, <1>8 DEF CoordinatorNext

\* The Worker of a turn that is neither cancelled nor steered is not terminated by the
\* Host, unless a disturbance came before.
THEOREM RunningTurnIsKept == CoordinatorSpec => RunningTurnKeepsWorker
  <1>1. GenerationInvariant /\ [CoordinatorNext]_coordinatorVars =>
          (pc = "answer" /\ worker = "running" /\ ~cancelled /\ ~steering =>
             ~unavailable' \/ disturbed')
    BY RunningTurnKept
  <1>2. QED
    BY <1>1, GenerationHolds, PTL DEF CoordinatorSpec, RunningTurnKeepsWorker

=============================================================================
