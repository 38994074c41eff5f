-------------------------- MODULE TaskService_proofs --------------------------
(***************************************************************************)
(* Proofs about TaskService, for any number of executions, follow-ups and  *)
(* faults: the lanes, the records and their copies, and the cancellation.  *)
(***************************************************************************)
EXTENDS TaskService, TLAPS, FiniteSetTheorems

-----------------------------------------------------------------------------
(* The inductive invariant.                                                *)

Copies == [queueId : FollowUps, by : Executions \cup {None},
           status : {"none", "queued", "started", "discarded", "startRejected"}]

Shapes ==
  /\ TypeOK
  /\ writes \in Seq(Copies)
  /\ saved \in [FollowUps -> {"none", "queued", "started", "discarded", "startRejected"}]

\* The execution that has the active lane, or is on its way out of it.
Turning == {"running", "committing"}
InLane == {"admit", "save", "turn", "persist"}
Leaving == {"flush", "lastFlush"}

\* The lanes are those of one execution: where its begin or its settle awaits says which
\* flags are up, and what the coordinator knows of it.
LanesFollowTask ==
  /\ \A e \in Executions :
       /\ task[e] \in InLane => active = e
       /\ task[e] \in Leaving => active = None /\ handoffPending
       /\ task[e] = "none" <=> host[e] = "none"
       /\ task[e] = "admit" <=> host[e] = "admitting"
       /\ host[e] \in Turning => active = e /\ task[e] \in {"save", "turn", "stuck"}
  /\ active # None => task[active] \in InLane \cup {"stuck"} /\ ~handoffPending
  /\ preparing <=> active # None /\ task[active] = "admit"
  /\ handoffPending => \E e \in Executions : task[e] \in Leaving \cup {"stuck"}
  /\ \A e, f \in Executions : task[e] \in Leaving /\ task[f] \in Leaving => e = f

\* Only a failure leaves an execution stuck.
StuckHasFailed ==
  /\ broken => Failed
  /\ \A e \in Executions : task[e] = "stuck" => Failed

\* Steering is that of the active execution.
SteeringFollows ==
  /\ \A e \in Executions : steer[e] # "none" => task[e] \notin {"none", "admit"}
  /\ active # None /\ steer[active] # "none" => steeringAccepted
  /\ steering # None => steering = active /\ steer[active] = "answered" /\ ~steeringApplied

\* A follow-up that waits is the one of the queued lane, behind the execution that has the
\* Session; one that was begun for has an execution behind it that ended well.
Begun(q) == \E e \in Executions : reserved[e] = q

QueuedIsBusy ==
  \A q \in FollowUps :
    /\ queued = q => record[q].status # "none"
    /\ record[q].status = "queued" => queued = q /\ IsBusy

BegunBehindGood ==
  \A q \in FollowUps :
    Begun(q) =>
      /\ record[q].status # "none"
      /\ \E f \in Executions :
           record[q].after = f /\ host[f] = "ok" /\ f \notin cancelled

WaitsBehindActive ==
  \A q \in FollowUps :
    queued = q /\ ~Begun(q) =>
      /\ IF active # None THEN task[active] # "admit" /\ record[q].after = active
         ELSE handoffPending
      /\ \A e \in Executions : task[e] = "flush" => record[q].after = e

TasksOwn ==
  /\ \A e \in Executions :
       /\ task[e] = "lastFlush" => queued = None
       /\ task[e] = "none" => reserved[e] = None /\ e \notin cancelled
       /\ task[e] \in {"save", "lost"} => reserved[e] # None
  /\ \A e \in Executions, q \in FollowUps :
       record[q].status = "queued" =>
         /\ task[e] = "admit" => reserved[e] = q
         /\ task[e] # "admit" => reserved[e] # q

\* Where the answer of an execution may be committed, the end of no rejected begin resets
\* its cancellation, and if that was taken no follow-up is queued behind it.
CancelStands ==
  \A e \in Executions :
    host[e] \in {"committing", "ok"} =>
      /\ active = e => \A f \in Executions : task[f] # "lost"
      /\ e \in cancelled =>
           /\ active = e => cancellationRequested
           /\ \A q \in FollowUps : queued = q /\ ~Begun(q) => record[q].after # e

\* The last copy of a record that is on its way says what the record says; without one
\* the durable receipt does.
LastCopy(w, q, s) ==
  \E i \in DOMAIN w : /\ w[i].queueId = q /\ w[i].status = s
                      /\ \A j \in DOMAIN w : j > i => w[j].queueId # q
NoCopy(w, q) == \A i \in DOMAIN w : w[i].queueId # q

CopiesAgree ==
  ~broken => \A q \in FollowUps : \/ LastCopy(writes, q, record[q].status)
                                  \/ NoCopy(writes, q) /\ saved[q] = record[q].status

ShownIsSaved == shown = {q \in FollowUps : saved[q] = "queued"}

\* A closed service has no execution under way.
ClosedRests ==
  close = "done" => \A e \in Executions : task[e] \in {"none", "done", "stuck"}

TaskInduct ==
  /\ Shapes /\ LanesFollowTask /\ StuckHasFailed /\ SteeringFollows /\ QueuedIsBusy
  /\ BegunBehindGood /\ WaitsBehindActive /\ TasksOwn /\ CancelStands
  /\ CopiesAgree /\ ShownIsSaved /\ ClosedRests

-----------------------------------------------------------------------------
(* Records and their copies.                                               *)

Statuses == {"none", "queued", "started", "discarded", "startRejected"}
Records == [status : Statuses, after : Executions \cup {None}, execution : Executions \cup {None}]

\* There is no execution and no follow-up None.
LEMMA NoneIsNoIndex == None \notin Executions /\ None \notin FollowUps
  BY BoundsAssumption DEF None, Executions, FollowUps

\* A record gets another status, and keeps the execution it is behind.
LEMMA StatusChanges ==
  ASSUME record \in [FollowUps -> Records], NEW q \in FollowUps, NEW r \in Records,
         r.after = record[q].after, record' = [record EXCEPT ![q] = r]
  PROVE  /\ record' \in [FollowUps -> Records] /\ record'[q].status = r.status
         /\ \A p \in FollowUps : record'[p].after = record[p].after
         /\ \A p \in FollowUps \ {q} : record'[p].status = record[p].status
  OBVIOUS

\* A copy joins the chain.
LEMMA CopyJoins ==
  ASSUME NEW w \in Seq(Copies), NEW c \in Copies
  PROVE  /\ Append(w, c) \in Seq(Copies) /\ LastCopy(Append(w, c), c.queueId, c.status)
         /\ \A q \in FollowUps \ {c.queueId}, s \in Statuses :
              /\ LastCopy(w, q, s) => LastCopy(Append(w, c), q, s)
              /\ NoCopy(w, q) => NoCopy(Append(w, c), q)
  <1> DEFINE a == Append(w, c)
  <1>1. /\ a \in Seq(Copies) /\ DOMAIN a = 1 .. Len(w) + 1 /\ DOMAIN w = 1 .. Len(w)
        /\ Len(w) \in Nat /\ a[Len(w) + 1] = c /\ \A i \in 1 .. Len(w) : a[i] = w[i]
    OBVIOUS
  <1> HIDE DEF a
  <1>2. LastCopy(a, c.queueId, c.status)
    BY <1>1 DEF LastCopy
  <1>3. ASSUME NEW q \in FollowUps \ {c.queueId}, NEW s \in Statuses, LastCopy(w, q, s)
        PROVE  LastCopy(a, q, s)
    <2>1. PICK i \in 1 .. Len(w) :
            w[i].queueId = q /\ w[i].status = s /\ \A j \in 1 .. Len(w) : j > i => w[j].queueId # q
      BY <1>1, <1>3 DEF LastCopy
    <2>2. \A j \in 1 .. Len(w) + 1 : j > i => a[j].queueId # q
      <3>1. SUFFICES ASSUME NEW j \in 1 .. Len(w) + 1, j > i PROVE a[j].queueId # q
        OBVIOUS
      <3>2. j \in 1 .. Len(w) \/ j = Len(w) + 1
        BY <1>1
      <3>3. QED
        BY <1>1, <2>1, <3>1, <3>2
    <2>3. i \in 1 .. Len(w) + 1 /\ a[i] = w[i]
      BY <1>1, <2>1
    <2>4. QED
      BY <1>1, <2>1, <2>2, <2>3 DEF LastCopy
  <1>4. ASSUME NEW q \in FollowUps \ {c.queueId}, NoCopy(w, q)
        PROVE  NoCopy(a, q)
    <2>1. ASSUME NEW j \in 1 .. Len(w) + 1 PROVE a[j].queueId # q
      <3>1. j \in 1 .. Len(w) \/ j = Len(w) + 1
        BY <1>1
      <3>2. QED
        BY <1>1, <1>4, <3>1 DEF NoCopy
    <2>2. QED
      BY <1>1, <2>1 DEF NoCopy
  <1>5. QED
    BY <1>1, <1>2, <1>3, <1>4 DEF a

\* The first copy of the chain is written.
LEMMA CopyLeaves ==
  ASSUME NEW w \in Seq(Copies), w # << >>
  PROVE  /\ Tail(w) \in Seq(Copies) /\ Head(w) \in Copies
         /\ \A q \in FollowUps, s \in Statuses :
              /\ NoCopy(w, q) => NoCopy(Tail(w), q) /\ Head(w).queueId # q
              /\ LastCopy(w, q, s) =>
                   \/ LastCopy(Tail(w), q, s)
                   \/ NoCopy(Tail(w), q) /\ Head(w).queueId = q /\ Head(w).status = s
  <1> DEFINE t == Tail(w)
  <1>1. /\ t \in Seq(Copies) /\ DOMAIN t = 1 .. Len(w) - 1 /\ DOMAIN w = 1 .. Len(w)
        /\ Len(w) \in Nat \ {0} /\ w[1] = Head(w) /\ \A i \in 1 .. Len(w) - 1 : t[i] = w[i + 1]
    OBVIOUS
  <1> HIDE DEF t
  <1>2. Head(w) \in Copies
    <2>1. 1 \in 1 .. Len(w)
      BY <1>1
    <2>2. QED
      BY <1>1, <2>1
  <1>3. ASSUME NEW q \in FollowUps, NoCopy(w, q)
        PROVE  NoCopy(t, q) /\ Head(w).queueId # q
    <2>1. \A i \in 1 .. Len(w) - 1 : i + 1 \in 1 .. Len(w)
      BY <1>1
    <2>2. 1 \in 1 .. Len(w)
      BY <1>1
    <2>3. QED
      BY <1>1, <1>3, <2>1, <2>2 DEF NoCopy
  <1>4. ASSUME NEW q \in FollowUps, NEW s \in Statuses, LastCopy(w, q, s)
        PROVE  \/ LastCopy(t, q, s)
               \/ NoCopy(t, q) /\ Head(w).queueId = q /\ Head(w).status = s
    <2>1. PICK i \in 1 .. Len(w) :
            w[i].queueId = q /\ w[i].status = s /\ \A j \in 1 .. Len(w) : j > i => w[j].queueId # q
      BY <1>1, <1>4 DEF LastCopy
    <2>2. CASE i = 1
      <3>1. \A j \in 1 .. Len(w) - 1 : j + 1 \in 1 .. Len(w) /\ j + 1 > 1
        BY <1>1
      <3>2. NoCopy(t, q)
        BY <1>1, <2>1, <2>2, <3>1 DEF NoCopy
      <3>3. QED
        BY <1>1, <2>1, <2>2, <3>2
    <2>3. CASE i # 1
      <3>1. i - 1 \in 1 .. Len(w) - 1 /\ t[i - 1] = w[i]
        BY <1>1, <2>1, <2>3
      <3>2. \A j \in 1 .. Len(w) - 1 : j > i - 1 => t[j].queueId # q
        <4>1. SUFFICES ASSUME NEW j \in 1 .. Len(w) - 1, j > i - 1 PROVE t[j].queueId # q
          OBVIOUS
        <4>2. j + 1 \in 1 .. Len(w) /\ j + 1 > i /\ t[j] = w[j + 1]
          BY <1>1, <4>1
        <4>3. QED
          BY <2>1, <4>2
      <3>3. QED
        BY <1>1, <2>1, <3>1, <3>2 DEF LastCopy
    <2>4. QED
      BY <2>2, <2>3
  <1>5. QED
    BY <1>1, <1>2, <1>3, <1>4 DEF t

\* The records agree with their copies when a record that changes is saved.
LEMMA SavedAgrees ==
  ASSUME writes \in Seq(Copies), record \in [FollowUps -> Records], CopiesAgree,
         NEW q \in FollowUps, NEW s \in Statuses, NEW by \in Executions \cup {None},
         record'[q].status = s, \A p \in FollowUps \ {q} : record'[p].status = record[p].status,
         writes' = IF broken THEN writes
                   ELSE Append(writes, [queueId |-> q, status |-> s, by |-> by]),
         UNCHANGED <<saved, broken>>
  PROVE  writes' \in Seq(Copies) /\ CopiesAgree'
  <1> DEFINE c == [queueId |-> q, status |-> s, by |-> by]
  <1>1. c \in Copies /\ c.queueId = q /\ c.status = s
    BY DEF Copies, Statuses
  <1>2. CASE broken
    BY <1>2 DEF CopiesAgree
  <1>3. CASE ~broken
    <2>1. writes' = Append(writes, c)
      BY <1>3
    <2>2. \A p \in FollowUps : record[p].status \in Statuses
      BY DEF Records
    <2> HIDE DEF c
    <2>3. /\ writes' \in Seq(Copies) /\ LastCopy(writes', q, s)
          /\ \A p \in FollowUps \ {q} :
               /\ LastCopy(writes, p, record[p].status) => LastCopy(writes', p, record[p].status)
               /\ NoCopy(writes, p) => NoCopy(writes', p)
      BY <1>1, <2>1, <2>2, CopyJoins
    <2>4. QED
      BY <1>3, <2>3 DEF CopiesAgree
  <1>4. QED
    BY <1>2, <1>3

\* The follow-up of the queued lane is discarded.
LEMMA Discards ==
  ASSUME Shapes, CopiesAgree, Discard, UNCHANGED <<saved, broken>>
  PROVE  /\ queued' = None /\ record' \in [FollowUps -> Records] /\ writes' \in Seq(Copies)
         /\ \A q \in FollowUps : /\ record'[q].after = record[q].after
                                 /\ q = queued => record'[q].status = "discarded"
                                 /\ q # queued => record'[q].status = record[q].status
         /\ CopiesAgree'
  <1>1. record \in [FollowUps -> Records] /\ writes \in Seq(Copies)
        /\ queued \in FollowUps \cup {None}
    BY DEF Shapes, TypeOK, Records, Statuses
  <1>2. CASE queued = None
    BY <1>1, <1>2, NoneIsNoIndex DEF Discard, CopiesAgree
  <1>3. CASE queued # None
    <2>1. PICK q \in FollowUps : q = queued
      BY <1>1, <1>3
    <2> DEFINE r == [record[q] EXCEPT !.status = "discarded"]
    <2>2. r \in Records /\ r.status = "discarded" /\ r.after = record[q].after
      BY <1>1 DEF Records, Statuses
    <2>a. r = [record[q] EXCEPT !.status = "discarded"]
      OBVIOUS
    <2> HIDE DEF r
    <2>3. /\ queued' = None /\ record' = [record EXCEPT ![q] = r]
          /\ writes' = IF broken THEN writes
                       ELSE Append(writes, [queueId |-> q, status |-> "discarded", by |-> None])
      BY <1>3, <2>1, <2>2, <2>a DEF Discard, Save
    <2>4. /\ record' \in [FollowUps -> Records] /\ record'[q].status = "discarded"
          /\ \A p \in FollowUps : record'[p].after = record[p].after
          /\ \A p \in FollowUps \ {q} : record'[p].status = record[p].status
      BY <1>1, <2>2, <2>3, StatusChanges
    <2>5. writes' \in Seq(Copies) /\ CopiesAgree'
      BY <1>1, <2>3, <2>4, SavedAgrees DEF Statuses
    <2>6. QED
      BY <2>1, <2>3, <2>4, <2>5
  <1>4. QED
    BY <1>2, <1>3

-----------------------------------------------------------------------------
(* The steps.                                                              *)

\* A copy is durable.
LEMMA WrittenKeeps ==
  ASSUME TaskInduct, Written
  PROVE  TaskInduct'
  <1> USE DEF TaskInduct
  <1>t. /\ active \in Executions \cup {None} /\ queued \in FollowUps \cup {None}
        /\ record \in [FollowUps -> Records] /\ reserved \in [Executions -> FollowUps \cup {None}]
        /\ None \notin Executions /\ None \notin FollowUps
    BY NoneIsNoIndex DEF Shapes, TypeOK, Records, Statuses
  <1>0. /\ writes' \in Seq(Copies) /\ saved' \in [FollowUps -> Statuses]
        /\ CopiesAgree' /\ ShownIsSaved'
        /\ UNCHANGED <<active, preparing, handoffPending, cancellationRequested, queued,
                     steeringAccepted, steeringApplied, steering, steer, record,
                     broken, task, reserved, host, close, faults, cancelled>>
    <2>1. /\ writes # << >> /\ writes' = Tail(writes)
          /\ saved' = [saved EXCEPT ![Head(writes).queueId] = Head(writes).status]
          /\ shown' = IF Head(writes).status = "queued" THEN shown \cup {Head(writes).queueId}
                      ELSE shown \ {Head(writes).queueId}
      BY DEF Written
    <2>2. PICK c \in Copies : c = Head(writes)
      BY <2>1, CopyLeaves DEF Shapes
    <2>3. c.queueId \in FollowUps /\ c.status \in Statuses
      BY DEF Copies, Statuses
    <2>4. /\ saved' \in [FollowUps -> Statuses] /\ saved'[c.queueId] = c.status
          /\ \A q \in FollowUps \ {c.queueId} : saved'[q] = saved[q]
      BY <2>1, <2>2, <2>3 DEF Shapes, Statuses
    <2>5. UNCHANGED <<active, preparing, handoffPending, cancellationRequested, queued, record,
                      broken>>
      BY DEF Written, lanes
    <2>6. \A q \in FollowUps : record[q].status \in Statuses
      BY <1>t DEF Records
    <2>7. CopiesAgree'
      <3>1. SUFFICES ASSUME ~broken, NEW q \in FollowUps
                     PROVE  \/ LastCopy(writes', q, record[q].status)
                            \/ NoCopy(writes', q) /\ saved'[q] = record[q].status
        BY <2>5 DEF CopiesAgree
      <3>2. CASE LastCopy(writes, q, record[q].status)
        BY <2>1, <2>2, <2>4, <2>6, <3>2, CopyLeaves DEF Shapes
      <3>3. CASE NoCopy(writes, q) /\ saved[q] = record[q].status
        BY <2>1, <2>2, <2>4, <2>6, <3>3, CopyLeaves DEF Shapes
      <3>4. QED
        BY <3>1, <3>2, <3>3 DEF CopiesAgree
    <2>8. ShownIsSaved'
      BY <2>1, <2>2, <2>3, <2>4 DEF ShownIsSaved
    <2>9. writes' \in Seq(Copies)
      BY <2>1, CopyLeaves DEF Shapes
    <2>10. QED
      BY <2>4, <2>5, <2>7, <2>8, <2>9 DEF Written, lanes, steerVars
  <1>1. Shapes'
    BY <1>0 DEF Shapes, TypeOK, Statuses
  <1>2. LanesFollowTask'
    BY <1>0, <1>t DEF LanesFollowTask, Turning
  <1>3. StuckHasFailed'
    BY <1>0 DEF StuckHasFailed, Failed
  <1>4. SteeringFollows'
    BY <1>0, <1>t DEF SteeringFollows
  <1>5. QueuedIsBusy'
    BY <1>0, <1>t DEF QueuedIsBusy, IsBusy, LanesFollowTask
  <1>6. BegunBehindGood'
    BY <1>0, <1>t DEF BegunBehindGood, Begun, LanesFollowTask
  <1>7. WaitsBehindActive'
    BY <1>0, <1>t DEF WaitsBehindActive, Begun, LanesFollowTask, IsBusy, InLane
  <1>8. TasksOwn'
    BY <1>0, <1>t DEF TasksOwn, LanesFollowTask, QueuedIsBusy, BegunBehindGood, Begun
  <1>9. CancelStands'
    BY <1>0, <1>t DEF CancelStands, Begun
  <1>10. CopiesAgree'
    BY <1>0
  <1>11. ShownIsSaved'
    BY <1>0
  <1>12. ClosedRests'
    BY <1>0 DEF ClosedRests
  <1>13. QED
    BY <1>1, <1>2, <1>3, <1>4, <1>5, <1>6, <1>7, <1>8, <1>9, <1>10, <1>11, <1>12

\* A write is rejected, and the chain with it.
LEMMA WriteFailsKeeps ==
  ASSUME TaskInduct, WriteFails
  PROVE  TaskInduct'
  <1> USE DEF TaskInduct
  <1>t. /\ active \in Executions \cup {None} /\ queued \in FollowUps \cup {None}
        /\ record \in [FollowUps -> Records] /\ reserved \in [Executions -> FollowUps \cup {None}]
        /\ None \notin Executions /\ None \notin FollowUps
    BY NoneIsNoIndex DEF Shapes, TypeOK, Records, Statuses
  <1>0. /\ faults' \in 0 .. MaxFaults /\ faults' > 0
        /\ broken' = TRUE /\ writes' = << >>
        /\ UNCHANGED <<active, preparing, handoffPending, cancellationRequested, queued,
                     steeringAccepted, steeringApplied, steering, steer, record,
                     saved, shown, task, reserved, host, close, cancelled>>
    BY <1>t, BoundsAssumption DEF WriteFails, lanes, steerVars, stored, Shapes, TypeOK
  <1>1. Shapes'
    BY <1>0 DEF Shapes, TypeOK
  <1>2. LanesFollowTask'
    BY <1>0, <1>t DEF LanesFollowTask, Turning
  <1>3. StuckHasFailed'
    BY <1>0 DEF StuckHasFailed, Failed
  <1>4. SteeringFollows'
    BY <1>0, <1>t DEF SteeringFollows
  <1>5. QueuedIsBusy'
    BY <1>0, <1>t DEF QueuedIsBusy, IsBusy, LanesFollowTask
  <1>6. BegunBehindGood'
    BY <1>0, <1>t DEF BegunBehindGood, Begun, LanesFollowTask
  <1>7. WaitsBehindActive'
    BY <1>0, <1>t DEF WaitsBehindActive, Begun, LanesFollowTask, IsBusy, InLane
  <1>8. TasksOwn'
    BY <1>0, <1>t DEF TasksOwn, LanesFollowTask, QueuedIsBusy, BegunBehindGood, Begun
  <1>9. CancelStands'
    BY <1>0, <1>t DEF CancelStands, Begun
  <1>10. CopiesAgree'
    BY <1>0 DEF CopiesAgree
  <1>11. ShownIsSaved'
    BY <1>0 DEF ShownIsSaved
  <1>12. ClosedRests'
    BY <1>0 DEF ClosedRests
  <1>13. QED
    BY <1>1, <1>2, <1>3, <1>4, <1>5, <1>6, <1>7, <1>8, <1>9, <1>10, <1>11, <1>12

\* A task of the user begins.
LEMMA AdmitKeeps ==
  ASSUME TaskInduct, NEW e \in Executions, Admit(e)
  PROVE  TaskInduct'
  <1> USE DEF TaskInduct, HostStates
  <1>t. /\ active \in Executions \cup {None} /\ queued \in FollowUps \cup {None}
        /\ record \in [FollowUps -> Records] /\ reserved \in [Executions -> FollowUps \cup {None}]
        /\ None \notin Executions /\ None \notin FollowUps
    BY NoneIsNoIndex DEF Shapes, TypeOK, Records, Statuses
  <1>0. /\ task[e] = "none" /\ ~IsBusy /\ close = "open"
        /\ active' = e /\ preparing' = TRUE /\ handoffPending' = FALSE
           /\ cancellationRequested' = FALSE
        /\ steeringAccepted' = FALSE /\ steeringApplied' = FALSE /\ steering' = None
        /\ UNCHANGED reserved
        /\ host' \in [Executions -> HostStates]
        /\ host'[e] = "admitting"
        /\ \A f \in Executions \ {e} : host'[f] = host[f]
        /\ task' \in [Executions -> Steps]
        /\ task'[e] = "admit"
        /\ \A f \in Executions \ {e} : task'[f] = task[f]
        /\ UNCHANGED <<queued, steer, record, writes, saved, shown, broken, close, faults,
                     cancelled>>
    <2>1. /\ task[e] = "none" /\ reserved' = [reserved EXCEPT ![e] = None]
          /\ host' = [host EXCEPT ![e] = "admitting"] /\ task' = [task EXCEPT ![e] = "admit"]
      BY DEF Admit, Begin, Unused
    <2>2. UNCHANGED reserved
      BY <1>t, <2>1 DEF TasksOwn
    <2>3. QED
      BY <2>1, <2>2 DEF Admit, Begin, stored, Shapes, TypeOK, Steps
  <1>1. Shapes'
    BY <1>0 DEF Shapes, TypeOK
  <1>2. LanesFollowTask'
    BY <1>0, <1>t DEF LanesFollowTask, InLane, Turning, Leaving, IsBusy
  <1>3. StuckHasFailed'
    BY <1>0 DEF StuckHasFailed, Failed
  <1>4. SteeringFollows'
    BY <1>0, <1>t DEF SteeringFollows
  <1>5. QueuedIsBusy'
    BY <1>0, <1>t DEF QueuedIsBusy, IsBusy, LanesFollowTask
  <1>6. BegunBehindGood'
    BY <1>0, <1>t DEF BegunBehindGood, Begun, LanesFollowTask
  <1>7. WaitsBehindActive'
    BY <1>0, <1>t DEF WaitsBehindActive, Begun, LanesFollowTask, IsBusy, InLane
  <1>8. TasksOwn'
    BY <1>0, <1>t DEF TasksOwn, LanesFollowTask, QueuedIsBusy, BegunBehindGood, Begun
  <1>9. CancelStands'
    BY <1>0, <1>t DEF CancelStands, Begun, TasksOwn
  <1>10. CopiesAgree'
    BY <1>0 DEF CopiesAgree
  <1>11. ShownIsSaved'
    BY <1>0 DEF ShownIsSaved
  <1>12. ClosedRests'
    BY <1>0 DEF ClosedRests
  <1>13. QED
    BY <1>1, <1>2, <1>3, <1>4, <1>5, <1>6, <1>7, <1>8, <1>9, <1>10, <1>11, <1>12

\* The host admits.
LEMMA AdmittedKeeps ==
  ASSUME TaskInduct, NEW e \in Executions, Admitted(e)
  PROVE  TaskInduct'
  <1> USE DEF TaskInduct, HostStates
  <1>t. /\ active \in Executions \cup {None} /\ queued \in FollowUps \cup {None}
        /\ record \in [FollowUps -> Records] /\ reserved \in [Executions -> FollowUps \cup {None}]
        /\ None \notin Executions /\ None \notin FollowUps
    BY NoneIsNoIndex DEF Shapes, TypeOK, Records, Statuses
  <1>0. /\ task[e] = "admit" /\ preparing' = FALSE
        /\ host' \in [Executions -> HostStates]
        /\ host'[e] = "running"
        /\ \A f \in Executions \ {e} : host'[f] = host[f]
        /\ task' \in [Executions -> Steps]
        /\ \A f \in Executions \ {e} : task'[f] = task[f]
        /\ reserved[e] = None => task'[e] = "turn"
        /\ reserved[e] # None => task'[e] = "save"
        /\ record' \in [FollowUps -> Records] /\ writes' \in Seq(Copies)
        /\ \A q \in FollowUps : /\ record'[q].after = record[q].after
                                /\ record'[q].status =
                                     IF q = reserved[e] /\ record[q].status = "queued"
                                     THEN "started" ELSE record[q].status
        /\ CopiesAgree'
        /\ UNCHANGED <<active, handoffPending, cancellationRequested, queued, steeringAccepted,
                     steeringApplied, steering, steer, saved, shown, broken, reserved,
                     close, faults, cancelled>>
    <2>1. /\ task[e] = "admit" /\ preparing' = FALSE /\ host' = [host EXCEPT ![e] = "running"]
          /\ UNCHANGED <<active, handoffPending, cancellationRequested, queued, steeringAccepted,
                       steeringApplied, steering, steer, saved, shown, broken, reserved, close,
                       faults, cancelled>>
      BY DEF Admitted, lanes, steerVars
    <2>2. CASE reserved[e] = None
      <3>1. task' = [task EXCEPT ![e] = "turn"] /\ UNCHANGED <<record, writes>>
        BY <2>2 DEF Admitted
      <3>2. CopiesAgree'
        BY <2>1, <3>1 DEF CopiesAgree
      <3>3. QED
        BY <1>t, <2>1, <2>2, <3>1, <3>2 DEF Shapes, TypeOK, Steps
    <2>3. CASE reserved[e] # None
      <3>1. PICK q \in FollowUps : q = reserved[e]
        BY <1>t, <2>3
      <3> DEFINE s == IF record[q].status = "queued" THEN "started" ELSE record[q].status
                 r == [record[q] EXCEPT !.execution = e,
                                        !.status = IF @ = "queued" THEN "started" ELSE @]
      <3>2. /\ r \in Records /\ r.status = s /\ r.after = record[q].after /\ s \in Statuses
        BY <1>t DEF Records, Statuses
      <3>3. /\ task' = [task EXCEPT ![e] = "save"] /\ record' = [record EXCEPT ![q] = r]
            /\ writes' = IF broken THEN writes
                         ELSE Append(writes, [queueId |-> q, status |-> r.status, by |-> e])
        BY <2>3, <3>1 DEF Admitted, Save
      <3> HIDE DEF r
      <3>4. /\ record' \in [FollowUps -> Records] /\ record'[q].status = s
            /\ \A p \in FollowUps : record'[p].after = record[p].after
            /\ \A p \in FollowUps \ {q} : record'[p].status = record[p].status
        BY <1>t, <3>2, <3>3, StatusChanges
      <3>5. writes' \in Seq(Copies) /\ CopiesAgree'
        <4> HIDE DEF s
        <4>1. QED
          BY <1>t, <2>1, <3>2, <3>3, <3>4, SavedAgrees DEF Shapes
      <3>6. QED
        BY <2>1, <2>3, <3>1, <3>3, <3>4, <3>5 DEF Shapes, TypeOK, Steps
    <2>4. QED
      BY <2>2, <2>3
  <1>1. Shapes'
    BY <1>0 DEF Shapes, TypeOK, Records, Statuses
  <1>2. LanesFollowTask'
    BY <1>0, <1>t DEF LanesFollowTask, InLane, Turning, Leaving
  <1>3. StuckHasFailed'
    BY <1>0 DEF StuckHasFailed, Failed
  <1>4. SteeringFollows'
    BY <1>0, <1>t DEF SteeringFollows
  <1>5. QueuedIsBusy'
    BY <1>0, <1>t DEF QueuedIsBusy, IsBusy, LanesFollowTask
  <1>6. BegunBehindGood'
    BY <1>0, <1>t DEF BegunBehindGood, Begun, LanesFollowTask
  <1>7. WaitsBehindActive'
    BY <1>0, <1>t DEF WaitsBehindActive, Begun, LanesFollowTask, IsBusy, InLane
  <1>8. TasksOwn'
    BY <1>0, <1>t DEF TasksOwn, LanesFollowTask, QueuedIsBusy, BegunBehindGood, Begun
  <1>9. CancelStands'
    BY <1>0, <1>t DEF CancelStands, Begun
  <1>10. CopiesAgree'
    BY <1>0
  <1>11. ShownIsSaved'
    BY <1>0 DEF ShownIsSaved
  <1>12. ClosedRests'
    BY <1>0 DEF ClosedRests
  <1>13. QED
    BY <1>1, <1>2, <1>3, <1>4, <1>5, <1>6, <1>7, <1>8, <1>9, <1>10, <1>11, <1>12

\* The host rejects.
LEMMA RejectedKeeps ==
  ASSUME TaskInduct, NEW e \in Executions, Rejected(e)
  PROVE  TaskInduct'
  <1> USE DEF TaskInduct, HostStates
  <1>t. /\ active \in Executions \cup {None} /\ queued \in FollowUps \cup {None}
        /\ record \in [FollowUps -> Records] /\ reserved \in [Executions -> FollowUps \cup {None}]
        /\ None \notin Executions /\ None \notin FollowUps
    BY NoneIsNoIndex DEF Shapes, TypeOK, Records, Statuses
  <1>0. /\ task[e] = "admit"
        /\ active' = None /\ preparing' = FALSE /\ cancellationRequested' = FALSE
        /\ host' \in [Executions -> HostStates]
        /\ host'[e] = "rejected"
        /\ \A f \in Executions \ {e} : host'[f] = host[f]
        /\ task' \in [Executions -> Steps] /\ task'[e] \in {"done", "lost"}
        /\ \A f \in Executions \ {e} : task'[f] = task[f]
        /\ task'[e] = "lost" => reserved[e] # None
        /\ queued' \in {queued, None}
        /\ record' \in [FollowUps -> Records] /\ writes' \in Seq(Copies)
        /\ \A q \in FollowUps : /\ record'[q].after = record[q].after
                                /\ record'[q].status # "queued"
                                /\ record[q].status # "none" => record'[q].status # "none"
        /\ CopiesAgree'
        /\ UNCHANGED <<handoffPending, steeringAccepted, steeringApplied, steering, steer, saved,
                     shown, broken, reserved, close, faults, cancelled>>
    <2>1. /\ task[e] = "admit" /\ host' = [host EXCEPT ![e] = "rejected"]
          /\ active' = None /\ preparing' = FALSE /\ cancellationRequested' = FALSE
          /\ UNCHANGED <<handoffPending, steeringAccepted, steeringApplied, steering, steer, saved,
                       shown, broken, reserved, close, faults, cancelled>>
      BY DEF Rejected, steerVars
    <2>2. CASE reserved[e] = None
      <3>1. task' = [task EXCEPT ![e] = "done"] /\ UNCHANGED <<queued, record, writes>>
        BY <2>2 DEF Rejected
      <3>2. CopiesAgree'
        BY <2>1, <3>1 DEF CopiesAgree
      <3>3. \A q \in FollowUps : record[q].status # "queued"
        BY <1>t, <2>1, <2>2 DEF TasksOwn
      <3>4. QED
        BY <1>t, <2>1, <2>2, <3>1, <3>2, <3>3 DEF Shapes, TypeOK, Steps
    <2>3. CASE reserved[e] # None
      <3>1. PICK q \in FollowUps : q = reserved[e]
        BY <1>t, <2>3
      <3>2. \A p \in FollowUps \ {q} : record[p].status # "queued"
        BY <2>1, <3>1 DEF TasksOwn
      <3>3. CASE ~cancellationRequested /\ record[q].status # "queued"
        <4>1. task' = [task EXCEPT ![e] = "done"] /\ UNCHANGED <<queued, record, writes>>
          BY <2>3, <3>1, <3>3 DEF Rejected
        <4>2. CopiesAgree'
          BY <2>1, <4>1 DEF CopiesAgree
        <4>3. QED
          BY <1>t, <2>1, <2>3, <3>1, <3>2, <3>3, <4>1, <4>2 DEF Shapes, TypeOK, Steps
      <3>4. ASSUME NEW s \in {"discarded", "startRejected"}, NEW by \in {None, e},
                   record' = [record EXCEPT ![q] = [record[q] EXCEPT !.status = s]],
                   writes' = IF broken THEN writes
                             ELSE Append(writes, [queueId |-> q, status |-> s, by |-> by])
            PROVE  /\ record' \in [FollowUps -> Records] /\ record'[q].status = s
                   /\ \A p \in FollowUps : record'[p].after = record[p].after
                   /\ \A p \in FollowUps \ {q} : record'[p].status = record[p].status
                   /\ writes' \in Seq(Copies) /\ CopiesAgree'
        <4> DEFINE r == [record[q] EXCEPT !.status = s]
        <4>1. r \in Records /\ r.status = s /\ r.after = record[q].after
          BY <1>t DEF Records, Statuses
        <4>2. record' = [record EXCEPT ![q] = r]
          BY <3>4
        <4> HIDE DEF r
        <4>3. /\ record' \in [FollowUps -> Records] /\ record'[q].status = s
              /\ \A p \in FollowUps : record'[p].after = record[p].after
              /\ \A p \in FollowUps \ {q} : record'[p].status = record[p].status
          BY <1>t, <4>1, <4>2, StatusChanges
        <4>4. s \in Statuses /\ by \in Executions \cup {None}
          BY DEF Statuses
        <4>5. QED
          BY <1>t, <2>1, <3>4, <4>3, <4>4, SavedAgrees DEF Shapes
      <3>5. CASE cancellationRequested
        <4>1. /\ task' = [task EXCEPT ![e] = "done"] /\ queued' = None
              /\ record' = [record EXCEPT ![q] = [record[q] EXCEPT !.status = "discarded"]]
              /\ writes' = IF broken THEN writes
                           ELSE Append(writes, [queueId |-> q, status |-> "discarded", by |-> None])
          BY <1>t, <2>3, <3>1, <3>5 DEF Rejected, Save
        <4>2. /\ record' \in [FollowUps -> Records] /\ writes' \in Seq(Copies) /\ CopiesAgree'
              /\ record'[q].status \notin {"none", "queued"}
              /\ \A p \in FollowUps : record'[p].after = record[p].after
              /\ \A p \in FollowUps \ {q} : record'[p].status = record[p].status
          BY <3>4, <4>1
        <4>3. task' \in [Executions -> Steps] /\ \A f \in Executions \ {e} : task'[f] = task[f]
          BY <4>1 DEF Shapes, TypeOK, Steps
        <4>4. task'[e] \in {"done", "lost"} /\ queued' \in {queued, None}
          BY <4>1 DEF Shapes, TypeOK
        <4>5. QED
          BY <2>1, <2>3, <3>1, <3>2, <4>2, <4>3, <4>4 DEF Shapes, TypeOK
      <3>6. CASE ~cancellationRequested /\ record[q].status = "queued"
        <4>1. /\ task' = [task EXCEPT ![e] = "lost"] /\ UNCHANGED queued
              /\ record' = [record EXCEPT ![q] = [record[q] EXCEPT !.status = "startRejected"]]
              /\ writes' = IF broken THEN writes
                           ELSE Append(writes, [queueId |-> q, status |-> "startRejected",
                                                by |-> e])
          BY <1>t, <2>3, <3>1, <3>6 DEF Rejected, Save
        <4>2. /\ record' \in [FollowUps -> Records] /\ writes' \in Seq(Copies) /\ CopiesAgree'
              /\ record'[q].status \notin {"none", "queued"}
              /\ \A p \in FollowUps : record'[p].after = record[p].after
              /\ \A p \in FollowUps \ {q} : record'[p].status = record[p].status
          BY <3>4, <4>1
        <4>3. task' \in [Executions -> Steps] /\ \A f \in Executions \ {e} : task'[f] = task[f]
          BY <4>1 DEF Shapes, TypeOK, Steps
        <4>4. task'[e] \in {"done", "lost"} /\ queued' \in {queued, None}
          BY <4>1 DEF Shapes, TypeOK
        <4>5. QED
          BY <2>1, <2>3, <3>1, <3>2, <4>2, <4>3, <4>4 DEF Shapes, TypeOK
      <3>7. QED
        BY <3>3, <3>5, <3>6
    <2>4. QED
      BY <2>2, <2>3
  <1>1. Shapes'
    BY <1>0 DEF Shapes, TypeOK, Records, Statuses
  <1>2. LanesFollowTask'
    BY <1>0, <1>t DEF LanesFollowTask, InLane, Turning, Leaving
  <1>3. StuckHasFailed'
    BY <1>0 DEF StuckHasFailed, Failed
  <1>4. SteeringFollows'
    BY <1>0, <1>t DEF SteeringFollows, LanesFollowTask, InLane, Turning
  <1>5. QueuedIsBusy'
    BY <1>0, <1>t DEF QueuedIsBusy, IsBusy, LanesFollowTask
  <1>6. BegunBehindGood'
    BY <1>0, <1>t DEF BegunBehindGood, Begun, LanesFollowTask
  <1>7. WaitsBehindActive'
    BY <1>0, <1>t DEF WaitsBehindActive, Begun, LanesFollowTask, IsBusy, InLane
  <1>8. TasksOwn'
    BY <1>0, <1>t DEF TasksOwn, LanesFollowTask, QueuedIsBusy, BegunBehindGood, Begun
  <1>9. CancelStands'
    BY <1>0, <1>t DEF CancelStands, Begun
  <1>10. CopiesAgree'
    BY <1>0
  <1>11. ShownIsSaved'
    BY <1>0 DEF ShownIsSaved
  <1>12. ClosedRests'
    BY <1>0 DEF ClosedRests
  <1>13. QED
    BY <1>1, <1>2, <1>3, <1>4, <1>5, <1>6, <1>7, <1>8, <1>9, <1>10, <1>11, <1>12

\* The write that begin awaits is over.
LEMMA SavedKeeps ==
  ASSUME TaskInduct, NEW e \in Executions, Saved(e)
  PROVE  TaskInduct'
  <1> USE DEF TaskInduct
  <1>t. /\ active \in Executions \cup {None} /\ queued \in FollowUps \cup {None}
        /\ record \in [FollowUps -> Records] /\ reserved \in [Executions -> FollowUps \cup {None}]
        /\ None \notin Executions /\ None \notin FollowUps
    BY NoneIsNoIndex DEF Shapes, TypeOK, Records, Statuses
  <1>0. /\ task[e] \in {"save", "lost"}
        /\ task'[e] = IF broken THEN "stuck" ELSE IF task[e] = "save" THEN "turn" ELSE "done"
        /\ task' \in [Executions -> Steps]
        /\ \A f \in Executions \ {e} : task'[f] = task[f]
        /\ queued' = IF ~broken /\ queued = reserved[e] THEN None ELSE queued
        /\ cancellationRequested' =
             IF ~broken /\ task[e] = "lost" THEN FALSE ELSE cancellationRequested
        /\ UNCHANGED <<active, preparing, handoffPending, steeringAccepted, steeringApplied,
                     steering, steer, record, writes, saved, shown, broken, reserved,
                     host, close, faults, cancelled>>
    BY <1>t DEF Saved, lanes, steerVars, stored, Shapes, TypeOK, Steps
  <1>1. Shapes'
    BY <1>0 DEF Shapes, TypeOK
  <1>2. LanesFollowTask'
    BY <1>0, <1>t DEF LanesFollowTask, InLane, Turning, Leaving
  <1>3. StuckHasFailed'
    BY <1>0 DEF StuckHasFailed, Failed
  <1>4. SteeringFollows'
    BY <1>0, <1>t DEF SteeringFollows
  <1>5. QueuedIsBusy'
    BY <1>0, <1>t DEF QueuedIsBusy, IsBusy, LanesFollowTask, TasksOwn
  <1>6. BegunBehindGood'
    BY <1>0, <1>t DEF BegunBehindGood, Begun, LanesFollowTask
  <1>7. WaitsBehindActive'
    BY <1>0, <1>t DEF WaitsBehindActive, Begun, LanesFollowTask, IsBusy, InLane
  <1>8. TasksOwn'
    BY <1>0, <1>t DEF TasksOwn, LanesFollowTask, QueuedIsBusy, BegunBehindGood, Begun
  <1>9. CancelStands'
    BY <1>0, <1>t DEF CancelStands, Begun
  <1>10. CopiesAgree'
    BY <1>0 DEF CopiesAgree
  <1>11. ShownIsSaved'
    BY <1>0 DEF ShownIsSaved
  <1>12. ClosedRests'
    BY <1>0 DEF ClosedRests
  <1>13. QED
    BY <1>1, <1>2, <1>3, <1>4, <1>5, <1>6, <1>7, <1>8, <1>9, <1>10, <1>11, <1>12

\* The answer of a turn will be committed.
LEMMA HostCommitsKeeps ==
  ASSUME TaskInduct, NEW e \in Executions, HostCommits(e)
  PROVE  TaskInduct'
  <1> USE DEF TaskInduct, HostStates
  <1>t. /\ active \in Executions \cup {None} /\ queued \in FollowUps \cup {None}
        /\ record \in [FollowUps -> Records] /\ reserved \in [Executions -> FollowUps \cup {None}]
        /\ None \notin Executions /\ None \notin FollowUps
    BY NoneIsNoIndex DEF Shapes, TypeOK, Records, Statuses
  <1>0. /\ host[e] = "running" /\ e \notin cancelled /\ \A f \in Executions : task[f] # "lost"
        /\ host' \in [Executions -> HostStates]
        /\ host'[e] = "committing"
        /\ \A f \in Executions \ {e} : host'[f] = host[f]
        /\ UNCHANGED <<active, preparing, handoffPending, cancellationRequested, queued,
                     steeringAccepted, steeringApplied, steering, steer, record,
                     writes, saved, shown, broken, task, reserved, close, faults,
                     cancelled>>
    BY <1>t DEF HostCommits, lanes, steerVars, stored, Shapes, TypeOK
  <1>1. Shapes'
    BY <1>0 DEF Shapes, TypeOK
  <1>2. LanesFollowTask'
    BY <1>0, <1>t DEF LanesFollowTask, Turning
  <1>3. StuckHasFailed'
    BY <1>0 DEF StuckHasFailed, Failed
  <1>4. SteeringFollows'
    BY <1>0, <1>t DEF SteeringFollows
  <1>5. QueuedIsBusy'
    BY <1>0, <1>t DEF QueuedIsBusy, IsBusy, LanesFollowTask
  <1>6. BegunBehindGood'
    BY <1>0, <1>t DEF BegunBehindGood, Begun, LanesFollowTask
  <1>7. WaitsBehindActive'
    BY <1>0, <1>t DEF WaitsBehindActive, Begun, LanesFollowTask, IsBusy, InLane
  <1>8. TasksOwn'
    BY <1>0, <1>t DEF TasksOwn, LanesFollowTask, QueuedIsBusy, BegunBehindGood, Begun
  <1>9. CancelStands'
    BY <1>0, <1>t DEF CancelStands, Begun
  <1>10. CopiesAgree'
    BY <1>0 DEF CopiesAgree
  <1>11. ShownIsSaved'
    BY <1>0 DEF ShownIsSaved
  <1>12. ClosedRests'
    BY <1>0 DEF ClosedRests
  <1>13. QED
    BY <1>1, <1>2, <1>3, <1>4, <1>5, <1>6, <1>7, <1>8, <1>9, <1>10, <1>11, <1>12

\* A turn ends.
LEMMA HostEndsKeeps ==
  ASSUME TaskInduct, NEW e \in Executions, HostEnds(e)
  PROVE  TaskInduct'
  <1> USE DEF TaskInduct, HostStates
  <1>t. /\ active \in Executions \cup {None} /\ queued \in FollowUps \cup {None}
        /\ record \in [FollowUps -> Records] /\ reserved \in [Executions -> FollowUps \cup {None}]
        /\ None \notin Executions /\ None \notin FollowUps
    BY NoneIsNoIndex DEF Shapes, TypeOK, Records, Statuses
  <1>0. /\ host[e] \in Turning /\ (host'[e] = "ok" => host[e] = "committing")
        /\ host' \in [Executions -> HostStates]
        /\ host'[e] \in {"ok", "notOk", "threw"}
        /\ \A f \in Executions \ {e} : host'[f] = host[f]
        /\ UNCHANGED <<active, preparing, handoffPending, cancellationRequested, queued,
                     steeringAccepted, steeringApplied, steering, steer, record,
                     writes, saved, shown, broken, task, reserved, close, faults,
                     cancelled>>
    BY <1>t DEF HostEnds, Turning, lanes, steerVars, stored, Shapes, TypeOK
  <1>1. Shapes'
    BY <1>0 DEF Shapes, TypeOK
  <1>2. LanesFollowTask'
    BY <1>0, <1>t DEF LanesFollowTask, Turning
  <1>3. StuckHasFailed'
    BY <1>0 DEF StuckHasFailed, Failed
  <1>4. SteeringFollows'
    BY <1>0, <1>t DEF SteeringFollows
  <1>5. QueuedIsBusy'
    BY <1>0, <1>t DEF QueuedIsBusy, IsBusy, LanesFollowTask
  <1>6. BegunBehindGood'
    BY <1>0, <1>t DEF BegunBehindGood, Begun, LanesFollowTask, Turning
  <1>7. WaitsBehindActive'
    BY <1>0, <1>t DEF WaitsBehindActive, Begun, LanesFollowTask, IsBusy, InLane
  <1>8. TasksOwn'
    BY <1>0, <1>t DEF TasksOwn, LanesFollowTask, QueuedIsBusy, BegunBehindGood, Begun
  <1>9. CancelStands'
    BY <1>0, <1>t DEF CancelStands, Begun
  <1>10. CopiesAgree'
    BY <1>0 DEF CopiesAgree
  <1>11. ShownIsSaved'
    BY <1>0 DEF ShownIsSaved
  <1>12. ClosedRests'
    BY <1>0 DEF ClosedRests
  <1>13. QED
    BY <1>1, <1>2, <1>3, <1>4, <1>5, <1>6, <1>7, <1>8, <1>9, <1>10, <1>11, <1>12

\* Its execution settles.
LEMMA SettleKeeps ==
  ASSUME TaskInduct, NEW e \in Executions, Settle(e)
  PROVE  TaskInduct'
  <1> USE DEF TaskInduct
  <1>t. /\ active \in Executions \cup {None} /\ queued \in FollowUps \cup {None}
        /\ record \in [FollowUps -> Records] /\ reserved \in [Executions -> FollowUps \cup {None}]
        /\ None \notin Executions /\ None \notin FollowUps
    BY NoneIsNoIndex DEF Shapes, TypeOK, Records, Statuses
  <1>0. /\ task[e] = "turn" /\ host[e] \in {"ok", "notOk", "threw"}
        /\ task' \in [Executions -> Steps]
        /\ task'[e] = "persist"
        /\ \A f \in Executions \ {e} : task'[f] = task[f]
        /\ UNCHANGED <<active, preparing, handoffPending, cancellationRequested, queued,
                     steeringAccepted, steeringApplied, steering, steer, record,
                     writes, saved, shown, broken, reserved, host, close, faults,
                     cancelled>>
    BY <1>t DEF Settle, Ended, lanes, steerVars, stored, Shapes, TypeOK, Steps
  <1>1. Shapes'
    BY <1>0 DEF Shapes, TypeOK
  <1>2. LanesFollowTask'
    BY <1>0, <1>t DEF LanesFollowTask, InLane, Turning, Leaving
  <1>3. StuckHasFailed'
    BY <1>0 DEF StuckHasFailed, Failed
  <1>4. SteeringFollows'
    BY <1>0, <1>t DEF SteeringFollows
  <1>5. QueuedIsBusy'
    BY <1>0, <1>t DEF QueuedIsBusy, IsBusy, LanesFollowTask
  <1>6. BegunBehindGood'
    BY <1>0, <1>t DEF BegunBehindGood, Begun, LanesFollowTask
  <1>7. WaitsBehindActive'
    BY <1>0, <1>t DEF WaitsBehindActive, Begun, LanesFollowTask, IsBusy, InLane
  <1>8. TasksOwn'
    BY <1>0, <1>t DEF TasksOwn, LanesFollowTask, QueuedIsBusy, BegunBehindGood, Begun
  <1>9. CancelStands'
    BY <1>0, <1>t DEF CancelStands, Begun
  <1>10. CopiesAgree'
    BY <1>0 DEF CopiesAgree
  <1>11. ShownIsSaved'
    BY <1>0 DEF ShownIsSaved
  <1>12. ClosedRests'
    BY <1>0 DEF ClosedRests
  <1>13. QED
    BY <1>1, <1>2, <1>3, <1>4, <1>5, <1>6, <1>7, <1>8, <1>9, <1>10, <1>11, <1>12

\* The hand-off begins.
LEMMA PersistedKeeps ==
  ASSUME TaskInduct, NEW e \in Executions, Persisted(e)
  PROVE  TaskInduct'
  <1> USE DEF TaskInduct
  <1>t. /\ active \in Executions \cup {None} /\ queued \in FollowUps \cup {None}
        /\ record \in [FollowUps -> Records] /\ reserved \in [Executions -> FollowUps \cup {None}]
        /\ None \notin Executions /\ None \notin FollowUps
    BY NoneIsNoIndex DEF Shapes, TypeOK, Records, Statuses
  <1>0. /\ task[e] = "persist"
        /\ active' = None /\ handoffPending' = TRUE /\ cancellationRequested' = FALSE
        /\ steering' = None /\ steeringAccepted' = FALSE /\ steeringApplied' = FALSE
        /\ task' \in [Executions -> Steps]
        /\ \A f \in Executions \ {e} : task'[f] = task[f]
        /\ task'[e] = "flush" \/ (task'[e] = "lastFlush" /\ queued' = None)
        /\ queued' \in {queued, None}
        /\ record' \in [FollowUps -> Records] /\ writes' \in Seq(Copies)
        /\ \A q \in FollowUps : /\ record'[q].after = record[q].after
                                /\ record'[q].status = "queued" => record[q].status = "queued"
                                   /\ queued' = queued
                                /\ record[q].status # "none" => record'[q].status # "none"
        /\ CopiesAgree'
        /\ UNCHANGED <<preparing, steer, saved, shown, broken, reserved, host, close, faults,
                     cancelled>>
    <2>1. /\ task[e] = "persist" /\ active' = None /\ handoffPending' = TRUE
          /\ cancellationRequested' = FALSE
          /\ task' = [task EXCEPT ![e] = IF host[e] = "threw" THEN "lastFlush" ELSE "flush"]
          /\ steering' = None /\ steeringAccepted' = FALSE /\ steeringApplied' = FALSE
          /\ UNCHANGED <<preparing, steer, saved, shown, broken, reserved, host, close, faults,
                       cancelled>>
      BY DEF Persisted
    <2>2. /\ task' \in [Executions -> Steps] /\ \A f \in Executions \ {e} : task'[f] = task[f]
          /\ task'[e] = IF host[e] = "threw" THEN "lastFlush" ELSE "flush"
      BY <2>1 DEF Shapes, TypeOK, Steps
    <2>3. CASE host[e] = "threw"
      <3>1. Discard
        BY <2>3 DEF Persisted
      <3>2. /\ queued' = None /\ record' \in [FollowUps -> Records] /\ writes' \in Seq(Copies)
            /\ \A q \in FollowUps : /\ record'[q].after = record[q].after
                                    /\ q = queued => record'[q].status = "discarded"
                                    /\ q # queued => record'[q].status = record[q].status
            /\ CopiesAgree'
        BY <2>1, <3>1, Discards
      <3>3. \A q \in FollowUps : q # queued => record[q].status # "queued"
        BY DEF QueuedIsBusy
      <3>4. QED
        BY <1>t, <2>1, <2>2, <2>3, <3>2, <3>3
    <2>4. CASE host[e] # "threw"
      <3>1. UNCHANGED <<queued, record, writes>>
        BY <2>4 DEF Persisted
      <3>2. CopiesAgree'
        BY <2>1, <3>1 DEF CopiesAgree
      <3>3. QED
        BY <1>t, <2>1, <2>2, <2>4, <3>1, <3>2 DEF Shapes
    <2>5. QED
      BY <2>3, <2>4
  <1>1. Shapes'
    BY <1>0 DEF Shapes, TypeOK, Records, Statuses
  <1>2. LanesFollowTask'
    <2>1. active = e /\ ~preparing
      BY <1>0 DEF LanesFollowTask, InLane, Turning
    <2>2. \A f \in Executions \ {e} : task[f] \notin InLane \cup Leaving /\ host[f] \notin Turning
      BY <1>t, <2>1 DEF LanesFollowTask, Turning
    <2>3. host[e] \notin {"none", "admitting"} \cup Turning
      BY <1>0 DEF LanesFollowTask, Turning
    <2>4. task'[e] \in Leaving
      BY <1>0 DEF Leaving
    <2>5. QED
      BY <1>0, <1>t, <2>1, <2>2, <2>3, <2>4 DEF LanesFollowTask, InLane, Turning
  <1>3. StuckHasFailed'
    BY <1>0 DEF StuckHasFailed, Failed
  <1>4. SteeringFollows'
    BY <1>0, <1>t DEF SteeringFollows
  <1>5. QueuedIsBusy'
    BY <1>0, <1>t DEF QueuedIsBusy, IsBusy, LanesFollowTask
  <1>6. BegunBehindGood'
    BY <1>0, <1>t DEF BegunBehindGood, Begun, LanesFollowTask
  <1>7. WaitsBehindActive'
    BY <1>0, <1>t DEF WaitsBehindActive, Begun, LanesFollowTask, IsBusy, InLane
  <1>8. TasksOwn'
    BY <1>0, <1>t DEF TasksOwn, LanesFollowTask, QueuedIsBusy, BegunBehindGood, Begun
  <1>9. CancelStands'
    BY <1>0, <1>t DEF CancelStands, Begun
  <1>10. CopiesAgree'
    BY <1>0
  <1>11. ShownIsSaved'
    BY <1>0 DEF ShownIsSaved
  <1>12. ClosedRests'
    BY <1>0 DEF ClosedRests
  <1>13. QED
    BY <1>1, <1>2, <1>3, <1>4, <1>5, <1>6, <1>7, <1>8, <1>9, <1>10, <1>11, <1>12

\* The completion is not persisted.
LEMMA PersistFailsKeeps ==
  ASSUME TaskInduct, NEW e \in Executions, PersistFails(e)
  PROVE  TaskInduct'
  <1> USE DEF TaskInduct
  <1>t. /\ active \in Executions \cup {None} /\ queued \in FollowUps \cup {None}
        /\ record \in [FollowUps -> Records] /\ reserved \in [Executions -> FollowUps \cup {None}]
        /\ None \notin Executions /\ None \notin FollowUps
    BY NoneIsNoIndex DEF Shapes, TypeOK, Records, Statuses
  <1>0. /\ task[e] = "persist"
        /\ faults' \in 0 .. MaxFaults /\ faults' > 0
        /\ task' \in [Executions -> Steps]
        /\ task'[e] = "stuck"
        /\ \A f \in Executions \ {e} : task'[f] = task[f]
        /\ UNCHANGED <<active, preparing, handoffPending, cancellationRequested, queued,
                     steeringAccepted, steeringApplied, steering, steer, record,
                     writes, saved, shown, broken, reserved, host, close, cancelled>>
    BY <1>t, BoundsAssumption DEF PersistFails, lanes, steerVars, stored, Shapes, TypeOK,
       Steps
  <1>1. Shapes'
    BY <1>0 DEF Shapes, TypeOK
  <1>2. LanesFollowTask'
    BY <1>0, <1>t DEF LanesFollowTask, InLane, Turning, Leaving
  <1>3. StuckHasFailed'
    BY <1>0 DEF StuckHasFailed, Failed
  <1>4. SteeringFollows'
    BY <1>0, <1>t DEF SteeringFollows
  <1>5. QueuedIsBusy'
    BY <1>0, <1>t DEF QueuedIsBusy, IsBusy, LanesFollowTask
  <1>6. BegunBehindGood'
    BY <1>0, <1>t DEF BegunBehindGood, Begun, LanesFollowTask
  <1>7. WaitsBehindActive'
    BY <1>0, <1>t DEF WaitsBehindActive, Begun, LanesFollowTask, IsBusy, InLane
  <1>8. TasksOwn'
    BY <1>0, <1>t DEF TasksOwn, LanesFollowTask, QueuedIsBusy, BegunBehindGood, Begun
  <1>9. CancelStands'
    BY <1>0, <1>t DEF CancelStands, Begun
  <1>10. CopiesAgree'
    BY <1>0 DEF CopiesAgree
  <1>11. ShownIsSaved'
    BY <1>0 DEF ShownIsSaved
  <1>12. ClosedRests'
    BY <1>0 DEF ClosedRests
  <1>13. QED
    BY <1>1, <1>2, <1>3, <1>4, <1>5, <1>6, <1>7, <1>8, <1>9, <1>10, <1>11, <1>12

\* No follow-up is left.
LEMMA FlushedIdleKeeps ==
  ASSUME TaskInduct, NEW e \in Executions, FlushedIdle(e)
  PROVE  TaskInduct'
  <1> USE DEF TaskInduct
  <1>t. /\ active \in Executions \cup {None} /\ queued \in FollowUps \cup {None}
        /\ record \in [FollowUps -> Records] /\ reserved \in [Executions -> FollowUps \cup {None}]
        /\ None \notin Executions /\ None \notin FollowUps
    BY NoneIsNoIndex DEF Shapes, TypeOK, Records, Statuses
  <1>0. /\ task[e] = "lastFlush" \/ (task[e] = "flush" /\ queued = None)
        /\ handoffPending' = FALSE
        /\ task' \in [Executions -> Steps]
        /\ task'[e] = "done"
        /\ \A f \in Executions \ {e} : task'[f] = task[f]
        /\ UNCHANGED <<active, preparing, cancellationRequested, queued, steeringAccepted,
                     steeringApplied, steering, steer, record, writes, saved, shown,
                     broken, reserved, host, close, faults, cancelled>>
    BY <1>t DEF FlushedIdle, lanes, steerVars, stored, Shapes, TypeOK, Steps
  <1>1. Shapes'
    BY <1>0 DEF Shapes, TypeOK
  <1>2. LanesFollowTask'
    BY <1>0, <1>t DEF LanesFollowTask, InLane, Turning, Leaving
  <1>3. StuckHasFailed'
    BY <1>0 DEF StuckHasFailed, Failed
  <1>4. SteeringFollows'
    BY <1>0, <1>t DEF SteeringFollows
  <1>5. QueuedIsBusy'
    BY <1>0, <1>t DEF QueuedIsBusy, IsBusy, LanesFollowTask, TasksOwn
  <1>6. BegunBehindGood'
    BY <1>0, <1>t DEF BegunBehindGood, Begun, LanesFollowTask
  <1>7. WaitsBehindActive'
    BY <1>0, <1>t DEF WaitsBehindActive, Begun, LanesFollowTask, IsBusy, InLane, TasksOwn
  <1>8. TasksOwn'
    BY <1>0, <1>t DEF TasksOwn, LanesFollowTask, QueuedIsBusy, BegunBehindGood, Begun
  <1>9. CancelStands'
    BY <1>0, <1>t DEF CancelStands, Begun
  <1>10. CopiesAgree'
    BY <1>0 DEF CopiesAgree
  <1>11. ShownIsSaved'
    BY <1>0 DEF ShownIsSaved
  <1>12. ClosedRests'
    BY <1>0 DEF ClosedRests
  <1>13. QED
    BY <1>1, <1>2, <1>3, <1>4, <1>5, <1>6, <1>7, <1>8, <1>9, <1>10, <1>11, <1>12

\* A follow-up begins.
LEMMA FlushedStartsKeeps ==
  ASSUME TaskInduct, NEW e \in Executions, NEW child \in Executions, FlushedStarts(e, child)
  PROVE  TaskInduct'
  <1> USE DEF TaskInduct, HostStates
  <1>t. /\ active \in Executions \cup {None} /\ queued \in FollowUps \cup {None}
        /\ record \in [FollowUps -> Records] /\ reserved \in [Executions -> FollowUps \cup {None}]
        /\ None \notin Executions /\ None \notin FollowUps
    BY NoneIsNoIndex DEF Shapes, TypeOK, Records, Statuses
  <1>0. /\ task[e] = "flush" /\ host[e] = "ok" /\ queued # None /\ queued \in FollowUps
        /\ task[child] = "none" /\ close = "open" /\ e # child
        /\ active' = child /\ preparing' = TRUE /\ handoffPending' = FALSE
           /\ cancellationRequested' = FALSE
        /\ steeringAccepted' = FALSE /\ steeringApplied' = FALSE /\ steering' = None
        /\ reserved' \in [Executions -> FollowUps \cup {None}] /\ reserved'[child] = queued
        /\ \A f \in Executions \ {child} : reserved'[f] = reserved[f]
        /\ host' \in [Executions -> HostStates]
        /\ host'[child] = "admitting"
        /\ \A f \in Executions \ {child} : host'[f] = host[f]
        /\ task' \in [Executions -> Steps]
        /\ task'[e] = "done"
        /\ task'[child] = "admit"
        /\ \A f \in Executions \ {e, child} : task'[f] = task[f]
        /\ UNCHANGED <<queued, steer, record, writes, saved, shown, broken, close, faults,
                     cancelled>>
    BY <1>t DEF FlushedStarts, Begin, Unused, lanes, steerVars, stored, Shapes, TypeOK,
       Steps
  <1>1. Shapes'
    BY <1>0 DEF Shapes, TypeOK
  <1>2. LanesFollowTask'
    BY <1>0, <1>t DEF LanesFollowTask, InLane, Turning, Leaving
  <1>3. StuckHasFailed'
    BY <1>0 DEF StuckHasFailed, Failed
  <1>4. SteeringFollows'
    BY <1>0, <1>t DEF SteeringFollows
  <1>5. QueuedIsBusy'
    BY <1>0, <1>t DEF QueuedIsBusy, IsBusy, LanesFollowTask
  <1>6. BegunBehindGood'
    <2>1. PICK p \in FollowUps : p = queued
      BY <1>0
    <2>2. \E f \in Executions :
            record[p].after = f /\ host[f] = "ok" /\ f \notin cancelled
      <3>1. CASE Begun(p)
        BY <3>1 DEF BegunBehindGood
      <3>2. CASE ~Begun(p)
        BY <1>0, <2>1, <3>2 DEF WaitsBehindActive, CancelStands
      <3>3. QED
        BY <3>1, <3>2
    <2>3. record[p].status # "none"
      BY <2>1 DEF QueuedIsBusy
    <2>4. \A q \in FollowUps : Begun(q)' => q = p \/ Begun(q)
      BY <1>0, <2>1 DEF Begun
    <2>5. \A f \in Executions : host[f] = "ok" => host'[f] = "ok"
      BY <1>0 DEF LanesFollowTask, Turning
    <2>6. QED
      BY <1>0, <2>2, <2>3, <2>4, <2>5 DEF BegunBehindGood
  <1>7. WaitsBehindActive'
    BY <1>0, <1>t DEF WaitsBehindActive, Begun, LanesFollowTask, IsBusy, InLane
  <1>8. TasksOwn'
    BY <1>0, <1>t DEF TasksOwn, LanesFollowTask, QueuedIsBusy, BegunBehindGood, Begun
  <1>9. CancelStands'
    BY <1>0, <1>t DEF CancelStands, Begun, TasksOwn
  <1>10. CopiesAgree'
    BY <1>0 DEF CopiesAgree
  <1>11. ShownIsSaved'
    BY <1>0 DEF ShownIsSaved
  <1>12. ClosedRests'
    BY <1>0 DEF ClosedRests
  <1>13. QED
    BY <1>1, <1>2, <1>3, <1>4, <1>5, <1>6, <1>7, <1>8, <1>9, <1>10, <1>11, <1>12

\* The follow-up is discarded.
LEMMA FlushedDiscardsKeeps ==
  ASSUME TaskInduct, NEW e \in Executions, FlushedDiscards(e)
  PROVE  TaskInduct'
  <1> USE DEF TaskInduct
  <1>t. /\ active \in Executions \cup {None} /\ queued \in FollowUps \cup {None}
        /\ record \in [FollowUps -> Records] /\ reserved \in [Executions -> FollowUps \cup {None}]
        /\ None \notin Executions /\ None \notin FollowUps
    BY NoneIsNoIndex DEF Shapes, TypeOK, Records, Statuses
  <1>0. /\ task[e] = "flush"
        /\ queued' = None /\ record' \in [FollowUps -> Records] /\ writes' \in Seq(Copies)
        /\ \A q \in FollowUps : /\ record'[q].after = record[q].after
                                /\ record'[q].status # "queued"
                                /\ record[q].status # "none" => record'[q].status # "none"
        /\ CopiesAgree'
        /\ task' \in [Executions -> Steps]
        /\ task'[e] = "lastFlush"
        /\ \A f \in Executions \ {e} : task'[f] = task[f]
        /\ UNCHANGED <<active, preparing, handoffPending, cancellationRequested,
                     steeringAccepted, steeringApplied, steering, steer, saved, shown,
                     broken, reserved, host, close, faults, cancelled>>
    <2>1. /\ queued' = None /\ record' \in [FollowUps -> Records] /\ writes' \in Seq(Copies)
          /\ \A q \in FollowUps : /\ record'[q].after = record[q].after
                                  /\ q = queued => record'[q].status = "discarded"
                                  /\ q # queued => record'[q].status = record[q].status
          /\ CopiesAgree'
      BY Discards DEF FlushedDiscards
    <2>2. \A q \in FollowUps : q # queued => record[q].status # "queued"
      BY DEF QueuedIsBusy
    <2>3. QED
      BY <1>t, <2>1, <2>2 DEF FlushedDiscards, lanes, steerVars, Shapes, TypeOK, Steps
  <1>1. Shapes'
    BY <1>0 DEF Shapes, TypeOK, Records, Statuses
  <1>2. LanesFollowTask'
    BY <1>0, <1>t DEF LanesFollowTask, InLane, Turning, Leaving
  <1>3. StuckHasFailed'
    BY <1>0 DEF StuckHasFailed, Failed
  <1>4. SteeringFollows'
    BY <1>0, <1>t DEF SteeringFollows
  <1>5. QueuedIsBusy'
    BY <1>0, <1>t DEF QueuedIsBusy, IsBusy, LanesFollowTask
  <1>6. BegunBehindGood'
    BY <1>0, <1>t DEF BegunBehindGood, Begun, LanesFollowTask
  <1>7. WaitsBehindActive'
    BY <1>0, <1>t DEF WaitsBehindActive, Begun, LanesFollowTask, IsBusy, InLane
  <1>8. TasksOwn'
    BY <1>0, <1>t DEF TasksOwn, LanesFollowTask, QueuedIsBusy, BegunBehindGood, Begun
  <1>9. CancelStands'
    BY <1>0, <1>t DEF CancelStands, Begun
  <1>10. CopiesAgree'
    BY <1>0
  <1>11. ShownIsSaved'
    BY <1>0 DEF ShownIsSaved
  <1>12. ClosedRests'
    BY <1>0 DEF ClosedRests
  <1>13. QED
    BY <1>1, <1>2, <1>3, <1>4, <1>5, <1>6, <1>7, <1>8, <1>9, <1>10, <1>11, <1>12

\* A rejected write rejects the flush.
LEMMA FlushFailsKeeps ==
  ASSUME TaskInduct, NEW e \in Executions, FlushFails(e)
  PROVE  TaskInduct'
  <1> USE DEF TaskInduct
  <1>t. /\ active \in Executions \cup {None} /\ queued \in FollowUps \cup {None}
        /\ record \in [FollowUps -> Records] /\ reserved \in [Executions -> FollowUps \cup {None}]
        /\ None \notin Executions /\ None \notin FollowUps
    BY NoneIsNoIndex DEF Shapes, TypeOK, Records, Statuses
  <1>0. /\ broken /\ task[e] \in Leaving
        /\ task' \in [Executions -> Steps]
        /\ task'[e] = "stuck"
        /\ \A f \in Executions \ {e} : task'[f] = task[f]
        /\ UNCHANGED <<active, preparing, handoffPending, cancellationRequested, queued,
                     steeringAccepted, steeringApplied, steering, steer, record,
                     writes, saved, shown, broken, reserved, host, close, faults,
                     cancelled>>
    BY <1>t DEF FlushFails, Leaving, lanes, steerVars, stored, Shapes, TypeOK, Steps
  <1>1. Shapes'
    BY <1>0 DEF Shapes, TypeOK
  <1>2. LanesFollowTask'
    BY <1>0, <1>t DEF LanesFollowTask, InLane, Turning, Leaving
  <1>3. StuckHasFailed'
    BY <1>0 DEF StuckHasFailed, Failed
  <1>4. SteeringFollows'
    BY <1>0, <1>t DEF SteeringFollows
  <1>5. QueuedIsBusy'
    BY <1>0, <1>t DEF QueuedIsBusy, IsBusy, LanesFollowTask
  <1>6. BegunBehindGood'
    BY <1>0, <1>t DEF BegunBehindGood, Begun, LanesFollowTask
  <1>7. WaitsBehindActive'
    BY <1>0, <1>t DEF WaitsBehindActive, Begun, LanesFollowTask, IsBusy, InLane
  <1>8. TasksOwn'
    BY <1>0, <1>t DEF TasksOwn, LanesFollowTask, QueuedIsBusy, BegunBehindGood, Begun, InLane
  <1>9. CancelStands'
    BY <1>0, <1>t DEF CancelStands, Begun
  <1>10. CopiesAgree'
    BY <1>0 DEF CopiesAgree
  <1>11. ShownIsSaved'
    BY <1>0 DEF ShownIsSaved
  <1>12. ClosedRests'
    BY <1>0 DEF ClosedRests
  <1>13. QED
    BY <1>1, <1>2, <1>3, <1>4, <1>5, <1>6, <1>7, <1>8, <1>9, <1>10, <1>11, <1>12

\* A follow-up is queued.
LEMMA QueueFollowUpKeeps ==
  ASSUME TaskInduct, NEW e \in Executions, NEW q \in FollowUps, QueueFollowUp(e, q)
  PROVE  TaskInduct'
  <1> USE DEF TaskInduct
  <1>t. /\ active \in Executions \cup {None} /\ queued \in FollowUps \cup {None}
        /\ record \in [FollowUps -> Records] /\ reserved \in [Executions -> FollowUps \cup {None}]
        /\ None \notin Executions /\ None \notin FollowUps
    BY NoneIsNoIndex DEF Shapes, TypeOK, Records, Statuses
  <1>0. /\ record[q].status = "none" /\ active = e /\ ~preparing /\ ~cancellationRequested
           /\ queued = None
        /\ queued' = q
        /\ record' \in [FollowUps -> Records] /\ writes' \in Seq(Copies)
        /\ record'[q].status = "queued" /\ record'[q].after = e
        /\ \A p \in FollowUps \ {q} :
             record'[p].after = record[p].after /\ record'[p].status = record[p].status
        /\ CopiesAgree'
        /\ UNCHANGED <<active, preparing, handoffPending, cancellationRequested,
                     steeringAccepted, steeringApplied, steering, steer, saved, shown,
                     broken, task, reserved, host, close, faults, cancelled>>
    <2>1. /\ record[q].status = "none" /\ active = e /\ ~preparing /\ ~cancellationRequested
          /\ queued = None /\ queued' = q
          /\ UNCHANGED <<active, preparing, handoffPending, cancellationRequested, steeringAccepted,
                       steeringApplied, steering, steer, saved, shown, broken, task, reserved, host,
                       close, faults, cancelled>>
      BY DEF QueueFollowUp, steerVars
    <2> DEFINE r == [NoRecord EXCEPT !.status = "queued", !.after = e]
    <2>2. r \in Records /\ r.status = "queued" /\ r.after = e
      BY DEF Records, Statuses, NoRecord
    <2>3. /\ record' = [record EXCEPT ![q] = r]
          /\ writes' = IF broken THEN writes
                       ELSE Append(writes, [queueId |-> q, status |-> "queued", by |-> None])
      BY <2>2 DEF QueueFollowUp, Save
    <2> HIDE DEF r
    <2>4. /\ record' \in [FollowUps -> Records] /\ record'[q] = r
          /\ \A p \in FollowUps \ {q} : record'[p] = record[p]
      BY <1>t, <2>2, <2>3
    <2>5. writes' \in Seq(Copies) /\ CopiesAgree'
      BY <1>t, <2>1, <2>2, <2>3, <2>4, SavedAgrees DEF Shapes, Statuses
    <2>6. QED
      BY <2>1, <2>2, <2>4, <2>5
  <1>1. Shapes'
    BY <1>0 DEF Shapes, TypeOK, Records, Statuses
  <1>2. LanesFollowTask'
    BY <1>0, <1>t DEF LanesFollowTask, Turning
  <1>3. StuckHasFailed'
    BY <1>0 DEF StuckHasFailed, Failed
  <1>4. SteeringFollows'
    BY <1>0, <1>t DEF SteeringFollows
  <1>5. QueuedIsBusy'
    BY <1>0, <1>t DEF QueuedIsBusy, IsBusy, LanesFollowTask
  <1>6. BegunBehindGood'
    BY <1>0, <1>t DEF BegunBehindGood, Begun, LanesFollowTask
  <1>7. WaitsBehindActive'
    BY <1>0, <1>t DEF WaitsBehindActive, Begun, LanesFollowTask, IsBusy, InLane, Leaving
  <1>8. TasksOwn'
    BY <1>0, <1>t DEF TasksOwn, LanesFollowTask, QueuedIsBusy, BegunBehindGood, Begun, InLane,
       Leaving
  <1>9. CancelStands'
    BY <1>0, <1>t DEF CancelStands, Begun
  <1>10. CopiesAgree'
    BY <1>0
  <1>11. ShownIsSaved'
    BY <1>0 DEF ShownIsSaved
  <1>12. ClosedRests'
    BY <1>0 DEF ClosedRests
  <1>13. QED
    BY <1>1, <1>2, <1>3, <1>4, <1>5, <1>6, <1>7, <1>8, <1>9, <1>10, <1>11, <1>12

\* The active execution is cancelled.
LEMMA CancelKeeps ==
  ASSUME TaskInduct, NEW e \in Executions, Cancel(e)
  PROVE  TaskInduct'
  <1> USE DEF TaskInduct
  <1>t. /\ active \in Executions \cup {None} /\ queued \in FollowUps \cup {None}
        /\ record \in [FollowUps -> Records] /\ reserved \in [Executions -> FollowUps \cup {None}]
        /\ None \notin Executions /\ None \notin FollowUps
    BY NoneIsNoIndex DEF Shapes, TypeOK, Records, Statuses
  <1>0. /\ active = e /\ host[e] \in {"admitting"} \cup Turning
        /\ cancellationRequested' = TRUE /\ cancelled' = cancelled \cup {e}
        /\ queued' = None /\ record' \in [FollowUps -> Records] /\ writes' \in Seq(Copies)
        /\ \A q \in FollowUps : /\ record'[q].after = record[q].after
                                /\ record'[q].status # "queued"
                                /\ record[q].status # "none" => record'[q].status # "none"
        /\ CopiesAgree'
        /\ UNCHANGED <<active, preparing, handoffPending, steeringAccepted, steeringApplied,
                     steering, steer, saved, shown, broken, task, reserved, host,
                     close, faults>>
    <2>1. /\ queued' = None /\ record' \in [FollowUps -> Records] /\ writes' \in Seq(Copies)
          /\ \A q \in FollowUps : /\ record'[q].after = record[q].after
                                  /\ q = queued => record'[q].status = "discarded"
                                  /\ q # queued => record'[q].status = record[q].status
          /\ CopiesAgree'
      BY Discards DEF Cancel
    <2>2. \A q \in FollowUps : q # queued => record[q].status # "queued"
      BY DEF QueuedIsBusy
    <2>3. QED
      BY <1>t, <2>1, <2>2 DEF Cancel, Turning, lanes, steerVars
  <1>1. Shapes'
    BY <1>0 DEF Shapes, TypeOK, Records, Statuses
  <1>2. LanesFollowTask'
    BY <1>0, <1>t DEF LanesFollowTask, Turning
  <1>3. StuckHasFailed'
    BY <1>0 DEF StuckHasFailed, Failed
  <1>4. SteeringFollows'
    BY <1>0, <1>t DEF SteeringFollows
  <1>5. QueuedIsBusy'
    BY <1>0, <1>t DEF QueuedIsBusy, IsBusy, LanesFollowTask
  <1>6. BegunBehindGood'
    BY <1>0, <1>t DEF BegunBehindGood, Begun, LanesFollowTask, Turning
  <1>7. WaitsBehindActive'
    BY <1>0, <1>t DEF WaitsBehindActive, Begun, LanesFollowTask, IsBusy, InLane
  <1>8. TasksOwn'
    BY <1>0, <1>t DEF TasksOwn, LanesFollowTask, QueuedIsBusy, BegunBehindGood, Begun
  <1>9. CancelStands'
    BY <1>0, <1>t DEF CancelStands, Begun
  <1>10. CopiesAgree'
    BY <1>0
  <1>11. ShownIsSaved'
    BY <1>0 DEF ShownIsSaved
  <1>12. ClosedRests'
    BY <1>0 DEF ClosedRests
  <1>13. QED
    BY <1>1, <1>2, <1>3, <1>4, <1>5, <1>6, <1>7, <1>8, <1>9, <1>10, <1>11, <1>12

\* It is steered.
LEMMA SteerKeeps ==
  ASSUME TaskInduct, NEW e \in Executions, Steer(e)
  PROVE  TaskInduct'
  <1> USE DEF TaskInduct
  <1>t. /\ active \in Executions \cup {None} /\ queued \in FollowUps \cup {None}
        /\ record \in [FollowUps -> Records] /\ reserved \in [Executions -> FollowUps \cup {None}]
        /\ None \notin Executions /\ None \notin FollowUps
    BY NoneIsNoIndex DEF Shapes, TypeOK, Records, Statuses
  <1>0. /\ active = e /\ ~preparing /\ ~steeringAccepted
        /\ steeringAccepted' = TRUE
        /\ steer' \in [Executions -> {"none", "asked", "taken", "answered"}]
        /\ steer'[e] = "asked"
        /\ \A f \in Executions \ {e} : steer'[f] = steer[f]
        /\ UNCHANGED <<active, preparing, handoffPending, cancellationRequested, queued,
                     steeringApplied, steering, record, writes, saved, shown, broken,
                     task, reserved, host, close, faults, cancelled>>
    BY <1>t DEF Steer, lanes, steerVars, stored, Shapes, TypeOK
  <1>1. Shapes'
    BY <1>0 DEF Shapes, TypeOK
  <1>2. LanesFollowTask'
    BY <1>0, <1>t DEF LanesFollowTask, Turning
  <1>3. StuckHasFailed'
    BY <1>0 DEF StuckHasFailed, Failed
  <1>4. SteeringFollows'
    BY <1>0, <1>t DEF SteeringFollows, LanesFollowTask, InLane, Turning
  <1>5. QueuedIsBusy'
    BY <1>0, <1>t DEF QueuedIsBusy, IsBusy, LanesFollowTask
  <1>6. BegunBehindGood'
    BY <1>0, <1>t DEF BegunBehindGood, Begun, LanesFollowTask
  <1>7. WaitsBehindActive'
    BY <1>0, <1>t DEF WaitsBehindActive, Begun, LanesFollowTask, IsBusy, InLane
  <1>8. TasksOwn'
    BY <1>0, <1>t DEF TasksOwn, LanesFollowTask, QueuedIsBusy, BegunBehindGood, Begun
  <1>9. CancelStands'
    BY <1>0, <1>t DEF CancelStands, Begun
  <1>10. CopiesAgree'
    BY <1>0 DEF CopiesAgree
  <1>11. ShownIsSaved'
    BY <1>0 DEF ShownIsSaved
  <1>12. ClosedRests'
    BY <1>0 DEF ClosedRests
  <1>13. QED
    BY <1>1, <1>2, <1>3, <1>4, <1>5, <1>6, <1>7, <1>8, <1>9, <1>10, <1>11, <1>12

\* The coordinator takes the steering.
LEMMA HostTakesSteeringKeeps ==
  ASSUME TaskInduct, NEW e \in Executions, HostTakesSteering(e)
  PROVE  TaskInduct'
  <1> USE DEF TaskInduct
  <1>t. /\ active \in Executions \cup {None} /\ queued \in FollowUps \cup {None}
        /\ record \in [FollowUps -> Records] /\ reserved \in [Executions -> FollowUps \cup {None}]
        /\ None \notin Executions /\ None \notin FollowUps
    BY NoneIsNoIndex DEF Shapes, TypeOK, Records, Statuses
  <1>0. /\ steer[e] = "asked"
        /\ steer' \in [Executions -> {"none", "asked", "taken", "answered"}]
        /\ steer'[e] = "taken"
        /\ \A f \in Executions \ {e} : steer'[f] = steer[f]
        /\ UNCHANGED <<active, preparing, handoffPending, cancellationRequested, queued,
                     steeringAccepted, steeringApplied, steering, record, writes,
                     saved, shown, broken, task, reserved, host, close, faults,
                     cancelled>>
    BY <1>t DEF HostTakesSteering, lanes, steerVars, stored, Shapes, TypeOK
  <1>1. Shapes'
    BY <1>0 DEF Shapes, TypeOK
  <1>2. LanesFollowTask'
    BY <1>0, <1>t DEF LanesFollowTask, Turning
  <1>3. StuckHasFailed'
    BY <1>0 DEF StuckHasFailed, Failed
  <1>4. SteeringFollows'
    BY <1>0, <1>t DEF SteeringFollows
  <1>5. QueuedIsBusy'
    BY <1>0, <1>t DEF QueuedIsBusy, IsBusy, LanesFollowTask
  <1>6. BegunBehindGood'
    BY <1>0, <1>t DEF BegunBehindGood, Begun, LanesFollowTask
  <1>7. WaitsBehindActive'
    BY <1>0, <1>t DEF WaitsBehindActive, Begun, LanesFollowTask, IsBusy, InLane
  <1>8. TasksOwn'
    BY <1>0, <1>t DEF TasksOwn, LanesFollowTask, QueuedIsBusy, BegunBehindGood, Begun
  <1>9. CancelStands'
    BY <1>0, <1>t DEF CancelStands, Begun
  <1>10. CopiesAgree'
    BY <1>0 DEF CopiesAgree
  <1>11. ShownIsSaved'
    BY <1>0 DEF ShownIsSaved
  <1>12. ClosedRests'
    BY <1>0 DEF ClosedRests
  <1>13. QED
    BY <1>1, <1>2, <1>3, <1>4, <1>5, <1>6, <1>7, <1>8, <1>9, <1>10, <1>11, <1>12

\* The steering is applied.
LEMMA SteeringIsAppliedKeeps ==
  ASSUME TaskInduct, NEW e \in Executions, SteeringIsApplied(e)
  PROVE  TaskInduct'
  <1> USE DEF TaskInduct
  <1>t. /\ active \in Executions \cup {None} /\ queued \in FollowUps \cup {None}
        /\ record \in [FollowUps -> Records] /\ reserved \in [Executions -> FollowUps \cup {None}]
        /\ None \notin Executions /\ None \notin FollowUps
    BY NoneIsNoIndex DEF Shapes, TypeOK, Records, Statuses
  <1>0. /\ active = e /\ steeringApplied' = TRUE /\ steering' = None
        /\ UNCHANGED <<active, preparing, handoffPending, cancellationRequested, queued,
                     steeringAccepted, steer, record, writes, saved, shown, broken,
                     task, reserved, host, close, faults, cancelled>>
    BY <1>t DEF SteeringIsApplied, lanes, steerVars, stored
  <1>1. Shapes'
    BY <1>0 DEF Shapes, TypeOK
  <1>2. LanesFollowTask'
    BY <1>0, <1>t DEF LanesFollowTask, Turning
  <1>3. StuckHasFailed'
    BY <1>0 DEF StuckHasFailed, Failed
  <1>4. SteeringFollows'
    BY <1>0, <1>t DEF SteeringFollows
  <1>5. QueuedIsBusy'
    BY <1>0, <1>t DEF QueuedIsBusy, IsBusy, LanesFollowTask
  <1>6. BegunBehindGood'
    BY <1>0, <1>t DEF BegunBehindGood, Begun, LanesFollowTask
  <1>7. WaitsBehindActive'
    BY <1>0, <1>t DEF WaitsBehindActive, Begun, LanesFollowTask, IsBusy, InLane
  <1>8. TasksOwn'
    BY <1>0, <1>t DEF TasksOwn, LanesFollowTask, QueuedIsBusy, BegunBehindGood, Begun
  <1>9. CancelStands'
    BY <1>0, <1>t DEF CancelStands, Begun
  <1>10. CopiesAgree'
    BY <1>0 DEF CopiesAgree
  <1>11. ShownIsSaved'
    BY <1>0 DEF ShownIsSaved
  <1>12. ClosedRests'
    BY <1>0 DEF ClosedRests
  <1>13. QED
    BY <1>1, <1>2, <1>3, <1>4, <1>5, <1>6, <1>7, <1>8, <1>9, <1>10, <1>11, <1>12

\* The steer call is answered.
LEMMA SteerAnsweredKeeps ==
  ASSUME TaskInduct, NEW e \in Executions, SteerAnswered(e)
  PROVE  TaskInduct'
  <1> USE DEF TaskInduct
  <1>t. /\ active \in Executions \cup {None} /\ queued \in FollowUps \cup {None}
        /\ record \in [FollowUps -> Records] /\ reserved \in [Executions -> FollowUps \cup {None}]
        /\ None \notin Executions /\ None \notin FollowUps
    BY NoneIsNoIndex DEF Shapes, TypeOK, Records, Statuses
  <1>0. /\ steer' \in [Executions -> {"none", "asked", "taken", "answered"}]
        /\ \A f \in Executions \ {e} : steer'[f] = steer[f]
        /\ \/ /\ steer[e] = "taken" /\ steer'[e] = "answered" /\ UNCHANGED steeringAccepted
              /\ steering' = IF active = e /\ ~steeringApplied THEN e ELSE steering
           \/ /\ steer[e] = "asked" /\ steer'[e] = "none" /\ UNCHANGED steering
              /\ steeringAccepted' = IF active = e THEN FALSE ELSE steeringAccepted
        /\ UNCHANGED <<active, preparing, handoffPending, cancellationRequested, queued,
                     steeringApplied, record, writes, saved, shown, broken, task,
                     reserved, host, close, faults, cancelled>>
    BY <1>t DEF SteerAnswered, lanes, steerVars, stored, Shapes, TypeOK
  <1>1. Shapes'
    <2>1. /\ steering' \in Executions \cup {None} /\ steeringAccepted' \in BOOLEAN
          /\ steer' \in [Executions -> {"none", "asked", "taken", "answered"}]
      BY <1>0 DEF Shapes, TypeOK
    <2>2. UNCHANGED <<lanes, steeringApplied, record, stored, task, reserved, host, close,
                      faults, cancelled>>
      BY <1>0 DEF lanes, stored
    <2>3. QED
      BY <2>1, <2>2 DEF Shapes, TypeOK, lanes, stored
  <1>2. LanesFollowTask'
    BY <1>0, <1>t DEF LanesFollowTask, Turning
  <1>3. StuckHasFailed'
    BY <1>0 DEF StuckHasFailed, Failed
  <1>4. SteeringFollows'
    BY <1>0, <1>t DEF SteeringFollows
  <1>5. QueuedIsBusy'
    BY <1>0, <1>t DEF QueuedIsBusy, IsBusy, LanesFollowTask
  <1>6. BegunBehindGood'
    BY <1>0, <1>t DEF BegunBehindGood, Begun, LanesFollowTask
  <1>7. WaitsBehindActive'
    BY <1>0, <1>t DEF WaitsBehindActive, Begun, LanesFollowTask, IsBusy, InLane
  <1>8. TasksOwn'
    BY <1>0, <1>t DEF TasksOwn, LanesFollowTask, QueuedIsBusy, BegunBehindGood, Begun
  <1>9. CancelStands'
    BY <1>0, <1>t DEF CancelStands, Begun
  <1>10. CopiesAgree'
    BY <1>0 DEF CopiesAgree
  <1>11. ShownIsSaved'
    BY <1>0 DEF ShownIsSaved
  <1>12. ClosedRests'
    BY <1>0 DEF ClosedRests
  <1>13. QED
    BY <1>1, <1>2, <1>3, <1>4, <1>5, <1>6, <1>7, <1>8, <1>9, <1>10, <1>11, <1>12

\* The close begins.
LEMMA CloseKeeps ==
  ASSUME TaskInduct, Close
  PROVE  TaskInduct'
  <1> USE DEF TaskInduct
  <1>t. /\ active \in Executions \cup {None} /\ queued \in FollowUps \cup {None}
        /\ record \in [FollowUps -> Records] /\ reserved \in [Executions -> FollowUps \cup {None}]
        /\ None \notin Executions /\ None \notin FollowUps
    BY NoneIsNoIndex DEF Shapes, TypeOK, Records, Statuses
  <1>0. /\ close = "open" /\ close' = "host"
        /\ UNCHANGED <<active, preparing, handoffPending, cancellationRequested, queued,
                     steeringAccepted, steeringApplied, steering, steer, record,
                     writes, saved, shown, broken, task, reserved, host, faults,
                     cancelled>>
    BY <1>t DEF Close, lanes, steerVars, stored
  <1>1. Shapes'
    BY <1>0 DEF Shapes, TypeOK
  <1>2. LanesFollowTask'
    BY <1>0, <1>t DEF LanesFollowTask, Turning
  <1>3. StuckHasFailed'
    BY <1>0 DEF StuckHasFailed, Failed
  <1>4. SteeringFollows'
    BY <1>0, <1>t DEF SteeringFollows
  <1>5. QueuedIsBusy'
    BY <1>0, <1>t DEF QueuedIsBusy, IsBusy, LanesFollowTask
  <1>6. BegunBehindGood'
    BY <1>0, <1>t DEF BegunBehindGood, Begun, LanesFollowTask
  <1>7. WaitsBehindActive'
    BY <1>0, <1>t DEF WaitsBehindActive, Begun, LanesFollowTask, IsBusy, InLane
  <1>8. TasksOwn'
    BY <1>0, <1>t DEF TasksOwn, LanesFollowTask, QueuedIsBusy, BegunBehindGood, Begun
  <1>9. CancelStands'
    BY <1>0, <1>t DEF CancelStands, Begun
  <1>10. CopiesAgree'
    BY <1>0 DEF CopiesAgree
  <1>11. ShownIsSaved'
    BY <1>0 DEF ShownIsSaved
  <1>12. ClosedRests'
    BY <1>0 DEF ClosedRests
  <1>13. QED
    BY <1>1, <1>2, <1>3, <1>4, <1>5, <1>6, <1>7, <1>8, <1>9, <1>10, <1>11, <1>12

\* The coordinator is closed.
LEMMA HostClosedKeeps ==
  ASSUME TaskInduct, HostClosed
  PROVE  TaskInduct'
  <1> USE DEF TaskInduct
  <1>t. /\ active \in Executions \cup {None} /\ queued \in FollowUps \cup {None}
        /\ record \in [FollowUps -> Records] /\ reserved \in [Executions -> FollowUps \cup {None}]
        /\ None \notin Executions /\ None \notin FollowUps
    BY NoneIsNoIndex DEF Shapes, TypeOK, Records, Statuses
  <1>0. /\ close = "host" /\ close' = "chain"
        /\ UNCHANGED <<active, preparing, handoffPending, cancellationRequested, queued,
                     steeringAccepted, steeringApplied, steering, steer, record,
                     writes, saved, shown, broken, task, reserved, host, faults,
                     cancelled>>
    BY <1>t DEF HostClosed, lanes, steerVars, stored
  <1>1. Shapes'
    BY <1>0 DEF Shapes, TypeOK
  <1>2. LanesFollowTask'
    BY <1>0, <1>t DEF LanesFollowTask, Turning
  <1>3. StuckHasFailed'
    BY <1>0 DEF StuckHasFailed, Failed
  <1>4. SteeringFollows'
    BY <1>0, <1>t DEF SteeringFollows
  <1>5. QueuedIsBusy'
    BY <1>0, <1>t DEF QueuedIsBusy, IsBusy, LanesFollowTask
  <1>6. BegunBehindGood'
    BY <1>0, <1>t DEF BegunBehindGood, Begun, LanesFollowTask
  <1>7. WaitsBehindActive'
    BY <1>0, <1>t DEF WaitsBehindActive, Begun, LanesFollowTask, IsBusy, InLane
  <1>8. TasksOwn'
    BY <1>0, <1>t DEF TasksOwn, LanesFollowTask, QueuedIsBusy, BegunBehindGood, Begun
  <1>9. CancelStands'
    BY <1>0, <1>t DEF CancelStands, Begun
  <1>10. CopiesAgree'
    BY <1>0 DEF CopiesAgree
  <1>11. ShownIsSaved'
    BY <1>0 DEF ShownIsSaved
  <1>12. ClosedRests'
    BY <1>0 DEF ClosedRests
  <1>13. QED
    BY <1>1, <1>2, <1>3, <1>4, <1>5, <1>6, <1>7, <1>8, <1>9, <1>10, <1>11, <1>12

\* The chain of executions and the writes are over.
LEMMA CloseEndsKeeps ==
  ASSUME TaskInduct, CloseEnds
  PROVE  TaskInduct'
  <1> USE DEF TaskInduct
  <1>t. /\ active \in Executions \cup {None} /\ queued \in FollowUps \cup {None}
        /\ record \in [FollowUps -> Records] /\ reserved \in [Executions -> FollowUps \cup {None}]
        /\ None \notin Executions /\ None \notin FollowUps
    BY NoneIsNoIndex DEF Shapes, TypeOK, Records, Statuses
  <1>0. /\ \A f \in Executions : task[f] \in {"none", "done", "stuck"}
        /\ close' \in {"done", "failed"}
        /\ UNCHANGED <<active, preparing, handoffPending, cancellationRequested, queued,
                     steeringAccepted, steeringApplied, steering, steer, record,
                     writes, saved, shown, broken, task, reserved, host, faults,
                     cancelled>>
    BY <1>t DEF CloseEnds, lanes, steerVars, stored
  <1>1. Shapes'
    BY <1>0 DEF Shapes, TypeOK
  <1>2. LanesFollowTask'
    BY <1>0, <1>t DEF LanesFollowTask, Turning
  <1>3. StuckHasFailed'
    BY <1>0 DEF StuckHasFailed, Failed
  <1>4. SteeringFollows'
    BY <1>0, <1>t DEF SteeringFollows
  <1>5. QueuedIsBusy'
    BY <1>0, <1>t DEF QueuedIsBusy, IsBusy, LanesFollowTask
  <1>6. BegunBehindGood'
    BY <1>0, <1>t DEF BegunBehindGood, Begun, LanesFollowTask
  <1>7. WaitsBehindActive'
    BY <1>0, <1>t DEF WaitsBehindActive, Begun, LanesFollowTask, IsBusy, InLane
  <1>8. TasksOwn'
    BY <1>0, <1>t DEF TasksOwn, LanesFollowTask, QueuedIsBusy, BegunBehindGood, Begun
  <1>9. CancelStands'
    BY <1>0, <1>t DEF CancelStands, Begun
  <1>10. CopiesAgree'
    BY <1>0 DEF CopiesAgree
  <1>11. ShownIsSaved'
    BY <1>0 DEF ShownIsSaved
  <1>12. ClosedRests'
    BY <1>0 DEF ClosedRests
  <1>13. QED
    BY <1>1, <1>2, <1>3, <1>4, <1>5, <1>6, <1>7, <1>8, <1>9, <1>10, <1>11, <1>12

\* Nothing happens.
LEMMA StutterKeeps ==
  ASSUME TaskInduct, UNCHANGED vars
  PROVE  TaskInduct'
  <1> USE DEF TaskInduct, vars, lanes, steerVars, stored
  <1>1. Shapes' /\ LanesFollowTask' /\ StuckHasFailed' /\ SteeringFollows'
    BY DEF Shapes, TypeOK, LanesFollowTask, StuckHasFailed, SteeringFollows, Failed
  <1>2. QueuedIsBusy' /\ BegunBehindGood' /\ WaitsBehindActive' /\ TasksOwn' /\ CancelStands'
    BY DEF QueuedIsBusy, IsBusy, BegunBehindGood, WaitsBehindActive, TasksOwn, CancelStands, Begun
  <1>3. CopiesAgree' /\ ShownIsSaved' /\ ClosedRests'
    BY DEF CopiesAgree, ShownIsSaved, ClosedRests
  <1>4. QED
    BY <1>1, <1>2, <1>3

\* A Session is opened with nothing running, queued or stored.
LEMMA InductAtStart ==
  ASSUME Init
  PROVE  TaskInduct
  <1> USE DEF Init, HostStates
  <1>1. None \notin Executions /\ None \notin FollowUps
    BY NoneIsNoIndex
  <1>2. TypeOK
    <2>1. MaxFaults \in Nat
      BY BoundsAssumption
    <2>2. faults \in 0 .. MaxFaults
      BY <2>1
    <2>3. record \in [FollowUps -> [status : {"none", "queued", "started", "discarded",
                                             "startRejected"},
                                   after : Executions \cup {None},
                                   execution : Executions \cup {None}]]
      BY DEF NoRecord
    <2>4. /\ task \in [Executions -> Steps]
          /\ reserved \in [Executions -> FollowUps \cup {None}]
      BY DEF Steps
    <2>5. /\ host \in [Executions -> HostStates]
          /\ steer \in [Executions -> {"none", "asked", "taken", "answered"}]
      OBVIOUS
    <2>6. QED
      BY <2>2, <2>3, <2>4, <2>5 DEF TypeOK
  <1>3. Shapes
    BY <1>2 DEF Shapes
  <1>4. LanesFollowTask /\ StuckHasFailed /\ SteeringFollows /\ ClosedRests
    BY <1>1 DEF LanesFollowTask, StuckHasFailed, SteeringFollows, ClosedRests, InLane,
       Leaving, Turning
  <1>5. QueuedIsBusy /\ BegunBehindGood /\ WaitsBehindActive /\ TasksOwn /\ CancelStands
    BY <1>1 DEF QueuedIsBusy, BegunBehindGood, WaitsBehindActive, TasksOwn, CancelStands, Begun,
       NoRecord
  <1>6. CopiesAgree /\ ShownIsSaved
    BY DEF CopiesAgree, ShownIsSaved, NoCopy, NoRecord
  <1>7. QED
    BY <1>3, <1>4, <1>5, <1>6 DEF TaskInduct

\* Every step keeps the inductive invariant.
LEMMA InductKept ==
  ASSUME TaskInduct, [Next]_vars
  PROVE  TaskInduct'
  <1>1. CASE Written \/ WriteFails \/ Close \/ HostClosed \/ CloseEnds
    BY <1>1, WrittenKeeps, WriteFailsKeeps, CloseKeeps, HostClosedKeeps, CloseEndsKeeps
  <1>2. ASSUME NEW e \in Executions,
               \/ Admit(e) \/ Admitted(e) \/ HostCommits(e) \/ HostEnds(e) \/ PersistFails(e)
               \/ Continues(e)
        PROVE  TaskInduct'
    BY <1>2, AdmitKeeps, AdmittedKeeps, HostCommitsKeeps, HostEndsKeeps, PersistFailsKeeps,
       RejectedKeeps, SavedKeeps, SettleKeeps, PersistedKeeps, FlushedIdleKeeps,
       FlushedDiscardsKeeps, FlushFailsKeeps, FlushedStartsKeeps DEF Continues
  <1>3. ASSUME NEW e \in Executions,
               \/ Cancel(e) \/ Steer(e) \/ HostTakesSteering(e) \/ SteeringIsApplied(e)
               \/ SteerAnswered(e) \/ (\E q \in FollowUps : QueueFollowUp(e, q))
        PROVE  TaskInduct'
    BY <1>3, CancelKeeps, SteerKeeps, HostTakesSteeringKeeps, SteeringIsAppliedKeeps,
       SteerAnsweredKeeps, QueueFollowUpKeeps
  <1>4. CASE UNCHANGED vars
    BY <1>4, StutterKeeps
  <1>5. QED
    BY <1>1, <1>2, <1>3, <1>4 DEF Next

-----------------------------------------------------------------------------
(* The theorems.                                                           *)

\* In every run of the task service the lanes, the records, their copies and the executions
\* agree, whatever is queued, steered, cancelled, rejected or lost meanwhile.
THEOREM InvariantHolds == Spec => []TaskInduct
  <1>1. Init => TaskInduct
    BY InductAtStart
  <1>2. TaskInduct /\ [Next]_vars => TaskInduct'
    BY InductKept
  <1>3. QED
    BY <1>1, <1>2, PTL DEF Spec

\* Only the active execution is admitted or run.
LEMMA InductGivesLanes ==
  ASSUME TaskInduct
  PROVE  LanesAreCurrent
  <1> USE DEF TaskInduct
  <1>1. TypeOK
    BY DEF Shapes
  <1>2. steering # None => steering = active /\ steeringAccepted /\ ~steeringApplied
    BY DEF SteeringFollows
  <1> DEFINE hosted == {e \in Executions : host[e] \in {"admitting", "running", "committing"}}
  <1>3. \A e \in hosted : e = active
    BY DEF LanesFollowTask, InLane, Turning
  <1>4. hosted = {} \/ hosted = {active}
    BY <1>3
  <1>5. Cardinality(hosted) \in {0, 1}
    BY <1>4, FS_EmptySet, FS_Singleton
  <1>6. Cardinality(hosted) <= 1
    BY <1>5
  <1>7. QED
    BY <1>1, <1>2, <1>6 DEF LanesAreCurrent

\* An idle service owes no follow-up anything.
LEMMA InductGivesFollowUps ==
  ASSUME TaskInduct
  PROVE  FollowUpsSettled
  <1> USE DEF TaskInduct
  <1>1. ASSUME close = "done", ~Failed
        PROVE  ~IsBusy
    <2>1. \A e \in Executions : task[e] \notin InLane \cup Leaving \cup {"stuck"}
      BY <1>1 DEF ClosedRests, StuckHasFailed, InLane, Leaving
    <2>2. active = None
      BY <2>1 DEF LanesFollowTask, Shapes, TypeOK
    <2>3. QED
      BY <2>1, <2>2 DEF LanesFollowTask, IsBusy
  <1>2. ASSUME ~IsBusy, writes = << >>, ~Failed, NEW q \in FollowUps
        PROVE  saved[q] = record[q].status /\ saved[q] # "queued"
    <2>1. ~LastCopy(writes, q, record[q].status)
      BY <1>2 DEF LastCopy
    <2>2. saved[q] = record[q].status
      BY <1>2, <2>1 DEF CopiesAgree, StuckHasFailed
    <2>3. QED
      BY <1>2, <2>2 DEF QueuedIsBusy
  <1>3. QED
    BY <1>1, <1>2 DEF FollowUpsSettled, ShownIsSaved

\* The lanes show the execution that has the Session, at most one at a time; and once the
\* Session is idle no follow-up that was accepted is forgotten: its durable receipt is its
\* last status and none is left queued, unless a write failed.
THEOREM TasksCorrect == Spec => []TaskInvariant
  <1>1. TaskInduct => TaskInvariant
    BY InductGivesLanes, InductGivesFollowUps DEF TaskInvariant
  <1>2. QED
    BY <1>1, InvariantHolds, PTL

\* A follow-up is begun only behind a final answer, never behind an execution whose cancel
\* was taken, whenever the end of a rejected begin resets that cancellation.
THEOREM CancelIsHeard == Spec => []CancelHolds
  <1>1. TaskInduct => CancelHolds
    BY NoneIsNoIndex DEF TaskInduct, CancelHolds, BegunBehindGood, Begun, Shapes, TypeOK
  <1>2. QED
    BY <1>1, InvariantHolds, PTL

===============================================================================
