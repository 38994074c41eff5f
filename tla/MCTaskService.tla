---------------------------- MODULE MCTaskService ----------------------------
(***************************************************************************)
(* The instance of TaskService that TLC checks.  Steering and a failed     *)
(* write are combined with the first executions.  The last one is there    *)
(* for the follow-up behind the task that comes in while the rejected      *)
(* begin of another follow-up is being saved, and without them.            *)
(***************************************************************************)
EXTENDS TaskService

BoundedInputs ==
  faults' > 0 \/ (\E e \in Executions : steer'[e] # "none") =>
    /\ \A q \in FollowUps : record'[q].after < MaxExecutions - 1
    /\ task'[MaxExecutions] = "none"

MCNext == Next /\ BoundedInputs

MCSpec == Init /\ [][MCNext]_vars /\ WF_vars(System)

=============================================================================
