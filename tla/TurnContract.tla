------------------------------ MODULE TurnContract ------------------------------
(***************************************************************************)
(* What an Agent Worker promises the Host about one turn, whatever its     *)
(* model, tools and hooks do: it answers with one proposal or one failure, *)
(* waits for the acknowledgement, and says that it has settled; or it      *)
(* breaks, with an error at its end.  Errors may be reported before, but   *)
(* no answer follows an error.  A turn whose cancellation it has accepted  *)
(* is never proposed.                                                      *)
(***************************************************************************)
EXTENDS Sequences

VARIABLES stage,    \* "idle", "running", "answered", "hooks" or "over"
          posted,   \* messages posted to the Host, in their order
          granted   \* a cancellation was answered "requested"

vars == <<stage, posted, granted>>

Init == stage = "idle" /\ posted = << >> /\ granted = FALSE

Begin ==
  /\ stage = "idle"
  /\ stage' = "running"
  /\ UNCHANGED <<posted, granted>>

Cancel ==
  /\ stage \notin {"idle", "over"}
  /\ granted' = TRUE
  /\ UNCHANGED <<stage, posted>>

\* An error in the midst of the turn, which goes on.
Report ==
  /\ stage \notin {"idle", "over"}
  /\ posted' = Append(posted, "worker_error")
  /\ UNCHANGED <<stage, granted>>

Reported == \E i \in DOMAIN posted : posted[i] = "worker_error"

Answer(m) ==
  /\ stage = "running"
  /\ ~Reported
  /\ m = "proposal_ready" => ~granted
  /\ stage' = "answered"
  /\ posted' = Append(posted, m)
  /\ UNCHANGED granted

Acknowledge ==
  /\ stage = "answered"
  /\ stage' = "hooks"
  /\ UNCHANGED <<posted, granted>>

Settle ==
  /\ stage = "hooks"
  /\ stage' = "over"
  /\ posted' = Append(posted, "turn_settled")
  /\ UNCHANGED granted

Break ==
  /\ stage \notin {"idle", "over"}
  /\ stage' = "over"
  /\ posted' \in {Append(posted, "worker_error"), posted \o <<"turn_settled", "worker_error">>}
  /\ UNCHANGED granted

Next ==
  \/ Begin \/ Cancel \/ Report \/ Acknowledge \/ Settle \/ Break
  \/ \E m \in {"proposal_ready", "failure_ready"} : Answer(m)

Spec == Init /\ [][Next]_vars

=============================================================================
