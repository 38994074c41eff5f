---------------------------- MODULE SessionHistory ----------------------------
(***************************************************************************)
(* What the Data Worker promises about the stored history of one Session,  *)
(* whatever its memory does: an execution is admitted once and settled at  *)
(* most once, canonical settlement appends to the conversation and moves   *)
(* the revision by exactly one, and nothing else touches the conversation. *)
(***************************************************************************)
EXTENDS Integers, Sequences

CONSTANT Executions

VARIABLES status,    \* the stored fate of each execution
          log,       \* the conversation: canonical executions in turn order
          revision   \* the stored Session revision, 0 before the Session exists

vars == <<status, log, revision>>

Init ==
  /\ status = [e \in Executions |-> "none"]
  /\ log = << >>
  /\ revision = 0

\* A Session starts at revision 1; a title or model written before its first
\* admission creates it at revision 2.
NextRevisions == IF revision = 0 THEN {1, 2} ELSE {revision + 1}

\* Title, model or first metadata of the Session.
Touch ==
  /\ revision' \in NextRevisions
  /\ UNCHANGED <<status, log>>

\* An admission; the first one may create the Session as well.
Begin(e) ==
  /\ status[e] = "none"
  /\ status' = [status EXCEPT ![e] = "active"]
  /\ revision' \in {revision} \cup NextRevisions
  /\ UNCHANGED log

Adopt(e) ==
  /\ status[e] = "active"
  /\ status' = [status EXCEPT ![e] = "canonical"]
  /\ log' = Append(log, e)
  /\ revision' = revision + 1

Discard(e) ==
  /\ status[e] = "active"
  /\ status' = [status EXCEPT ![e] = "non_canonical"]
  /\ UNCHANGED <<log, revision>>

Next ==
  \/ Touch
  \/ \E e \in Executions : Begin(e) \/ Adopt(e) \/ Discard(e)

Spec == Init /\ [][Next]_vars

=============================================================================
