---------------------------- MODULE MCProcessOwner ----------------------------
(***************************************************************************)
(* ProcessOwner for TLC.  Two operations from their starts are too many    *)
(* states, so the run begins in one of two states that the program is in:  *)
(* before the first call, when the operation of another call is over; or   *)
(* in the last execution, when its cancellation has just sent TERM to the  *)
(* background processes of two calls that are being released.              *)
(***************************************************************************)
EXTENDS ProcessOwner

CONSTANT Fresh   \* the operation of the first call

Over ==
  [runner |-> "dead", command |-> "done", background |-> FALSE, status |-> "known",
   input |-> "ended", anchorReleased |-> TRUE, life |-> "closed", stop |-> "none"]

FirstCall ==
  /\ turn = 1 /\ cancellations = << >>
  /\ proc = [o \in Ops |-> IF o # Fresh THEN Over
               ELSE [runner |-> "none", command |-> "none", background |-> FALSE,
                     status |-> "pending", input |-> "open", anchorReleased |-> FALSE,
                     life |-> "none", stop |-> "none"]]
  /\ owned = [o \in Ops |-> [in |-> FALSE, turn |-> 0, released |-> o # Fresh,
                             drained |-> o # Fresh, closed |-> o # Fresh, awaiting |-> {}]]
  /\ call = [o \in Ops |-> IF o = Fresh THEN "none" ELSE "ended"]
  /\ seen = [o \in Ops |-> IF o = Fresh THEN {} ELSE {"status", "closed"}]
  /\ toOwner = << >>

CancelBegun ==
  /\ turn = MaxTurns /\ cancellations = [t \in {MaxTurns} |-> Ops]
  /\ proc = [o \in Ops |-> [Over EXCEPT !.runner = "ready", !.background = TRUE,
                              !.input = "open", !.anchorReleased = FALSE,
                              !.life = "polling", !.stop = "term"]]
  /\ owned = [o \in Ops |-> [in |-> TRUE, turn |-> MaxTurns, released |-> FALSE,
                             drained |-> TRUE, closed |-> FALSE, awaiting |-> {}]]
  /\ call = [o \in Ops |-> "releasing"]
  /\ seen = [o \in Ops |-> {"status"}]
  /\ toOwner \in {<<<<o, "release">>, <<p, "release">>>> : o \in {Fresh}, p \in Ops \ {Fresh}}

MCInit ==
  /\ FirstCall \/ CancelBegun
  /\ escaped = [o \in Ops |-> FALSE]
  /\ closing = "no" /\ closeOps = {}
  /\ cancelSeen = FALSE
  /\ settled = "running"
  /\ toWorker = << >>

MCSpec == MCInit /\ [][Next]_vars /\ Fairness

===============================================================================
