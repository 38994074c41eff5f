-------------------------- MODULE AgentTurn_proofs --------------------------
(***************************************************************************)
(* Proofs about AgentTurn, for any bound on its steps and any budget: what *)
(* a turn proposes is a whole transcript, accepted steering is heard, a    *)
(* request that is cut down to fit keeps its exchanges, and the turn       *)
(* implements TurnContract.                                                *)
(*                                                                         *)
(* What a request keeps rests on what Kept and FlattenSeq compute, which   *)
(* are folds: their recursive functions are shown to exist by an induction *)
(* over the positions (EveryNatural), and then followed step by step.      *)
(***************************************************************************)
EXTENDS AgentTurn, TLAPS, WellFoundedInduction

-----------------------------------------------------------------------------
(* The inductive invariant.                                                *)

Requests == {"project", "observe", "generate"}
CallPcs == {"beforeTool", "dispatch", "afterTool"}

Shapes ==
  /\ transcript \in Seq(Messages)
  /\ batch \in [size : Nat, done : Nat, terminal : BOOLEAN]

\* The loop makes a request only while it may, and calls are left only while the batch
\* is executed.
BoundsKept ==
  /\ pc = "project" => steps < MaxSteps
  /\ pc \in CallPcs => batch.done < batch.size
  /\ batch.terminal => batch.size = 1

\* An accepted cancellation is seen by the turn, unless it had been settled by then, and
\* a successful outcome has settled it.
CancelIsSeen ==
  /\ pc = "idle" => ~granted
  /\ pc \in TurnPcs => aborted = granted /\ (granted => cancelState # "active")
  /\ outcome \in Successful => ~granted /\ cancelState = "settled"
  /\ pc = "commitAck" => outcome \in Successful
  /\ outcome # "none" => pc \in {"drain", "commitAck", "failureAck", "afterTurn", "over"}

\* Every call of the first n messages is answered by the message behind it.
AnsweredUpTo(t, n) ==
  \A i \in 1 .. n :
    t[i].ids # {} /\ t[i].role = "assistant" =>
      i < Len(t) /\ t[i + 1] = [role |-> "tool", ids |-> t[i].ids]

\* Every tool message answers the calls of the one before it.
ToolsAnswer(t) ==
  \A i \in 1 .. Len(t) :
    t[i].role = "tool" =>
      i > 1 /\ t[i].ids # {} /\ t[i - 1] = [role |-> "assistant", ids |-> t[i].ids]

\* A transcript that no call is left open in.
Whole(t) ==
  /\ t \in Seq(Messages) /\ Len(t) >= 1 /\ t[1] = User
  /\ ToolsAnswer(t) /\ AnsweredUpTo(t, Len(t))

\* One whose last message makes the calls ids, and no other is left open.
Asks(t, ids) ==
  /\ t \in Seq(Messages) /\ Len(t) >= 2 /\ t[1] = User
  /\ ToolsAnswer(t) /\ AnsweredUpTo(t, Len(t) - 1)
  /\ t[Len(t)] = [role |-> "assistant", ids |-> ids]

\* Between two requests the transcript is whole; while calls are executed they are its
\* last message.
TranscriptGrows ==
  /\ pc \in {"idle", "prepare", "beforeTurn"} => transcript = << >>
  /\ pc \in Requests => Whole(transcript)
  /\ pc \in CallPcs => Asks(transcript, Ids(steps, batch.size))
  /\ outcome \in Successful =>
       /\ Whole(transcript)
       /\ Last(transcript).role = IF outcome = "final" THEN "assistant" ELSE "tool"

\* A message of the user behind the first.
Heard(t) == \E i \in 2 .. Len(t) : t[i] = User

\* The lane says what became of the steering.
SteeringFollowed ==
  /\ pc \in {"idle", "prepare", "over"} => lane = "none"
  /\ pc \in {"idle", "prepare"} => ~accepted
  /\ pc \in {"beforeTurn"} \cup LoopPcs => lane \in {"open", "pending", "consumed"}
  /\ outcome = "final" => lane \in {"closed", "none"}
  /\ accepted => lane # "open"
  /\ lane = "consumed" => Heard(transcript)

TurnInduct ==
  /\ TypeOK
  /\ Shapes
  /\ BoundsKept
  /\ CancelIsSeen
  /\ TranscriptGrows
  /\ SteeringFollowed
  /\ SteeringIsHeard

-----------------------------------------------------------------------------
(* How a transcript grows.                                                 *)

\* One message more.
LEMMA Appended ==
  ASSUME NEW t \in Seq(Messages), NEW m \in Messages
  PROVE  /\ Append(t, m) \in Seq(Messages) /\ Len(Append(t, m)) = Len(t) + 1
         /\ Append(t, m)[Len(t) + 1] = m /\ Last(Append(t, m)) = m
         /\ \A i \in 1 .. Len(t) : Append(t, m)[i] = t[i]
  BY DEF Last

\* The user's first message is a whole transcript.
LEMMA WholeAtStart == Whole(<<User>>)
  BY DEF Whole, User, Messages, ToolsAnswer, AnsweredUpTo

\* A message that neither calls nor answers leaves it whole.
LEMMA WholeTalks ==
  ASSUME NEW t, Whole(t), NEW m \in {User, Text}
  PROVE  Whole(Append(t, m)) /\ Last(Append(t, m)) = m
  <1>1. /\ t \in Seq(Messages) /\ m \in Messages
        /\ m.ids = {} /\ m.role # "tool"
    BY DEF Whole, User, Text, Messages
  <1>2. ToolsAnswer(Append(t, m))
    BY <1>1, Appended DEF Whole, ToolsAnswer
  <1>3. AnsweredUpTo(Append(t, m), Len(Append(t, m)))
    BY <1>1, Appended DEF Whole, AnsweredUpTo
  <1>4. QED
    BY <1>1, <1>2, <1>3, Appended DEF Whole

\* Calls are then the only open message.
LEMMA WholeAsks ==
  ASSUME NEW t, Whole(t), NEW ids \in SUBSET (Nat \X Nat)
  PROVE  Asks(Append(t, [role |-> "assistant", ids |-> ids]), ids)
  <1> DEFINE m == [role |-> "assistant", ids |-> ids]
  <1>1. t \in Seq(Messages) /\ m \in Messages /\ m.role # "tool"
    BY DEF Whole, Messages
  <1>2. QED
    BY <1>1, Appended DEF Whole, Asks, ToolsAnswer, AnsweredUpTo

\* Their results make it whole again.
LEMMA AskedAnswers ==
  ASSUME NEW t, NEW ids \in SUBSET (Nat \X Nat), ids # {}, Asks(t, ids)
  PROVE  /\ Whole(Append(t, [role |-> "tool", ids |-> ids]))
         /\ Last(Append(t, [role |-> "tool", ids |-> ids])).role = "tool"
  <1> DEFINE m == [role |-> "tool", ids |-> ids]
  <1>1. t \in Seq(Messages) /\ m \in Messages /\ m.role = "tool" /\ m.ids = ids
    BY DEF Asks, Messages
  <1>2. t[Len(t)] = [role |-> "assistant", ids |-> ids]
    BY DEF Asks
  <1>3. ToolsAnswer(Append(t, m))
    BY <1>1, <1>2, Appended DEF Asks, ToolsAnswer
  <1>4. AnsweredUpTo(Append(t, m), Len(Append(t, m)))
    BY <1>1, <1>2, Appended DEF Asks, AnsweredUpTo
  <1>5. QED
    BY <1>1, <1>3, <1>4, Appended DEF Whole, Asks

\* What was heard stays heard, and is not the last message of what follows.
LEMMA HeardAppended ==
  ASSUME NEW t \in Seq(Messages), NEW m \in Messages, Heard(t)
  PROVE  /\ Heard(Append(t, m))
         /\ \E i \in 2 .. Len(Append(t, m)) - 1 : Append(t, m)[i] = User
  BY Appended DEF Heard

\* Steering that waits is heard by the next request.
LEMMA SteeredIsWhole ==
  ASSUME NEW t, Whole(t)
  PROVE  /\ Whole(Steered(t)) /\ Steered(t) \in Seq(Messages)
         /\ lane = "pending" => Heard(Steered(t))
         /\ Heard(t) => Heard(Steered(t))
         /\ Len(Steered(t)) >= Len(t)
  <1>1. t \in Seq(Messages) /\ User \in Messages /\ Len(t) >= 1
    BY DEF Whole
  <1>2. CASE lane = "pending"
    <2>1. Steered(t) = Append(t, User)
      BY <1>2 DEF Steered
    <2>2. Heard(Append(t, User))
      BY <1>1, Appended DEF Heard
    <2>3. Whole(Append(t, User)) /\ Len(Append(t, User)) >= Len(t)
      BY <1>1, Appended, WholeTalks
    <2>4. QED
      BY <2>1, <2>2, <2>3 DEF Whole
  <1>3. CASE lane # "pending"
    BY <1>1, <1>3 DEF Steered
  <1>4. QED
    BY <1>2, <1>3

\* The calls of a step are ids.
LEMMA IdsAreIds ==
  ASSUME NEW s \in Nat, NEW n \in Nat
  PROVE  Ids(s, n) \in SUBSET (Nat \X Nat)
  BY DEF Ids

\* A batch has a call at least.
LEMMA IdsAreSome ==
  ASSUME NEW s \in Nat, NEW n \in Nat, n >= 1
  PROVE  Ids(s, n) # {}
  <1>1. <<s, 1>> \in Ids(s, n)
    BY DEF Ids
  <1>2. QED
    BY <1>1

-----------------------------------------------------------------------------
(* The three ways a step of the loop goes on.                              *)

\* What a step adds to the turn.
Grows ==
  /\ UNCHANGED <<steps, omitted, request, limit, aborted, granted, accepted, data>>
  /\ transcript' \in Seq(Messages) /\ Len(transcript') >= Len(transcript)
  /\ Heard(transcript) => Heard(transcript')
  /\ batch' \in [size : Nat, done : Nat, terminal : BOOLEAN]
  /\ batch'.done \in 0 .. batch'.size /\ (batch'.terminal => batch'.size = 1)

\* The loop is over, with the result unless the turn was cancelled.
LoopEnds(result) ==
  /\ pc' = "drain" /\ lane' = "closed" /\ UNCHANGED posted
  /\ outcome' \in {result, "cancelled", "contract_failure"}
  /\ outcome' \in Successful => cancelState = "active" /\ cancelState' = "settled"
  /\ cancelState' \in {"active", "cancel_requested", "settled", "cleanup_failed"}
  /\ cancelState # "active" => cancelState' # "active"

\* A settled result ends the loop with it, or with a cancellation accepted before.
LEMMA SettleEnds ==
  ASSUME TurnInduct, NEW result \in {"final", "tool_terminal", "max_steps"},
         Settle(result) \/ FinishCancelled
  PROVE  LoopEnds(result)
  BY DEF TurnInduct, TypeOK, Settle, FinishCancelled, EndLoop, LoopEnds, Successful

\* The loop ends: a success with a whole transcript, in which the steering was heard.
LEMMA EndKeeps ==
  ASSUME TurnInduct, pc \in {"beforeTurn"} \cup LoopPcs, Grows,
         NEW result \in {"final", "tool_terminal", "max_steps"}, LoopEnds(result),
         outcome' \in Successful =>
           /\ Whole(transcript')
           /\ Last(transcript').role = IF outcome' = "final" THEN "assistant" ELSE "tool",
         SteeringIsHeard'
  PROVE  TurnInduct'
  <1> USE BoundAssumption DEF TurnInduct, LoopEnds, Grows
  <1>1. TypeOK'
    <2>1. omitted' \subseteq DOMAIN transcript' /\ request'.kept \subseteq DOMAIN transcript'
      BY DEF TypeOK
    <2>2. QED
      BY <2>1 DEF TypeOK, Outcomes, TurnPcs
  <1>2. Shapes' /\ BoundsKept'
    BY DEF Shapes, BoundsKept, CallPcs
  <1>3. CancelIsSeen'
    BY DEF CancelIsSeen, TurnPcs
  <1>4. TranscriptGrows'
    BY DEF TranscriptGrows, Requests, CallPcs
  <1>5. SteeringFollowed'
    BY DEF SteeringFollowed, LoopPcs
  <1>6. QED
    BY <1>1, <1>2, <1>3, <1>4, <1>5

\* An exception leaves the loop, with an outcome that is no success.
LEMMA ThrowKeeps ==
  ASSUME TurnInduct, pc \in {"beforeTurn"} \cup LoopPcs, Grows, Throw
  PROVE  TurnInduct'
  <1> USE BoundAssumption DEF TurnInduct, Grows
  <1>1. /\ outcome = "none" /\ outcome' \in {"none", "cancelled", "contract_failure"}
        /\ pc' \in {"drain", "over"} /\ (outcome' # "none" => pc' = "drain")
        /\ lane' \in {lane, "none"} /\ (pc' = "over" => lane' = "none")
        /\ cancelState' = cancelState
    BY DEF Throw, Crash, CancelIsSeen, LoopPcs
  <1>2. TypeOK'
    <2>1. omitted' \subseteq DOMAIN transcript' /\ request'.kept \subseteq DOMAIN transcript'
      BY DEF TypeOK
    <2>2. QED
      BY <1>1, <2>1 DEF TypeOK, Outcomes, TurnPcs
  <1>3. Shapes' /\ BoundsKept'
    BY <1>1 DEF Shapes, BoundsKept, CallPcs
  <1>4. CancelIsSeen'
    BY <1>1 DEF CancelIsSeen, Successful, TurnPcs
  <1>5. TranscriptGrows'
    BY <1>1 DEF TranscriptGrows, Requests, CallPcs, Successful
  <1>6. SteeringFollowed' /\ SteeringIsHeard'
    <2>1. lane \in {"open", "pending", "consumed"}
      BY DEF SteeringFollowed
    <2>2. lane' = "consumed" => Heard(transcript')
      BY <1>1 DEF SteeringFollowed
    <2>3. QED
      BY <1>1, <2>1, <2>2 DEF SteeringFollowed, SteeringIsHeard, LoopPcs
  <1>7. QED
    BY <1>2, <1>3, <1>4, <1>5, <1>6

\* A step is complete: the loop ends, or makes the next request and takes the steering.
LEMMA NextRequestKeeps ==
  ASSUME TurnInduct, pc \in LoopPcs, Grows,
         NEW t, Whole(t), Heard(transcript) => Heard(t), NextRequest(t)
  PROVE  TurnInduct'
  <1> USE BoundAssumption DEF TurnInduct
  <1>1. /\ transcript' = Steered(t) /\ Whole(transcript')
        /\ lane = "pending" => Heard(transcript')
        /\ Heard(transcript) => Heard(transcript')
    BY SteeredIsWhole DEF NextRequest
  <1>2. CASE steps >= MaxSteps
    <2>1. Settle("max_steps") /\ LoopEnds("max_steps")
      BY <1>2, SettleEnds DEF NextRequest
    <2>2. SteeringIsHeard' /\ outcome' \notin Successful
      BY <2>1 DEF LoopEnds, SteeringIsHeard, Successful
    <2>3. QED
      BY <2>1, <2>2, EndKeeps
  <1>3. CASE steps < MaxSteps
    <2>1. /\ pc' = "project" /\ UNCHANGED <<outcome, posted, cancelState>>
          /\ lane' = IF lane = "pending" THEN "consumed" ELSE lane
      BY <1>3 DEF NextRequest, TypeOK
    <2>2. TypeOK'
      <3>1. omitted' \subseteq DOMAIN transcript' /\ request'.kept \subseteq DOMAIN transcript'
        BY DEF TypeOK, Grows
      <3>2. QED
        BY <2>1, <3>1 DEF TypeOK, TurnPcs, LoopPcs, Grows
    <2>3. Shapes' /\ BoundsKept'
      BY <1>3, <2>1 DEF Shapes, BoundsKept, CallPcs, Grows
    <2>4. CancelIsSeen'
      BY <2>1 DEF CancelIsSeen, TurnPcs, LoopPcs, Grows
    <2>5. TranscriptGrows'
      BY <1>1, <2>1 DEF TranscriptGrows, CallPcs, CancelIsSeen, LoopPcs, Successful
    <2>6. SteeringFollowed' /\ SteeringIsHeard'
      BY <1>1, <2>1 DEF SteeringFollowed, SteeringIsHeard, Grows
    <2>7. QED
      BY <2>2, <2>3, <2>4, <2>5, <2>6
  <1>4. QED
    BY <1>2, <1>3 DEF TypeOK

\* A call is answered: the next one, the end of the step or the end of the turn.
LEMMA CallDoneKeeps ==
  ASSUME TurnInduct, pc \in CallPcs, CallDone(FALSE), CallUnchanged
  PROVE  TurnInduct'
  <1> USE BoundAssumption DEF TurnInduct
  <1> DEFINE ids == Ids(steps, batch.size)
             answered == Append(transcript, [role |-> "tool", ids |-> ids])
  <1>1. /\ Asks(transcript, ids) /\ transcript \in Seq(Messages)
        /\ steps \in Nat /\ batch.size \in Nat /\ batch.done \in Nat /\ batch.terminal \in BOOLEAN
        /\ batch.done < batch.size /\ (batch.terminal => batch.size = 1)
        /\ ids \in SUBSET (Nat \X Nat) /\ [role |-> "tool", ids |-> ids] \in Messages
        /\ ids # {}
    <2>1. /\ Asks(transcript, ids) /\ transcript \in Seq(Messages)
          /\ steps \in Nat /\ batch.size \in Nat /\ batch.done \in Nat /\ batch.terminal \in BOOLEAN
          /\ batch.done < batch.size /\ (batch.terminal => batch.size = 1)
      BY DEF TranscriptGrows, TypeOK, Shapes, BoundsKept
    <2>2. ids \in SUBSET (Nat \X Nat) /\ ids # {}
      <3>1. batch.size >= 1
        BY <2>1
      <3>2. QED
        BY <2>1, <3>1, IdsAreIds, IdsAreSome
    <2>3. [role |-> "tool", ids |-> ids] \in Messages
      BY <2>2 DEF Messages
    <2>4. QED
      BY <2>1, <2>2, <2>3
  <1>2. /\ Whole(answered) /\ Last(answered).role = "tool" /\ answered \in Seq(Messages)
        /\ Len(answered) = Len(transcript) + 1 /\ (Heard(transcript) => Heard(answered))
    BY <1>1, AskedAnswers, Appended, HeardAppended
  <1>3. /\ batch' \in [size : Nat, done : Nat, terminal : BOOLEAN]
        /\ batch'.size = batch.size /\ batch'.done = batch.done + 1
        /\ batch'.terminal = batch.terminal
    <2>1. batch' = [batch EXCEPT !.done = batch.done + 1, !.terminal = batch.terminal \/ FALSE]
      BY DEF CallDone
    <2>2. batch \in [size : Nat, done : Nat, terminal : BOOLEAN]
      BY DEF Shapes
    <2>3. \A d \in Nat, b \in BOOLEAN :
            LET next == [batch EXCEPT !.done = d, !.terminal = b]
            IN  /\ next \in [size : Nat, done : Nat, terminal : BOOLEAN]
                /\ next.size = batch.size /\ next.done = d /\ next.terminal = b
      BY <2>2
    <2>4. (batch.terminal \/ FALSE) \in BOOLEAN /\ (batch.terminal \/ FALSE) = batch.terminal
      BY <1>1
    <2>5. batch.done + 1 \in Nat
      BY <1>1
    <2>6. QED
      BY <2>1, <2>3, <2>4, <2>5
  <1>4. UNCHANGED <<steps, omitted, request, limit, aborted, granted, accepted, data>>
    BY DEF CallUnchanged
  <1>5. pc \in LoopPcs /\ pc \in TurnPcs
    BY DEF CallPcs, LoopPcs, TurnPcs
  <1>6. CASE batch'.done < batch.size /\ aborted
    <2>1. FinishCancelled /\ UNCHANGED transcript /\ LoopEnds("max_steps")
      BY <1>6, SettleEnds DEF CallDone
    <2>2. Grows
      BY <1>1, <1>3, <1>4, <2>1 DEF Grows
    <2>3. SteeringIsHeard' /\ outcome' \notin Successful
      BY <2>1 DEF LoopEnds, SteeringIsHeard, Successful
    <2>4. QED
      BY <1>5, <2>1, <2>2, <2>3, EndKeeps
  <1>7. CASE batch'.done < batch.size /\ ~aborted
    <2>1. pc' = "beforeTool" /\ UNCHANGED <<transcript, outcome, lane, posted, cancelState>>
      BY <1>7 DEF CallDone
    <2>2. TypeOK'
      <3>1. batch'.done \in 0 .. batch'.size
        BY <1>1, <1>3
      <3>2. QED
        BY <1>4, <2>1, <3>1 DEF TypeOK, TurnPcs, LoopPcs
    <2>3. Shapes' /\ BoundsKept'
      BY <1>1, <1>3, <1>7, <2>1 DEF Shapes, BoundsKept
    <2>4. CancelIsSeen'
      BY <1>4, <1>5, <2>1 DEF CancelIsSeen, LoopPcs
    <2>5. TranscriptGrows'
      BY <1>1, <1>3, <1>4, <2>1 DEF TranscriptGrows, Requests
    <2>6. SteeringFollowed' /\ SteeringIsHeard'
      BY <1>4, <1>5, <2>1 DEF SteeringFollowed, SteeringIsHeard
    <2>7. QED
      BY <2>2, <2>3, <2>4, <2>5, <2>6
  <1>8. CASE ~(batch'.done < batch.size) /\ aborted
    <2>1. FinishCancelled /\ transcript' = answered /\ LoopEnds("max_steps")
      BY <1>8, SettleEnds DEF CallDone
    <2>2. Grows
      BY <1>1, <1>2, <1>3, <1>4, <2>1 DEF Grows
    <2>3. SteeringIsHeard' /\ outcome' \notin Successful
      BY <2>1 DEF LoopEnds, SteeringIsHeard, Successful
    <2>4. QED
      BY <1>5, <2>1, <2>2, <2>3, EndKeeps
  <1>9. CASE ~(batch'.done < batch.size) /\ ~aborted /\ batch'.terminal
    <2>1. Settle("tool_terminal") /\ transcript' = answered /\ LoopEnds("tool_terminal")
      BY <1>9, SettleEnds DEF CallDone
    <2>2. Grows
      BY <1>1, <1>2, <1>3, <1>4, <2>1 DEF Grows
    <2>3. SteeringIsHeard' /\ outcome' # "final"
      BY <2>1 DEF LoopEnds, SteeringIsHeard
    <2>4. QED
      BY <1>2, <1>5, <2>1, <2>2, <2>3, EndKeeps
  <1>10. CASE ~(batch'.done < batch.size) /\ ~aborted /\ ~batch'.terminal
    <2>1. NextRequest(answered)
      BY <1>10 DEF CallDone
    <2>2. /\ transcript' = Steered(answered) /\ Steered(answered) \in Seq(Messages)
          /\ Len(Steered(answered)) >= Len(answered)
          /\ Heard(answered) => Heard(Steered(answered))
      BY <1>2, <2>1, SteeredIsWhole DEF NextRequest
    <2>3. Grows
      BY <1>1, <1>2, <1>3, <1>4, <2>2 DEF Grows
    <2>4. QED
      BY <1>2, <1>5, <2>1, <2>3, NextRequestKeeps
  <1>11. QED
    BY <1>6, <1>7, <1>8, <1>9, <1>10

\* A turn begins with nothing said and nothing accepted.
LEMMA BeginKeeps ==
  ASSUME TurnInduct, Begin
  PROVE  TurnInduct'
  <1> USE BoundAssumption DEF TurnInduct, cancelVars, steerVars, loopVars
  <1>1. TypeOK'
    BY DEF Begin, TypeOK
  <1>2. Shapes'
    BY DEF Begin, Shapes
  <1>3. BoundsKept'
    BY DEF Begin, BoundsKept, CallPcs
  <1>4. CancelIsSeen'
    BY DEF Begin, CancelIsSeen, TurnPcs, LoopPcs
  <1>5. TranscriptGrows'
    BY DEF Begin, TranscriptGrows, Requests, CallPcs
  <1>6. SteeringFollowed'
    BY DEF Begin, SteeringFollowed, LoopPcs
  <1>7. SteeringIsHeard'
    BY DEF Begin, SteeringIsHeard
  <1>8. QED
    BY <1>1, <1>2, <1>3, <1>4, <1>5, <1>6, <1>7

\* The context is ready: the loop may be entered.
LEMMA PreparedKeeps ==
  ASSUME TurnInduct, Prepared
  PROVE  TurnInduct'
  <1> USE BoundAssumption DEF TurnInduct, cancelVars, steerVars, loopVars
  <1>1. TypeOK'
    BY DEF Prepared, TypeOK, TurnPcs
  <1>2. Shapes'
    BY DEF Prepared, Shapes
  <1>3. BoundsKept'
    BY DEF Prepared, BoundsKept, CallPcs
  <1>4. CancelIsSeen'
    BY DEF Prepared, CancelIsSeen, Successful
  <1>5. TranscriptGrows'
    BY DEF Prepared, TranscriptGrows, Requests, CallPcs
  <1>6. SteeringFollowed'
    BY DEF Prepared, SteeringFollowed, CancelIsSeen
  <1>7. SteeringIsHeard'
    BY DEF Prepared, SteeringIsHeard
  <1>8. QED
    BY <1>1, <1>2, <1>3, <1>4, <1>5, <1>6, <1>7

\* It is not: no loop runs.
LEMMA PrepareFailsKeeps ==
  ASSUME TurnInduct, PrepareFails
  PROVE  TurnInduct'
  <1> USE BoundAssumption DEF TurnInduct, cancelVars, steerVars, loopVars
  <1>1. TypeOK'
    BY DEF PrepareFails, TypeOK
  <1>2. Shapes'
    BY DEF PrepareFails, Shapes
  <1>3. BoundsKept'
    BY DEF PrepareFails, BoundsKept, CallPcs
  <1>4. CancelIsSeen'
    BY DEF PrepareFails, CancelIsSeen, TurnPcs, LoopPcs
  <1>5. TranscriptGrows'
    BY DEF PrepareFails, TranscriptGrows, Requests, CallPcs
  <1>6. SteeringFollowed'
    BY DEF PrepareFails, SteeringFollowed, LoopPcs
  <1>7. SteeringIsHeard'
    BY DEF PrepareFails, SteeringIsHeard
  <1>8. QED
    BY <1>1, <1>2, <1>3, <1>4, <1>5, <1>6, <1>7

\* The hooks before the turn are done: the user's message is the transcript.
LEMMA HooksDoneKeeps ==
  ASSUME TurnInduct, HooksDone
  PROVE  TurnInduct'
  <1> USE BoundAssumption DEF TurnInduct
  <1>1. pc = "beforeTurn" /\ transcript = << >> /\ transcript' = <<User>> /\ Whole(transcript')
    BY WholeAtStart DEF HooksDone, TranscriptGrows
  <1>2. Grows /\ UNCHANGED batch
    BY <1>1 DEF HooksDone, Grows, Whole, TypeOK, Shapes, BoundsKept, Heard
  <1>3. CASE data = "closed"
    BY <1>1, <1>2, <1>3, ThrowKeeps DEF HooksDone, Throw
  <1>4. CASE data # "closed" /\ aborted
    <2>1. FinishCancelled /\ LoopEnds("max_steps")
      BY <1>4, SettleEnds DEF HooksDone, NextStep
    <2>2. SteeringIsHeard' /\ outcome' \notin Successful
      BY <2>1 DEF LoopEnds, SteeringIsHeard, Successful
    <2>3. QED
      BY <1>1, <1>2, <2>1, <2>2, EndKeeps
  <1>5. CASE data # "closed" /\ ~aborted /\ steps >= MaxSteps
    <2>1. Settle("max_steps") /\ LoopEnds("max_steps")
      BY <1>5, SettleEnds DEF HooksDone, NextStep
    <2>2. SteeringIsHeard' /\ outcome' \notin Successful
      BY <2>1 DEF LoopEnds, SteeringIsHeard, Successful
    <2>3. QED
      BY <1>1, <1>2, <2>1, <2>2, EndKeeps
  <1>6. CASE data # "closed" /\ ~aborted /\ ~(steps >= MaxSteps)
    <2>1. pc' = "project" /\ UNCHANGED <<outcome, lane, posted, cancelState>>
      BY <1>6 DEF HooksDone, NextStep
    <2>2. TypeOK'
      BY <1>1, <1>2, <2>1 DEF TypeOK, Grows, TurnPcs, LoopPcs
    <2>3. Shapes' /\ BoundsKept'
      BY <1>2, <1>6, <2>1 DEF Shapes, BoundsKept, CallPcs, Grows, TypeOK
    <2>4. CancelIsSeen'
      BY <1>1, <1>2, <2>1 DEF CancelIsSeen, TurnPcs, Grows
    <2>5. TranscriptGrows'
      BY <1>1, <2>1 DEF TranscriptGrows, CallPcs, CancelIsSeen, Successful
    <2>6. SteeringFollowed' /\ SteeringIsHeard'
      BY <1>1, <1>2, <2>1 DEF SteeringFollowed, SteeringIsHeard, Grows
    <2>7. QED
      BY <2>2, <2>3, <2>4, <2>5, <2>6
  <1>7. QED
    BY <1>3, <1>4, <1>5, <1>6

\* A hook threw before the loop.
LEMMA BeforeTurnFailsKeeps ==
  ASSUME TurnInduct, BeforeTurnFails
  PROVE  TurnInduct'
  <1> USE BoundAssumption DEF TurnInduct, cancelVars, steerVars, loopVars
  <1>1. TypeOK'
    BY DEF BeforeTurnFails, Throw, Crash, TypeOK, Outcomes, TurnPcs
  <1>2. Shapes'
    BY DEF BeforeTurnFails, Shapes
  <1>3. BoundsKept'
    BY DEF BeforeTurnFails, Throw, Crash, BoundsKept, CallPcs
  <1>4. CancelIsSeen'
    BY DEF BeforeTurnFails, Throw, Crash, CancelIsSeen, TypeOK, Successful
  <1>5. TranscriptGrows'
    BY DEF BeforeTurnFails, Throw, Crash, TranscriptGrows, Requests, CallPcs, Successful
  <1>6. SteeringFollowed'
    BY DEF BeforeTurnFails, Throw, Crash, SteeringFollowed, LoopPcs
  <1>7. SteeringIsHeard'
    BY DEF BeforeTurnFails, Throw, Crash, SteeringIsHeard
  <1>8. QED
    BY <1>1, <1>2, <1>3, <1>4, <1>5, <1>6, <1>7

\* The projection only chooses which exchanges are left out.
LEMMA ProjectedKeeps ==
  ASSUME TurnInduct, Projected
  PROVE  TurnInduct'
  <1> USE BoundAssumption DEF TurnInduct, cancelVars, steerVars, loopVars
  <1>1. TypeOK'
    <2>1. /\ omitted' \subseteq DOMAIN transcript' /\ request'.kept \subseteq DOMAIN transcript'
          /\ steps' \in 0 .. MaxSteps
      <3>1. KeptCurrent \subseteq DOMAIN transcript
        BY DEF KeptCurrent, Without
      <3>2. QED
        BY <3>1 DEF Projected, TypeOK, BoundsKept
    <2>2. QED
      BY <2>1 DEF Projected, FinishCancelled, EndLoop, TypeOK, Outcomes, TurnPcs, LoopPcs
  <1>2. Shapes'
    BY DEF Projected, Shapes
  <1>3. BoundsKept'
    BY DEF Projected, FinishCancelled, EndLoop, BoundsKept, CallPcs
  <1>4. CancelIsSeen'
    BY DEF Projected, FinishCancelled, EndLoop, CancelIsSeen, TypeOK, Successful
  <1>5. TranscriptGrows'
    BY DEF Projected, FinishCancelled, EndLoop, TranscriptGrows, Requests, CallPcs, Successful
  <1>6. SteeringFollowed'
    BY DEF Projected, FinishCancelled, EndLoop, SteeringFollowed, LoopPcs
  <1>7. SteeringIsHeard'
    BY DEF Projected, FinishCancelled, EndLoop, SteeringIsHeard
  <1>8. QED
    BY <1>1, <1>2, <1>3, <1>4, <1>5, <1>6, <1>7

\* It does not fit, or is refused.
LEMMA ProjectionFailsKeeps ==
  ASSUME TurnInduct, ProjectionFails
  PROVE  TurnInduct'
  <1> USE BoundAssumption DEF TurnInduct, cancelVars, steerVars, loopVars
  <1>1. TypeOK'
    BY DEF ProjectionFails, Settle, FinishCancelled, EndLoop, TypeOK, Outcomes, TurnPcs
  <1>2. Shapes'
    BY DEF ProjectionFails, Shapes
  <1>3. BoundsKept'
    BY DEF ProjectionFails, Settle, FinishCancelled, EndLoop, BoundsKept, CallPcs
  <1>4. CancelIsSeen'
    BY DEF ProjectionFails, Settle, FinishCancelled, EndLoop, CancelIsSeen, TypeOK, Successful
  <1>5. TranscriptGrows'
    BY DEF ProjectionFails, Settle, FinishCancelled, EndLoop, TranscriptGrows, Requests, CallPcs,
       Successful
  <1>6. SteeringFollowed'
    BY DEF ProjectionFails, Settle, FinishCancelled, EndLoop, SteeringFollowed, LoopPcs
  <1>7. SteeringIsHeard'
    BY DEF ProjectionFails, Settle, FinishCancelled, EndLoop, SteeringIsHeard
  <1>8. QED
    BY <1>1, <1>2, <1>3, <1>4, <1>5, <1>6, <1>7

\* The request is observed, nothing said.
LEMMA ObservedKeeps ==
  ASSUME TurnInduct, Observed
  PROVE  TurnInduct'
  <1> USE BoundAssumption DEF TurnInduct, cancelVars, steerVars, loopVars
  <1>1. TypeOK'
    BY DEF Observed, Settle, FinishCancelled, EndLoop, TypeOK, Outcomes, TurnPcs, LoopPcs
  <1>2. Shapes'
    BY DEF Observed, Shapes
  <1>3. BoundsKept'
    BY DEF Observed, Settle, FinishCancelled, EndLoop, BoundsKept, CallPcs
  <1>4. CancelIsSeen'
    BY DEF Observed, Settle, FinishCancelled, EndLoop, CancelIsSeen, TypeOK, Successful
  <1>5. TranscriptGrows'
    BY DEF Observed, Settle, FinishCancelled, EndLoop, TranscriptGrows, Requests, CallPcs,
       Successful
  <1>6. SteeringFollowed'
    BY DEF Observed, Settle, FinishCancelled, EndLoop, SteeringFollowed, LoopPcs
  <1>7. SteeringIsHeard'
    BY DEF Observed, Settle, FinishCancelled, EndLoop, SteeringIsHeard
  <1>8. QED
    BY <1>1, <1>2, <1>3, <1>4, <1>5, <1>6, <1>7

\* A final answer is taken, or the loop goes on for steering that waits.
LEMMA ModelFinalKeeps ==
  ASSUME TurnInduct, ModelFinal
  PROVE  TurnInduct'
  <1> USE BoundAssumption DEF TurnInduct
  <1> DEFINE t == Append(transcript, Text)
  <1>1. /\ pc = "generate" /\ ~aborted /\ Whole(transcript) /\ transcript \in Seq(Messages)
        /\ Text \in Messages
    BY DEF ModelFinal, TranscriptGrows, Requests, Whole, Text, Messages
  <1>2. /\ Whole(t) /\ Last(t) = Text /\ t \in Seq(Messages) /\ Len(t) = Len(transcript) + 1
        /\ Heard(transcript) => Heard(t) /\ \E i \in 2 .. Len(t) - 1 : t[i] = User
    BY <1>1, WholeTalks, Appended, HeardAppended
  <1>3. ASSUME transcript' = t PROVE Grows
    BY <1>1, <1>2, <1>3 DEF ModelFinal, Grows, TypeOK, Shapes, BoundsKept
  <1>4. CASE data = "closed"
    BY <1>1, <1>3, <1>4, ThrowKeeps DEF ModelFinal, LoopPcs
  <1>5. CASE data # "closed" /\ lane = "pending"
    <2>1. NextRequest(t)
      BY <1>5 DEF ModelFinal
    <2>2. /\ transcript' = Steered(t) /\ Steered(t) \in Seq(Messages)
          /\ Len(Steered(t)) >= Len(t) /\ (Heard(t) => Heard(Steered(t)))
      BY <1>2, <2>1, SteeredIsWhole DEF NextRequest
    <2>3. Grows
      BY <1>1, <1>2, <2>2 DEF ModelFinal, Grows, TypeOK, Shapes, BoundsKept
    <2>4. QED
      BY <1>1, <1>2, <2>1, <2>3, NextRequestKeeps DEF LoopPcs
  <1>6. CASE data # "closed" /\ lane # "pending"
    <2>1. transcript' = t /\ Settle("final") /\ LoopEnds("final") /\ Grows
      BY <1>3, <1>6, SettleEnds DEF ModelFinal
    <2>2. lane \in {"open", "consumed"} /\ (lane = "consumed" => Heard(transcript))
      BY <1>1, <1>6 DEF SteeringFollowed, LoopPcs
    <2>3. SteeringIsHeard'
      BY <1>2, <2>1, <2>2 DEF SteeringIsHeard, SteeringFollowed, Grows
    <2>4. outcome' \in Successful => outcome' = "final"
      BY <2>1 DEF LoopEnds, Successful
    <2>5. QED
      BY <1>1, <1>2, <2>1, <2>3, <2>4, EndKeeps DEF LoopPcs, Text
  <1>7. QED
    BY <1>4, <1>5, <1>6

\* The provider failed.
LEMMA ModelFailsKeeps ==
  ASSUME TurnInduct, ModelFails
  PROVE  TurnInduct'
  <1> USE BoundAssumption DEF TurnInduct, cancelVars, steerVars, loopVars
  <1>1. TypeOK'
    BY DEF ModelFails, Settle, FinishCancelled, EndLoop, TypeOK, Outcomes, TurnPcs
  <1>2. Shapes'
    BY DEF ModelFails, Shapes
  <1>3. BoundsKept'
    BY DEF ModelFails, Settle, FinishCancelled, EndLoop, BoundsKept, CallPcs
  <1>4. CancelIsSeen'
    BY DEF ModelFails, Settle, FinishCancelled, EndLoop, CancelIsSeen, TypeOK, Successful
  <1>5. TranscriptGrows'
    BY DEF ModelFails, Settle, FinishCancelled, EndLoop, TranscriptGrows, Requests, CallPcs,
       Successful
  <1>6. SteeringFollowed'
    BY DEF ModelFails, Settle, FinishCancelled, EndLoop, SteeringFollowed, LoopPcs
  <1>7. SteeringIsHeard'
    BY DEF ModelFails, Settle, FinishCancelled, EndLoop, SteeringIsHeard
  <1>8. QED
    BY <1>1, <1>2, <1>3, <1>4, <1>5, <1>6, <1>7

\* The model calls tools, which are then the open message.
LEMMA ModelCallsKeeps ==
  ASSUME TurnInduct, NEW n \in 1 .. MaxCalls, NEW invalid \in BOOLEAN, ModelCalls(n, invalid)
  PROVE  TurnInduct'
  <1> USE BoundAssumption DEF TurnInduct
  <1> DEFINE ids == Ids(steps, n)
             calls == [role |-> "assistant", ids |-> ids]
             asked == Append(transcript, calls)
             answered == Append(asked, [role |-> "tool", ids |-> ids])
  <1>1. /\ pc = "generate" /\ ~aborted /\ Whole(transcript) /\ transcript \in Seq(Messages)
        /\ ids \in SUBSET (Nat \X Nat) /\ ids # {} /\ n \in Nat /\ n >= 1
        /\ calls \in Messages /\ [role |-> "tool", ids |-> ids] \in Messages
    <2>1. pc = "generate" /\ ~aborted /\ Whole(transcript) /\ transcript \in Seq(Messages)
      BY DEF ModelCalls, TranscriptGrows, Requests, Whole
    <2>2. steps \in Nat /\ n \in Nat /\ n >= 1
      BY DEF TypeOK
    <2>3. ids \in SUBSET (Nat \X Nat) /\ ids # {}
      BY <2>2, IdsAreIds, IdsAreSome
    <2>4. calls \in Messages /\ [role |-> "tool", ids |-> ids] \in Messages
      BY <2>3 DEF Messages
    <2>5. QED
      BY <2>1, <2>2, <2>3, <2>4
  <1>2. /\ Asks(asked, ids) /\ asked \in Seq(Messages) /\ Len(asked) = Len(transcript) + 1
        /\ Heard(transcript) => Heard(asked)
    BY <1>1, WholeAsks, Appended, HeardAppended
  <1>3. /\ Whole(answered) /\ answered \in Seq(Messages) /\ Len(answered) = Len(asked) + 1
        /\ Heard(asked) => Heard(answered)
    BY <1>1, <1>2, AskedAnswers, Appended, HeardAppended
  <1>4. UNCHANGED <<steps, omitted, request, limit, aborted, granted, accepted, data>>
    BY DEF ModelCalls
  <1>5. CASE data = "closed"
    <2>1. transcript' = asked /\ Throw /\ UNCHANGED batch
      BY <1>5 DEF ModelCalls
    <2>2. Grows
      BY <1>2, <1>4, <2>1 DEF Grows, TypeOK, Shapes, BoundsKept
    <2>3. QED
      BY <1>1, <2>1, <2>2, ThrowKeeps DEF LoopPcs
  <1>6. CASE data # "closed" /\ ~invalid
    <2>1. /\ transcript' = asked /\ batch' = [size |-> n, done |-> 0, terminal |-> FALSE]
          /\ pc' = "beforeTool" /\ UNCHANGED <<outcome, lane, posted, cancelState>>
      BY <1>6 DEF ModelCalls
    <2>2. TypeOK'
      <3>1. omitted' \subseteq DOMAIN transcript' /\ request'.kept \subseteq DOMAIN transcript'
        BY <1>2, <1>4, <2>1 DEF TypeOK
      <3>2. batch'.done \in 0 .. batch'.size
        BY <1>1, <2>1
      <3>3. QED
        BY <1>4, <2>1, <3>1, <3>2 DEF TypeOK, TurnPcs, LoopPcs
    <2>3. Shapes' /\ BoundsKept'
      BY <1>1, <1>2, <2>1 DEF Shapes, BoundsKept
    <2>4. CancelIsSeen'
      BY <1>1, <1>4, <2>1 DEF CancelIsSeen, TurnPcs, LoopPcs
    <2>5. TranscriptGrows'
      BY <1>1, <1>2, <1>4, <2>1 DEF TranscriptGrows, Requests, CancelIsSeen, Successful
    <2>6. SteeringFollowed' /\ SteeringIsHeard'
      BY <1>1, <1>2, <1>4, <2>1 DEF SteeringFollowed, SteeringIsHeard, LoopPcs
    <2>7. QED
      BY <2>2, <2>3, <2>4, <2>5, <2>6
  <1>7. CASE data # "closed" /\ invalid
    <2>1. NextRequest(answered) /\ UNCHANGED batch
      BY <1>7 DEF ModelCalls
    <2>2. /\ transcript' = Steered(answered) /\ Steered(answered) \in Seq(Messages)
          /\ Len(Steered(answered)) >= Len(answered)
          /\ Heard(answered) => Heard(Steered(answered))
      BY <1>3, <2>1, SteeredIsWhole DEF NextRequest
    <2>3. Grows
      BY <1>2, <1>3, <1>4, <2>1, <2>2 DEF Grows, TypeOK, Shapes, BoundsKept
    <2>4. QED
      BY <1>1, <1>2, <1>3, <2>1, <2>3, NextRequestKeeps DEF LoopPcs
  <1>8. QED
    BY <1>5, <1>6, <1>7

\* A request is cancelled while it is under way.
LEMMA GenerateCancelledKeeps ==
  ASSUME TurnInduct, GenerateCancelled
  PROVE  TurnInduct'
  <1> USE BoundAssumption DEF TurnInduct, cancelVars, steerVars, loopVars
  <1>1. TypeOK'
    BY DEF GenerateCancelled, FinishCancelled, EndLoop, TypeOK, Outcomes, TurnPcs
  <1>2. Shapes'
    BY DEF GenerateCancelled, Shapes
  <1>3. BoundsKept'
    BY DEF GenerateCancelled, FinishCancelled, EndLoop, BoundsKept, CallPcs
  <1>4. CancelIsSeen'
    BY DEF GenerateCancelled, FinishCancelled, EndLoop, CancelIsSeen, TypeOK, Successful
  <1>5. TranscriptGrows'
    BY DEF GenerateCancelled, FinishCancelled, EndLoop, TranscriptGrows, Requests, CallPcs,
       Successful
  <1>6. SteeringFollowed'
    BY DEF GenerateCancelled, FinishCancelled, EndLoop, SteeringFollowed, LoopPcs
  <1>7. SteeringIsHeard'
    BY DEF GenerateCancelled, FinishCancelled, EndLoop, SteeringIsHeard
  <1>8. QED
    BY <1>1, <1>2, <1>3, <1>4, <1>5, <1>6, <1>7

\* Its cleanup did not succeed.
LEMMA ModelCleanupFailsKeeps ==
  ASSUME TurnInduct, ModelCleanupFails
  PROVE  TurnInduct'
  <1> USE BoundAssumption DEF TurnInduct, cancelVars, steerVars, loopVars
  <1>1. TypeOK'
    BY DEF ModelCleanupFails, FinishCleanupFailed, EndLoop, TypeOK, Outcomes, TurnPcs
  <1>2. Shapes'
    BY DEF ModelCleanupFails, Shapes
  <1>3. BoundsKept'
    BY DEF ModelCleanupFails, FinishCleanupFailed, EndLoop, BoundsKept, CallPcs
  <1>4. CancelIsSeen'
    BY DEF ModelCleanupFails, FinishCleanupFailed, EndLoop, CancelIsSeen, TypeOK, Successful
  <1>5. TranscriptGrows'
    BY DEF ModelCleanupFails, FinishCleanupFailed, EndLoop, TranscriptGrows, Requests, CallPcs,
       Successful
  <1>6. SteeringFollowed'
    BY DEF ModelCleanupFails, FinishCleanupFailed, EndLoop, SteeringFollowed, LoopPcs
  <1>7. SteeringIsHeard'
    BY DEF ModelCleanupFails, FinishCleanupFailed, EndLoop, SteeringIsHeard
  <1>8. QED
    BY <1>1, <1>2, <1>3, <1>4, <1>5, <1>6, <1>7

\* A hook lets a call through, or answers it.
LEMMA BeforeToolDoneKeeps ==
  ASSUME TurnInduct, NEW failed \in BOOLEAN, BeforeToolDone(failed)
  PROVE  TurnInduct'
  <1> USE BoundAssumption DEF TurnInduct
  <1>1. pc = "beforeTool" /\ pc \in CallPcs /\ CallUnchanged
    BY DEF BeforeToolDone, CallPcs
  <1>2. CASE data = "closed"
    <2>1. Throw /\ UNCHANGED <<transcript, batch>>
      BY <1>2 DEF BeforeToolDone
    <2>2. Grows
      BY <2>1 DEF BeforeToolDone, CallUnchanged, Grows, TypeOK, Shapes, BoundsKept
    <2>3. QED
      BY <1>1, <2>1, <2>2, ThrowKeeps DEF LoopPcs
  <1>3. CASE data # "closed" /\ aborted
    <2>1. FinishCancelled /\ UNCHANGED <<transcript, batch>> /\ LoopEnds("max_steps")
      BY <1>3, SettleEnds DEF BeforeToolDone
    <2>2. Grows
      BY <1>1, <2>1 DEF CallUnchanged, Grows, Shapes, BoundsKept
    <2>3. SteeringIsHeard' /\ outcome' \notin Successful
      BY <2>1 DEF LoopEnds, SteeringIsHeard, Successful
    <2>4. QED
      BY <1>1, <2>1, <2>2, <2>3, EndKeeps DEF LoopPcs
  <1>4. CASE data # "closed" /\ ~aborted /\ failed
    BY <1>1, <1>4, CallDoneKeeps DEF BeforeToolDone
  <1>5. CASE data # "closed" /\ ~aborted /\ ~failed
    <2>1. /\ pc' = "dispatch"
          /\ UNCHANGED <<transcript, batch, outcome, lane, posted, cancelState>>
      BY <1>5 DEF BeforeToolDone
    <2>2. TypeOK' /\ Shapes' /\ BoundsKept'
      BY <1>1, <2>1 DEF CallUnchanged, TypeOK, Shapes, BoundsKept, TurnPcs, LoopPcs
    <2>3. CancelIsSeen' /\ TranscriptGrows'
      BY <1>1, <2>1 DEF CallUnchanged, CancelIsSeen, TranscriptGrows, TurnPcs, LoopPcs, Requests
    <2>4. SteeringFollowed' /\ SteeringIsHeard'
      BY <1>1, <2>1 DEF CallUnchanged, SteeringFollowed, SteeringIsHeard, LoopPcs
    <2>5. QED
      BY <2>2, <2>3, <2>4
  <1>6. QED
    BY <1>2, <1>3, <1>4, <1>5

\* A tool has its result.
LEMMA DispatchedKeeps ==
  ASSUME TurnInduct, NEW terminal \in BOOLEAN, Dispatched(terminal)
  PROVE  TurnInduct'
  <1> USE BoundAssumption DEF TurnInduct, cancelVars, steerVars, loopVars
  <1>1. TypeOK'
    BY DEF Dispatched, CallUnchanged, TypeOK, TurnPcs, LoopPcs
  <1>2. Shapes'
    BY DEF Dispatched, Shapes
  <1>3. BoundsKept'
    BY DEF Dispatched, BoundsKept, CallPcs
  <1>4. CancelIsSeen'
    BY DEF Dispatched, CallUnchanged, CancelIsSeen, TypeOK
  <1>5. TranscriptGrows'
    BY DEF Dispatched, CallUnchanged, TranscriptGrows, Requests, CallPcs
  <1>6. SteeringFollowed'
    BY DEF Dispatched, CallUnchanged, SteeringFollowed, TypeOK, TurnPcs
  <1>7. SteeringIsHeard'
    BY DEF Dispatched, CallUnchanged, SteeringIsHeard
  <1>8. QED
    BY <1>1, <1>2, <1>3, <1>4, <1>5, <1>6, <1>7

\* A result counts as an answer after the hooks have seen it.
LEMMA AfterToolDoneKeeps ==
  ASSUME TurnInduct, AfterToolDone
  PROVE  TurnInduct'
  <1> USE BoundAssumption DEF TurnInduct
  <1>1. pc = "afterTool" /\ pc \in CallPcs /\ CallUnchanged
    BY DEF AfterToolDone, CallPcs
  <1>2. CASE data = "closed"
    <2>1. Throw /\ UNCHANGED <<transcript, batch>>
      BY <1>2 DEF AfterToolDone
    <2>2. Grows
      BY <2>1 DEF AfterToolDone, CallUnchanged, Grows, TypeOK, Shapes, BoundsKept
    <2>3. QED
      BY <1>1, <2>1, <2>2, ThrowKeeps DEF LoopPcs
  <1>3. CASE data # "closed"
    BY <1>1, <1>3, CallDoneKeeps DEF AfterToolDone
  <1>4. QED
    BY <1>2, <1>3

\* A call is cancelled while it is under way.
LEMMA DispatchCancelledKeeps ==
  ASSUME TurnInduct, DispatchCancelled
  PROVE  TurnInduct'
  <1> USE BoundAssumption DEF TurnInduct, cancelVars, steerVars, loopVars
  <1>1. TypeOK'
    BY DEF DispatchCancelled, CallUnchanged, FinishCancelled, EndLoop, TypeOK, Outcomes, TurnPcs
  <1>2. Shapes'
    BY DEF DispatchCancelled, Shapes
  <1>3. BoundsKept'
    BY DEF DispatchCancelled, FinishCancelled, EndLoop, BoundsKept, CallPcs
  <1>4. CancelIsSeen'
    BY DEF DispatchCancelled, CallUnchanged, FinishCancelled, EndLoop, CancelIsSeen, TypeOK,
       Successful
  <1>5. TranscriptGrows'
    BY DEF DispatchCancelled, FinishCancelled, EndLoop, TranscriptGrows, Requests, CallPcs,
       Successful
  <1>6. SteeringFollowed'
    BY DEF DispatchCancelled, FinishCancelled, EndLoop, SteeringFollowed, LoopPcs
  <1>7. SteeringIsHeard'
    BY DEF DispatchCancelled, FinishCancelled, EndLoop, SteeringIsHeard
  <1>8. QED
    BY <1>1, <1>2, <1>3, <1>4, <1>5, <1>6, <1>7

\* Its cleanup did not succeed.
LEMMA DispatchCleanupFailsKeeps ==
  ASSUME TurnInduct, DispatchCleanupFails
  PROVE  TurnInduct'
  <1> USE BoundAssumption DEF TurnInduct, cancelVars, steerVars, loopVars
  <1>1. TypeOK'
    BY DEF DispatchCleanupFails, CallUnchanged, FinishCleanupFailed, EndLoop, TypeOK, Outcomes,
       TurnPcs
  <1>2. Shapes'
    BY DEF DispatchCleanupFails, Shapes
  <1>3. BoundsKept'
    BY DEF DispatchCleanupFails, FinishCleanupFailed, EndLoop, BoundsKept, CallPcs
  <1>4. CancelIsSeen'
    BY DEF DispatchCleanupFails, CallUnchanged, FinishCleanupFailed, EndLoop, CancelIsSeen,
       TypeOK, Successful
  <1>5. TranscriptGrows'
    BY DEF DispatchCleanupFails, FinishCleanupFailed, EndLoop, TranscriptGrows, Requests, CallPcs,
       Successful
  <1>6. SteeringFollowed'
    BY DEF DispatchCleanupFails, FinishCleanupFailed, EndLoop, SteeringFollowed, LoopPcs
  <1>7. SteeringIsHeard'
    BY DEF DispatchCleanupFails, FinishCleanupFailed, EndLoop, SteeringIsHeard
  <1>8. QED
    BY <1>1, <1>2, <1>3, <1>4, <1>5, <1>6, <1>7

\* The outcome is proposed only after the sinks have drained.
LEMMA DrainedKeeps ==
  ASSUME TurnInduct, Drained
  PROVE  TurnInduct'
  <1> USE BoundAssumption DEF TurnInduct, cancelVars, steerVars, loopVars
  <1>1. TypeOK'
    BY DEF Drained, Crash, TypeOK, TurnPcs
  <1>2. Shapes'
    BY DEF Drained, Shapes
  <1>3. BoundsKept'
    BY DEF Drained, Crash, BoundsKept, CallPcs
  <1>4. CancelIsSeen'
    BY DEF Drained, Crash, CancelIsSeen, TypeOK
  <1>5. TranscriptGrows'
    BY DEF Drained, Crash, TranscriptGrows, Requests, CallPcs
  <1>6. SteeringFollowed'
    BY DEF Drained, Crash, SteeringFollowed, LoopPcs
  <1>7. SteeringIsHeard'
    BY DEF Drained, Crash, SteeringIsHeard
  <1>8. QED
    BY <1>1, <1>2, <1>3, <1>4, <1>5, <1>6, <1>7

\* The Host accepts the proposal.
LEMMA HostAcceptsKeeps ==
  ASSUME TurnInduct, HostAccepts
  PROVE  TurnInduct'
  <1> USE BoundAssumption DEF TurnInduct, cancelVars, steerVars, loopVars
  <1>1. TypeOK'
    BY DEF HostAccepts, Crash, TypeOK, TurnPcs
  <1>2. Shapes'
    BY DEF HostAccepts, Shapes
  <1>3. BoundsKept'
    BY DEF HostAccepts, Crash, BoundsKept, CallPcs
  <1>4. CancelIsSeen'
    BY DEF HostAccepts, Crash, CancelIsSeen, TypeOK
  <1>5. TranscriptGrows'
    BY DEF HostAccepts, Crash, TranscriptGrows, Requests, CallPcs
  <1>6. SteeringFollowed'
    BY DEF HostAccepts, Crash, SteeringFollowed, LoopPcs
  <1>7. SteeringIsHeard'
    BY DEF HostAccepts, Crash, SteeringIsHeard
  <1>8. QED
    BY <1>1, <1>2, <1>3, <1>4, <1>5, <1>6, <1>7

\* The Host answers a turn without a proposal.
LEMMA HostSettlesKeeps ==
  ASSUME TurnInduct, HostSettles
  PROVE  TurnInduct'
  <1> USE BoundAssumption DEF TurnInduct, cancelVars, steerVars, loopVars
  <1>1. TypeOK'
    BY DEF HostSettles, TypeOK, TurnPcs
  <1>2. Shapes'
    BY DEF HostSettles, Shapes
  <1>3. BoundsKept'
    BY DEF HostSettles, BoundsKept, CallPcs
  <1>4. CancelIsSeen'
    BY DEF HostSettles, CancelIsSeen, TypeOK
  <1>5. TranscriptGrows'
    BY DEF HostSettles, TranscriptGrows, Requests, CallPcs
  <1>6. SteeringFollowed'
    BY DEF HostSettles, SteeringFollowed, LoopPcs
  <1>7. SteeringIsHeard'
    BY DEF HostSettles, SteeringIsHeard
  <1>8. QED
    BY <1>1, <1>2, <1>3, <1>4, <1>5, <1>6, <1>7

\* The hooks after the turn end, or are cut off.
LEMMA AfterTurnDoneKeeps ==
  ASSUME TurnInduct, AfterTurnDone
  PROVE  TurnInduct'
  <1> USE BoundAssumption DEF TurnInduct, cancelVars, steerVars, loopVars
  <1>1. TypeOK'
    BY DEF AfterTurnDone, TypeOK
  <1>2. Shapes'
    BY DEF AfterTurnDone, Shapes
  <1>3. BoundsKept'
    BY DEF AfterTurnDone, BoundsKept, CallPcs
  <1>4. CancelIsSeen'
    BY DEF AfterTurnDone, CancelIsSeen, TypeOK
  <1>5. TranscriptGrows'
    BY DEF AfterTurnDone, TranscriptGrows, Requests, CallPcs
  <1>6. SteeringFollowed'
    BY DEF AfterTurnDone, SteeringFollowed, LoopPcs
  <1>7. SteeringIsHeard'
    BY DEF AfterTurnDone, SteeringIsHeard
  <1>8. QED
    BY <1>1, <1>2, <1>3, <1>4, <1>5, <1>6, <1>7

\* One of them threw.
LEMMA AfterTurnFailsKeeps ==
  ASSUME TurnInduct, AfterTurnFails
  PROVE  TurnInduct'
  <1> USE BoundAssumption DEF TurnInduct, cancelVars, steerVars, loopVars
  <1>1. TypeOK'
    BY DEF AfterTurnFails, TypeOK
  <1>2. Shapes'
    BY DEF AfterTurnFails, Shapes
  <1>3. BoundsKept'
    BY DEF AfterTurnFails, BoundsKept, CallPcs
  <1>4. CancelIsSeen'
    BY DEF AfterTurnFails, CancelIsSeen, TypeOK
  <1>5. TranscriptGrows'
    BY DEF AfterTurnFails, TranscriptGrows, Requests, CallPcs
  <1>6. SteeringFollowed'
    BY DEF AfterTurnFails, SteeringFollowed, LoopPcs
  <1>7. SteeringIsHeard'
    BY DEF AfterTurnFails, SteeringIsHeard
  <1>8. QED
    BY <1>1, <1>2, <1>3, <1>4, <1>5, <1>6, <1>7

\* A cancellation is granted while the turn is active, and only then.
LEMMA CancelKeeps ==
  ASSUME TurnInduct, Cancel
  PROVE  TurnInduct'
  <1> USE BoundAssumption DEF TurnInduct, cancelVars, steerVars, loopVars
  <1>1. TypeOK'
    <2>1. aborted' \in BOOLEAN /\ granted' \in BOOLEAN
      BY Zenon DEF Cancel, TypeOK
    <2>2. QED
      BY <2>1 DEF Cancel, TypeOK
  <1>2. Shapes'
    BY DEF Cancel, Shapes
  <1>3. BoundsKept'
    BY DEF Cancel, BoundsKept
  <1>4. CancelIsSeen'
    BY DEF Cancel, CancelIsSeen, Successful, TurnPcs, LoopPcs
  <1>5. TranscriptGrows'
    BY DEF Cancel, TranscriptGrows
  <1>6. SteeringFollowed'
    BY DEF Cancel, SteeringFollowed
  <1>7. SteeringIsHeard'
    BY DEF Cancel, SteeringIsHeard
  <1>8. QED
    BY <1>1, <1>2, <1>3, <1>4, <1>5, <1>6, <1>7

\* Steering is accepted while the lane is open.
LEMMA SteerKeeps ==
  ASSUME TurnInduct, Steer
  PROVE  TurnInduct'
  <1> USE BoundAssumption DEF TurnInduct, cancelVars, steerVars, loopVars
  <1>1. TypeOK'
    BY DEF Steer, TypeOK
  <1>2. Shapes'
    BY DEF Steer, Shapes
  <1>3. BoundsKept'
    BY DEF Steer, BoundsKept
  <1>4. CancelIsSeen'
    BY DEF Steer, CancelIsSeen
  <1>5. TranscriptGrows'
    BY DEF Steer, TranscriptGrows
  <1>6. SteeringFollowed'
    BY DEF Steer, SteeringFollowed
  <1>7. SteeringIsHeard'
    BY DEF Steer, SteeringIsHeard, SteeringFollowed
  <1>8. QED
    BY <1>1, <1>2, <1>3, <1>4, <1>5, <1>6, <1>7

\* An uncaught error leaves every place at once.
LEMMA UncaughtErrorKeeps ==
  ASSUME TurnInduct, UncaughtError
  PROVE  TurnInduct'
  <1> USE BoundAssumption DEF TurnInduct, cancelVars, steerVars, loopVars
  <1>1. TypeOK'
    BY DEF UncaughtError, TypeOK
  <1>2. Shapes'
    BY DEF UncaughtError, Shapes
  <1>3. BoundsKept'
    BY DEF UncaughtError, BoundsKept
  <1>4. CancelIsSeen'
    BY DEF UncaughtError, CancelIsSeen
  <1>5. TranscriptGrows'
    BY DEF UncaughtError, TranscriptGrows
  <1>6. SteeringFollowed'
    BY DEF UncaughtError, SteeringFollowed
  <1>7. SteeringIsHeard'
    BY DEF UncaughtError, SteeringIsHeard
  <1>8. QED
    BY <1>1, <1>2, <1>3, <1>4, <1>5, <1>6, <1>7

\* Nothing happens.
LEMMA StutterKeeps ==
  ASSUME TurnInduct, UNCHANGED vars
  PROVE  TurnInduct'
  <1> USE BoundAssumption DEF TurnInduct, cancelVars, steerVars, loopVars
  <1>1. TypeOK'
    BY DEF vars, TypeOK
  <1>2. Shapes'
    BY DEF vars, Shapes
  <1>3. BoundsKept'
    BY DEF vars, BoundsKept
  <1>4. CancelIsSeen'
    BY DEF vars, CancelIsSeen
  <1>5. TranscriptGrows'
    BY DEF vars, TranscriptGrows
  <1>6. SteeringFollowed'
    BY DEF vars, SteeringFollowed
  <1>7. SteeringIsHeard'
    BY DEF vars, SteeringIsHeard
  <1>8. QED
    BY <1>1, <1>2, <1>3, <1>4, <1>5, <1>6, <1>7

-----------------------------------------------------------------------------
(* The invariant, and what it says for every history, limit and bound.     *)

\* No turn has begun.
LEMMA InvariantAtStart == Init => TurnInduct
  <1> SUFFICES ASSUME Init PROVE TurnInduct
    OBVIOUS
  <1> USE BoundAssumption DEF Init
  <1>1. TypeOK
    <2>1. batch.done \in 0 .. batch.size /\ steps \in 0 .. MaxSteps
      BY DEF NoBatch
    <2>2. omitted \subseteq DOMAIN transcript /\ request.kept \subseteq DOMAIN transcript
      OBVIOUS
    <2>3. QED
      BY <2>1, <2>2 DEF TypeOK, Outcomes
  <1>5. Shapes
    <2>1. << >> \in Seq(Messages) /\ NoBatch \in [size : Nat, done : Nat, terminal : BOOLEAN]
      BY DEF NoBatch
    <2>2. QED
      BY <2>1 DEF Shapes
  <1>6. BoundsKept
    BY DEF BoundsKept, NoBatch, CallPcs
  <1>2. CancelIsSeen /\ TranscriptGrows
    BY DEF CancelIsSeen, TranscriptGrows, Requests, CallPcs, Successful
  <1>3. SteeringFollowed /\ SteeringIsHeard
    BY DEF SteeringFollowed, SteeringIsHeard, LoopPcs
  <1>4. QED
    BY <1>1, <1>2, <1>3, <1>5, <1>6 DEF TurnInduct

\* Every step of the turn, command of the Host and uncaught error keeps the invariant.
LEMMA InvariantKept == TurnInduct /\ [Next]_vars => TurnInduct'
  <1> SUFFICES ASSUME TurnInduct, [Next]_vars PROVE TurnInduct'
    OBVIOUS
  <1>1. CASE Generate
    BY <1>1, ModelFinalKeeps, ModelFailsKeeps, ModelCallsKeeps DEF Generate
  <1>2. CASE Tool
    BY <1>2, BeforeToolDoneKeeps, DispatchedKeeps, AfterToolDoneKeeps DEF Tool
  <1>3. CASE Begin \/ Prepared \/ PrepareFails \/ HooksDone \/ BeforeTurnFails
    BY <1>3, BeginKeeps, PreparedKeeps, PrepareFailsKeeps, HooksDoneKeeps, BeforeTurnFailsKeeps
  <1>4. CASE Projected \/ ProjectionFails \/ Observed \/ GenerateCancelled \/ ModelCleanupFails
    BY <1>4, ProjectedKeeps, ProjectionFailsKeeps, ObservedKeeps, GenerateCancelledKeeps,
       ModelCleanupFailsKeeps
  <1>5. CASE DispatchCancelled \/ DispatchCleanupFails \/ Drained \/ HostAccepts \/ HostSettles
    BY <1>5, DispatchCancelledKeeps, DispatchCleanupFailsKeeps, DrainedKeeps, HostAcceptsKeeps,
       HostSettlesKeeps
  <1>6. CASE AfterTurnDone \/ AfterTurnFails \/ Cancel \/ Steer \/ UncaughtError
    BY <1>6, AfterTurnDoneKeeps, AfterTurnFailsKeeps, CancelKeeps, SteerKeeps, UncaughtErrorKeeps
  <1>7. CASE UNCHANGED vars
    BY <1>7, StutterKeeps
  <1>8. QED
    BY <1>1, <1>2, <1>3, <1>4, <1>5, <1>6, <1>7 DEF Next

\* The inductive invariant holds, whatever the model, the tools, the hooks and the Host
\* do, and whenever the Data port closes.
THEOREM InvariantHolds == Spec => []TurnInduct
  BY InvariantAtStart, InvariantKept, PTL DEF Spec

\* What a turn proposes starts with the user's message, answers every call and ends with
\* the answer or the result of a terminal tool.
THEOREM TurnCorrect == Spec => []TurnInvariant
  <1>1. ASSUME TurnInduct, pc = "commitAck"
        PROVE  /\ transcript[1] = User /\ Paired(transcript)
               /\ Last(transcript).role = IF outcome = "final" THEN "assistant" ELSE "tool"
    <2>1. Whole(transcript) /\ transcript \in Seq(Messages)
      BY <1>1 DEF TurnInduct, TranscriptGrows, CancelIsSeen, Whole
    <2>2. Paired(transcript)
      BY <2>1 DEF Whole, ToolsAnswer, AnsweredUpTo, Paired
    <2>3. QED
      BY <1>1, <2>1, <2>2 DEF TurnInduct, TranscriptGrows, CancelIsSeen, Whole
  <1>2. TurnInduct => TurnInvariant
    BY <1>1 DEF TurnInduct, TurnInvariant
  <1>3. QED
    BY <1>2, InvariantHolds, PTL

\* No turn ends with an answer that was given before the accepted steering was heard.
THEOREM SteeringHeard == Spec => []SteeringIsHeard
  <1>1. TurnInduct => SteeringIsHeard
    BY DEF TurnInduct
  <1>2. QED
    BY <1>1, InvariantHolds, PTL

-----------------------------------------------------------------------------
(* Positions of a transcript.                                              *)

\* Induction over the natural numbers, for a set.
LEMMA EveryNatural ==
  ASSUME NEW T, 0 \in T, \A n \in Nat : n \in T => n + 1 \in T
  PROVE  Nat \subseteq T
  <1> DEFINE R == OpToRel(<, Nat)
             Rest == Nat \ T
  <1>1. SUFFICES ASSUME Rest # {} PROVE FALSE
    OBVIOUS
  <1>2. \E x \in Rest : \A y \in Rest : ~ (<<y, x>> \in R)
    <2>1. IsWellFoundedOn(R, Nat) /\ Rest \subseteq Nat
      BY NatLessThanWellFounded
    <2> HIDE DEF R, Rest
    <2>2. QED
      BY <1>1, <2>1, WFMin
  <1>3. PICK x \in Rest : \A y \in Rest : ~ (<<y, x>> \in R)
    BY <1>2
  <1>4. \A y \in Rest : ~ (y < x)
    BY <1>3 DEF OpToRel
  <1>5. x \in Nat /\ x # 0 /\ x - 1 \in Nat /\ x - 1 < x /\ (x - 1) + 1 = x
    OBVIOUS
  <1>6. QED
    BY <1>4, <1>5

\* The least of some positions.
LEMMA LeastPosition ==
  ASSUME NEW S \in SUBSET Nat, S # {}
  PROVE  Min(S) \in S /\ \A y \in S : Min(S) <= y
  <1> DEFINE T == {n \in Nat : \A y \in S : y >= n}
  <1>1. \E x \in S : \A y \in S : x <= y
    <2>1. SUFFICES ASSUME \A x \in S : \E y \in S : y < x
                   PROVE  FALSE
      OBVIOUS
    <2>2. 0 \in T /\ \A n \in Nat : n \in T => n + 1 \in T
      <3>1. ASSUME NEW n \in Nat, n \in T, NEW y \in S
            PROVE  y >= n + 1
        <4>1. PICK z \in S : z < y
          BY <2>1
        <4>2. QED
          BY <3>1, <4>1
      <3>2. QED
        BY <3>1
    <2>3. Nat \subseteq T
      <3> HIDE DEF T
      <3>1. QED
        BY <2>2, EveryNatural
    <2>4. PICK x : x \in S
      OBVIOUS
    <2>5. x + 1 \in Nat /\ x + 1 \in T
      BY <2>3, <2>4
    <2>6. QED
      BY <2>4, <2>5
  <1>2. QED
    BY <1>1 DEF Min

\* The greatest of them.
LEMMA GreatestPosition ==
  ASSUME NEW n \in Nat, NEW S \in SUBSET (1 .. n), S # {}
  PROVE  Max(S) \in S /\ \A y \in S : Max(S) >= y
  <1> DEFINE U == {m \in Nat : \A y \in S : y <= m}
  <1>1. U \in SUBSET Nat /\ n \in U
    OBVIOUS
  <1>2. Min(U) \in U /\ \A y \in U : Min(U) <= y
    <2> HIDE DEF U
    <2>1. QED
      BY <1>1, LeastPosition
  <1>3. Min(U) \in Nat /\ \A y \in S : y <= Min(U)
    BY <1>2
  <1>4. Min(U) \in S
    <2>1. SUFFICES ASSUME Min(U) \notin S PROVE FALSE
      OBVIOUS
    <2> DEFINE m == Min(U)
    <2>2. m \in Nat /\ \A y \in S : y <= m /\ y # m /\ y \in Nat /\ y >= 1
      BY <1>3, <2>1
    <2>3. m - 1 \in Nat /\ \A y \in S : y <= m - 1
      <3> HIDE DEF m
      <3>1. PICK z : z \in S
        OBVIOUS
      <3>2. m >= 1
        BY <2>2, <3>1
      <3>3. QED
        BY <2>2, <3>2
    <2>4. m - 1 \in U /\ ~ (m <= m - 1)
      <3>1. m - 1 \in U
        BY <2>3
      <3> HIDE DEF m
      <3>2. QED
        BY <2>2, <3>1
    <2>5. QED
      BY <1>2, <2>4
  <1>5. \E x \in S : \A y \in S : x >= y
    BY <1>3, <1>4
  <1>6. QED
    BY <1>5 DEF Max

\* Positions up to n + 1: with the last one or without it.
LEMMA GreatestOfMore ==
  ASSUME NEW n \in Nat, NEW s \in SUBSET (1 .. n + 1)
  PROVE  /\ s \ {n + 1} \in SUBSET (1 .. n)
         /\ n + 1 \notin s => s \in SUBSET (1 .. n)
         /\ n + 1 \in s => Max(s) = n + 1
         /\ s # {} /\ n + 1 \notin s => Max(s) \in 1 .. n
  <1>1. s \ {n + 1} \in SUBSET (1 .. n) /\ (n + 1 \notin s => s \in SUBSET (1 .. n))
    OBVIOUS
  <1>2. ASSUME n + 1 \in s PROVE Max(s) = n + 1
    <2>1. n + 1 \in Nat /\ s # {} /\ s \in SUBSET (1 .. (n + 1))
      BY <1>2
    <2>2. Max(s) \in s /\ Max(s) >= n + 1
      BY <1>2, <2>1, GreatestPosition
    <2>3. \A x \in s : x >= n + 1 => x = n + 1
      OBVIOUS
    <2>4. QED
      BY <2>2, <2>3
  <1>3. ASSUME s # {}, n + 1 \notin s PROVE Max(s) \in 1 .. n
    BY <1>1, <1>3, GreatestPosition
  <1>4. QED
    BY <1>1, <1>2, <1>3

-----------------------------------------------------------------------------
(* The messages that are kept of a transcript.                             *)

\* The fold of Kept over the first n positions, as a function on sets of positions.
KeptUpTo(t, S, g, n) ==
  g = [s \in SUBSET (1 .. n) |->
         IF s = {} THEN << >>
         ELSE IF Max(s) \in S THEN Append(g[s \ {Max(s)}], t[Max(s)])
         ELSE g[s \ {Max(s)}]]

\* It exists, whatever is kept.
LEMMA KeptExists ==
  ASSUME NEW t, NEW S
  PROVE  \A n \in Nat : \E g : KeptUpTo(t, S, g, n)
  <1> DEFINE T == {n \in Nat : \E g : KeptUpTo(t, S, g, n)}
  <1>1. 0 \in T
    <2> DEFINE g == [s \in SUBSET (1 .. 0) |-> << >>]
    <2>1. \A s \in SUBSET (1 .. 0) : s = {}
      OBVIOUS
    <2>2. KeptUpTo(t, S, g, 0)
      BY <2>1 DEF KeptUpTo
    <2>3. QED
      BY <2>2
  <1>2. ASSUME NEW n \in Nat, n \in T PROVE n + 1 \in T
    <2>1. PICK g : KeptUpTo(t, S, g, n)
      BY <1>2
    <2> DEFINE With(s) == IF n + 1 \in S THEN Append(g[s \ {n + 1}], t[n + 1])
                          ELSE g[s \ {n + 1}]
               h == [s \in SUBSET (1 .. n + 1) |-> IF n + 1 \in s THEN With(s) ELSE g[s]]
    <2>2. ASSUME NEW s \in SUBSET (1 .. n + 1)
          PROVE  h[s] = IF s = {} THEN << >>
                        ELSE IF Max(s) \in S THEN Append(h[s \ {Max(s)}], t[Max(s)])
                        ELSE h[s \ {Max(s)}]
      <3>1. CASE n + 1 \in s
        <4>1. /\ Max(s) = n + 1 /\ s # {} /\ s \ {n + 1} \in SUBSET (1 .. n + 1)
              /\ n + 1 \notin s \ {n + 1}
          BY <3>1, GreatestOfMore
        <4>2. h[s] = With(s) /\ h[s \ {n + 1}] = g[s \ {n + 1}]
          BY <3>1, <4>1
        <4> HIDE DEF h
        <4>3. QED
          BY <4>1, <4>2
      <3>2. CASE n + 1 \notin s /\ s # {}
        <4>1. /\ s \in SUBSET (1 .. n) /\ Max(s) \in 1 .. n
              /\ s \ {Max(s)} \in SUBSET (1 .. n + 1) /\ n + 1 \notin s \ {Max(s)}
          BY <3>2, GreatestOfMore
        <4>2. h[s] = g[s] /\ h[s \ {Max(s)}] = g[s \ {Max(s)}]
          BY <3>2, <4>1
        <4>3. g[s] = IF Max(s) \in S THEN Append(g[s \ {Max(s)}], t[Max(s)])
                     ELSE g[s \ {Max(s)}]
          BY <2>1, <3>2, <4>1 DEF KeptUpTo
        <4> HIDE DEF h
        <4>4. QED
          BY <3>2, <4>2, <4>3
      <3>3. CASE s = {}
        <4>1. h[s] = g[{}] /\ {} \in SUBSET (1 .. n)
          BY <3>3
        <4>2. g[{}] = << >>
          BY <2>1, <4>1 DEF KeptUpTo
        <4> HIDE DEF h
        <4>3. QED
          BY <3>3, <4>1, <4>2
      <3>4. QED
        BY <3>1, <3>2, <3>3
    <2>3. KeptUpTo(t, S, h, n + 1)
      <3>1. h = [s \in SUBSET (1 .. n + 1) |-> h[s]]
        OBVIOUS
      <3> HIDE DEF h
      <3>2. QED
        BY <2>2, <3>1 DEF KeptUpTo
    <2> HIDE DEF h
    <2>4. QED
      BY <2>3
  <1> HIDE DEF T
  <1>3. Nat \subseteq T
    BY <1>1, <1>2, EveryNatural
  <1>4. QED
    BY <1>3 DEF T

\* The messages that are kept of a transcript are found from its first to its last.
KeptSteps(t, S, K) ==
  /\ K[0] = << >> /\ Kept(t, S) = K[Len(t)]
  /\ \A n \in 1 .. Len(t) :
       K[n] = IF n \in S THEN Append(K[n - 1], t[n]) ELSE K[n - 1]

\* Kept takes these steps.
LEMMA KeptStepByStep ==
  ASSUME NEW t \in Seq(Messages), NEW S
  PROVE  \E K : KeptSteps(t, S, K)
  <1> DEFINE n == Len(t)
             D == DOMAIN [i \in DOMAIN t |-> i]
             IsFold(g) == g = [s \in SUBSET D |->
                IF s = {} THEN << >>
                ELSE IF [i \in DOMAIN t |-> i][Max(s)] \in S
                     THEN Append(g[s \ {Max(s)}], t[[i \in DOMAIN t |-> i][Max(s)]])
                     ELSE g[s \ {Max(s)}]]
  <1>1. D = 1 .. n /\ n \in Nat /\ DOMAIN t = 1 .. n
    OBVIOUS
  <1>2. \A s \in SUBSET D : s # {} => [i \in DOMAIN t |-> i][Max(s)] = Max(s)
    BY <1>1, GreatestPosition
  <1>3. ASSUME NEW g PROVE IsFold(g) <=> KeptUpTo(t, S, g, n)
    BY <1>1, <1>2 DEF KeptUpTo
  <1>4. Kept(t, S) = (CHOOSE g : IsFold(g))[D]
    BY DEF Kept, FoldLeftDomain, FoldLeft, MapThenFoldSet
  <1> DEFINE fold == CHOOSE g : IsFold(g)
  <1>5. IsFold(fold)
    <2>1. \E g : IsFold(g)
      BY <1>1, <1>3, KeptExists
    <2> HIDE DEF IsFold
    <2>2. QED
      BY <2>1
  <1>6. KeptUpTo(t, S, fold, n) /\ Kept(t, S) = fold[1 .. n]
    BY <1>1, <1>3, <1>4, <1>5
  <1> HIDE DEF fold
  <1> DEFINE K == [m \in 0 .. n |-> fold[1 .. m]]
  <1>7. ASSUME NEW m \in 1 .. n
        PROVE  K[m] = IF m \in S THEN Append(K[m - 1], t[m]) ELSE K[m - 1]
    <2>1. /\ (1 .. m) \in SUBSET (1 .. n) /\ (1 .. m) # {} /\ m - 1 \in Nat
          /\ (1 .. m) \ {m} = 1 .. m - 1 /\ m \in 0 .. n /\ m - 1 \in 0 .. n
      <3>1. m \in Nat /\ m >= 1 /\ m <= n /\ n \in Nat
        BY <1>1
      <3>2. m \in 1 .. m /\ (1 .. m) \ {m} = 1 .. m - 1
        BY <3>1
      <3>3. (1 .. m) \in SUBSET (1 .. n)
        BY <3>1
      <3>4. m \in 0 .. n /\ m - 1 \in 0 .. n /\ m - 1 \in Nat
        BY <3>1
      <3>5. (1 .. m) # {}
        BY <3>2
      <3>6. QED
        BY <3>2, <3>3, <3>4, <3>5
    <2>2. Max(1 .. m) = m
      BY <2>1, GreatestOfMore
    <2>3. QED
      BY <1>6, <2>1, <2>2 DEF KeptUpTo
  <1>8. K[0] = << >> /\ K[n] = Kept(t, S)
    <2>1. (1 .. 0) = {} /\ {} \in SUBSET (1 .. n) /\ 0 \in 0 .. n /\ n \in 0 .. n
      BY <1>1
    <2>2. fold[{}] = << >>
      BY <1>6, <2>1 DEF KeptUpTo
    <2>3. QED
      BY <1>6, <2>1, <2>2
  <1> HIDE DEF K
  <1>9. QED
    BY <1>7, <1>8 DEF KeptSteps

-----------------------------------------------------------------------------
(* What keeps a transcript paired.                                         *)

\* Message i of t makes calls.
CallsAt(t, i) == t[i].role = "assistant" /\ t[i].ids # {}

\* S has both messages of an exchange of t or none.
KeepsPairs(t, S) == \A i \in DOMAIN t : CallsAt(t, i) => (i \in S <=> i + 1 \in S)

\* The message behind a call, and the message before results.
LEMMA PairedAt ==
  ASSUME NEW t \in Seq(Messages), Paired(t), NEW i \in 1 .. Len(t)
  PROVE  /\ CallsAt(t, i) =>
              /\ i + 1 \in 1 .. Len(t)
              /\ t[i + 1] = [role |-> "tool", ids |-> t[i].ids] /\ ~ CallsAt(t, i + 1)
         /\ t[i].role = "tool" =>
              /\ i - 1 \in 1 .. Len(t) /\ t[i].ids # {} /\ CallsAt(t, i - 1)
              /\ t[i - 1] = [role |-> "assistant", ids |-> t[i].ids]
  <1>1. i \in DOMAIN t /\ i \in Nat /\ i >= 1 /\ Len(t) \in Nat /\ i <= Len(t)
    OBVIOUS
  <1>2. ASSUME CallsAt(t, i)
        PROVE  /\ i + 1 \in 1 .. Len(t)
               /\ t[i + 1] = [role |-> "tool", ids |-> t[i].ids] /\ ~ CallsAt(t, i + 1)
    <2>1. i < Len(t) /\ t[i + 1] = [role |-> "tool", ids |-> t[i].ids]
      BY <1>1, <1>2 DEF CallsAt, Paired
    <2>2. t[i + 1].role = "tool"
      BY <2>1
    <2>3. QED
      BY <1>1, <2>1, <2>2 DEF CallsAt
  <1>3. ASSUME t[i].role = "tool"
        PROVE  /\ i - 1 \in 1 .. Len(t) /\ t[i].ids # {} /\ CallsAt(t, i - 1)
               /\ t[i - 1] = [role |-> "assistant", ids |-> t[i].ids]
    <2>1. /\ i > 1 /\ t[i].ids # {}
          /\ t[i - 1] = [role |-> "assistant", ids |-> t[i].ids]
      BY <1>1, <1>3 DEF Paired
    <2>2. QED
      BY <1>1, <2>1 DEF CallsAt
  <1>4. QED
    BY <1>2, <1>3

\* A message that neither calls nor answers leaves a transcript paired.
LEMMA PairedTalks ==
  ASSUME NEW t \in Seq(Messages), Paired(t), NEW m \in Messages,
         m.role # "tool", m.role = "assistant" => m.ids = {}
  PROVE  Paired(Append(t, m))
  <1>1. DOMAIN t = 1 .. Len(t) /\ DOMAIN Append(t, m) = 1 .. Len(t) + 1 /\ Len(t) \in Nat
    OBVIOUS
  <1>2. QED
    BY <1>1, Appended DEF Paired

\* So does an exchange.
LEMMA PairedExchanges ==
  ASSUME NEW t \in Seq(Messages), Paired(t), NEW ids \in SUBSET (Nat \X Nat), ids # {}
  PROVE  Paired(Append(Append(t, [role |-> "assistant", ids |-> ids]),
                       [role |-> "tool", ids |-> ids]))
  <1> DEFINE c == [role |-> "assistant", ids |-> ids]
             r == [role |-> "tool", ids |-> ids]
             u == Append(t, c)
             v == Append(u, r)
  <1>1. c \in Messages /\ r \in Messages /\ u \in Seq(Messages)
    BY DEF Messages
  <1>2. /\ Len(t) \in Nat /\ Len(u) = Len(t) + 1 /\ Len(v) = Len(t) + 2
        /\ DOMAIN t = 1 .. Len(t) /\ DOMAIN v = 1 .. Len(t) + 2
        /\ \A i \in 1 .. Len(t) : v[i] = t[i]
        /\ v[Len(t) + 1] = c /\ v[Len(t) + 2] = r
    BY <1>1, Appended
  <1> HIDE DEF u, v
  <1>3. ASSUME NEW i \in DOMAIN v, v[i].ids # {}, v[i].role = "assistant"
        PROVE  i < Len(v) /\ v[i + 1] = [role |-> "tool", ids |-> v[i].ids]
    <2>1. Len(v) = Len(t) + 2 /\ i \in 1 .. Len(t) + 2
      BY <1>2
    <2>2. CASE i \in 1 .. Len(t)
      BY <1>2, <1>3, <2>2 DEF Paired
    <2>3. CASE i = Len(t) + 1
      <3>1. v[i] = c /\ v[i + 1] = r /\ c.ids = ids
        BY <1>2, <2>3
      <3>2. QED
        BY <1>2, <2>1, <2>3, <3>1
    <2>4. CASE i = Len(t) + 2
      <3>1. v[i] = r /\ r.role = "tool"
        BY <1>2, <2>4
      <3>2. QED
        BY <1>3, <3>1
    <2>5. QED
      BY <1>2, <2>1, <2>2, <2>3, <2>4
  <1>4. ASSUME NEW i \in DOMAIN v, v[i].role = "tool"
        PROVE  /\ i > 1 /\ v[i].ids # {}
               /\ v[i - 1] = [role |-> "assistant", ids |-> v[i].ids]
    BY <1>2, <1>4 DEF Paired
  <1>5. Paired(v)
    BY <1>3, <1>4 DEF Paired
  <1>6. QED
    BY <1>5 DEF u, v

\* One paired transcript behind another.
LEMMA PairedConcat ==
  ASSUME NEW t \in Seq(Messages), NEW u \in Seq(Messages), Paired(t), Paired(u)
  PROVE  t \o u \in Seq(Messages) /\ Paired(t \o u)
  <1> DEFINE v == t \o u
  <1>1. /\ v \in Seq(Messages) /\ Len(t) \in Nat /\ Len(u) \in Nat
        /\ Len(v) = Len(t) + Len(u) /\ DOMAIN v = 1 .. Len(t) + Len(u)
        /\ DOMAIN t = 1 .. Len(t) /\ DOMAIN u = 1 .. Len(u)
        /\ \A i \in 1 .. Len(t) : v[i] = t[i]
        /\ \A i \in 1 .. Len(t) + Len(u) : i > Len(t) => v[i] = u[i - Len(t)]
    OBVIOUS
  <1> HIDE DEF v
  <1>2. ASSUME NEW i \in DOMAIN v, v[i].ids # {}, v[i].role = "assistant"
        PROVE  i < Len(v) /\ v[i + 1] = [role |-> "tool", ids |-> v[i].ids]
    <2>1. CASE i <= Len(t)
      BY <1>1, <1>2, <2>1 DEF Paired
    <2>2. CASE i > Len(t)
      <3>1. i - Len(t) \in DOMAIN u /\ v[i] = u[i - Len(t)]
        BY <1>1, <2>2
      <3>2. i - Len(t) < Len(u) /\ u[(i - Len(t)) + 1] = [role |-> "tool", ids |-> v[i].ids]
        BY <1>2, <3>1 DEF Paired
      <3>3. i + 1 \in 1 .. Len(t) + Len(u) /\ i + 1 > Len(t) /\ (i + 1) - Len(t) = (i - Len(t)) + 1
        BY <1>1, <2>2, <3>2
      <3>4. QED
        BY <1>1, <3>2, <3>3
    <2>3. QED
      BY <1>1, <2>1, <2>2
  <1>3. ASSUME NEW i \in DOMAIN v, v[i].role = "tool"
        PROVE  /\ i > 1 /\ v[i].ids # {}
               /\ v[i - 1] = [role |-> "assistant", ids |-> v[i].ids]
    <2>1. CASE i <= Len(t)
      BY <1>1, <1>3, <2>1 DEF Paired
    <2>2. CASE i > Len(t)
      <3>1. i - Len(t) \in DOMAIN u /\ v[i] = u[i - Len(t)]
        BY <1>1, <2>2
      <3>2. /\ i - Len(t) > 1 /\ v[i].ids # {}
            /\ u[(i - Len(t)) - 1] = [role |-> "assistant", ids |-> v[i].ids]
        BY <1>3, <3>1 DEF Paired
      <3>3. i - 1 \in 1 .. Len(t) + Len(u) /\ i - 1 > Len(t) /\ (i - 1) - Len(t) = (i - Len(t)) - 1
        BY <1>1, <2>2, <3>2
      <3>4. QED
        BY <1>1, <3>2, <3>3
    <2>3. QED
      BY <1>1, <2>1, <2>2
  <1>4. QED
    BY <1>1, <1>2, <1>3 DEF Paired, v

\* What is kept of a paired transcript is paired, if its exchanges are kept as a whole; and it
\* is shorter unless everything is kept.
LEMMA KeptIsPaired ==
  ASSUME NEW t \in Seq(Messages), Paired(t), NEW S, KeepsPairs(t, S)
  PROVE  /\ Kept(t, S) \in Seq(Messages) /\ Paired(Kept(t, S))
         /\ (\E i \in DOMAIN t : i \notin S) => Len(Kept(t, S)) < Len(t)
  <1>1. PICK K : KeptSteps(t, S, K)
    BY KeptStepByStep
  <1> DEFINE Open(n) == n # 0 /\ CallsAt(t, n) /\ n \in S
             Sound(n) == /\ K[n] \in Seq(Messages) /\ Len(K[n]) <= n
                         /\ (\E i \in 1 .. n : i \notin S) => Len(K[n]) < n
                         /\ IF Open(n)
                              THEN /\ K[n] = Append(K[n - 1], t[n])
                                   /\ K[n - 1] \in Seq(Messages) /\ Paired(K[n - 1])
                              ELSE Paired(K[n])
             T == {n \in Nat : n <= Len(t) => Sound(n)}
  <1>2. 0 \in T
    <2>1. K[0] = << >> /\ Paired(<< >>) /\ << >> \in Seq(Messages) /\ Len(<< >>) = 0
      BY <1>1 DEF KeptSteps, Paired
    <2>2. Sound(0)
      BY <2>1
    <2>3. QED
      BY <2>2
  <1>3. ASSUME NEW n \in Nat, n \in T PROVE n + 1 \in T
    <2>1. SUFFICES ASSUME n + 1 <= Len(t) PROVE Sound(n + 1)
      OBVIOUS
    <2>2. /\ Sound(n) /\ n + 1 \in 1 .. Len(t) /\ DOMAIN t = 1 .. Len(t) /\ (n + 1) - 1 = n
          /\ t[n + 1] \in Messages
      BY <1>3, <2>1
    <2>3. K[n + 1] = IF n + 1 \in S THEN Append(K[n], t[n + 1]) ELSE K[n]
      BY <1>1, <2>2 DEF KeptSteps
    <2>4. /\ K[n + 1] \in Seq(Messages) /\ Len(K[n + 1]) <= n + 1
          /\ (\E i \in 1 .. n + 1 : i \notin S) => Len(K[n + 1]) < n + 1
      <3>1. CASE n + 1 \in S
        <4>1. Len(K[n + 1]) = Len(K[n]) + 1 /\ K[n + 1] \in Seq(Messages) /\ Len(K[n]) \in Nat
          BY <2>2, <2>3, <3>1, Appended
        <4>2. (\E i \in 1 .. n + 1 : i \notin S) => \E i \in 1 .. n : i \notin S
          BY <3>1
        <4>3. QED
          BY <2>2, <4>1, <4>2
      <3>2. CASE n + 1 \notin S
        <4>1. K[n + 1] = K[n] /\ Len(K[n]) \in Nat
          BY <2>2, <2>3, <3>2
        <4>2. QED
          BY <2>2, <4>1
      <3>3. QED
        BY <3>1, <3>2
    <2>5. CASE Open(n + 1)
      <3>1. ~ Open(n)
        <4>1. n # 0 => n \in 1 .. Len(t)
          BY <2>1
        <4>2. n # 0 => ~ (CallsAt(t, n) /\ CallsAt(t, n + 1))
          BY <4>1, PairedAt
        <4>3. QED
          BY <2>5, <4>2
      <3>2. K[n] \in Seq(Messages) /\ Paired(K[n]) /\ K[n + 1] = Append(K[n], t[n + 1])
        BY <2>2, <2>3, <2>5, <3>1
      <3>3. QED
        BY <2>2, <2>4, <2>5, <3>2
    <2>6. CASE ~ Open(n + 1)
      <3>1. SUFFICES Paired(K[n + 1])
        BY <2>4, <2>6
      <3>2. CASE Open(n)
        <4>1. /\ n \in DOMAIN t /\ n + 1 \in S /\ t[n] \in Messages /\ t[n].role = "assistant"
              /\ t[n].ids # {} /\ t[n + 1] = [role |-> "tool", ids |-> t[n].ids]
          BY <2>2, <3>2 DEF KeepsPairs, CallsAt, Paired
        <4>2. t[n] = [role |-> "assistant", ids |-> t[n].ids] /\ t[n].ids \in SUBSET (Nat \X Nat)
          BY <4>1 DEF Messages
        <4>3. /\ K[n] = Append(K[n - 1], t[n]) /\ K[n - 1] \in Seq(Messages) /\ Paired(K[n - 1])
              /\ K[n + 1] = Append(K[n], t[n + 1])
          BY <2>2, <2>3, <3>2, <4>1
        <4>4. K[n + 1] = Append(Append(K[n - 1], [role |-> "assistant", ids |-> t[n].ids]),
                                [role |-> "tool", ids |-> t[n].ids])
          BY <4>1, <4>2, <4>3
        <4>5. QED
          BY <4>1, <4>2, <4>3, <4>4, PairedExchanges
      <3>3. CASE ~ Open(n) /\ n + 1 \in S
        <4>1. K[n] \in Seq(Messages) /\ Paired(K[n]) /\ K[n + 1] = Append(K[n], t[n + 1])
          BY <2>2, <2>3, <3>3
        <4>2. t[n + 1].role = "assistant" => t[n + 1].ids = {}
          BY <2>2, <2>6, <3>3 DEF CallsAt
        <4>3. t[n + 1].role # "tool"
          <5>1. SUFFICES ASSUME t[n + 1].role = "tool" PROVE FALSE
            OBVIOUS
          <5>2. n \in DOMAIN t /\ n # 0 /\ CallsAt(t, n)
            <6>1. (n + 1) - 1 \in 1 .. Len(t) /\ CallsAt(t, (n + 1) - 1)
              BY <2>2, <5>1, PairedAt
            <6>2. QED
              BY <2>2, <6>1
          <5>3. n \in S
            BY <3>3, <5>2 DEF KeepsPairs
          <5>4. QED
            BY <3>3, <5>2, <5>3
        <4>4. QED
          BY <2>2, <4>1, <4>2, <4>3, PairedTalks
      <3>4. CASE ~ Open(n) /\ n + 1 \notin S
        BY <2>2, <2>3, <3>4
      <3>5. QED
        BY <3>2, <3>3, <3>4
    <2>7. QED
      BY <2>5, <2>6
  <1>4. Len(t) \in T
    <2> HIDE DEF T
    <2>1. QED
      BY <1>2, <1>3, EveryNatural
  <1>5. Sound(Len(t))
    BY <1>4
  <1>6. ~ Open(Len(t))
    <2>1. Len(t) \in Nat /\ ~ (Len(t) + 1 \in 1 .. Len(t))
      OBVIOUS
    <2>2. Len(t) # 0 => Len(t) \in 1 .. Len(t)
      BY <2>1
    <2>3. QED
      BY <2>1, <2>2, PairedAt
  <1>7. Kept(t, S) = K[Len(t)] /\ DOMAIN t = 1 .. Len(t)
    BY <1>1 DEF KeptSteps
  <1>8. QED
    BY <1>5, <1>6, <1>7

\* FlattenSeq joins the sequences from the first to the last.
Joins(seqs, F) ==
  /\ F[1] = seqs[1] /\ FlattenSeq(seqs) = F[Len(seqs)]
  /\ \A i \in 2 .. Len(seqs) : F[i] = F[i - 1] \o seqs[i]

\* FlattenSeq over the first n of seqs.
JoinedUpTo(seqs, g, n) ==
  g = [i \in 1 .. n |-> IF i = 1 THEN seqs[i] ELSE g[i - 1] \o seqs[i]]

\* It exists, whatever is joined.
LEMMA JoinedExists ==
  ASSUME NEW seqs
  PROVE  \A n \in Nat : \E g : JoinedUpTo(seqs, g, n)
  <1> DEFINE T == {n \in Nat : \E g : JoinedUpTo(seqs, g, n)}
  <1>1. 0 \in T
    <2> DEFINE g == [i \in 1 .. 0 |-> << >>]
    <2>1. JoinedUpTo(seqs, g, 0)
      BY DEF JoinedUpTo
    <2>2. QED
      BY <2>1
  <1>2. ASSUME NEW n \in Nat, n \in T PROVE n + 1 \in T
    <2>1. PICK g : JoinedUpTo(seqs, g, n)
      BY <1>2
    <2> DEFINE h == [i \in 1 .. n + 1 |->
                       IF i = 1 THEN seqs[i]
                       ELSE IF i = n + 1 THEN g[n] \o seqs[i] ELSE g[i]]
    <2>2. ASSUME NEW i \in 1 .. n + 1
          PROVE  h[i] = IF i = 1 THEN seqs[i] ELSE h[i - 1] \o seqs[i]
      <3>1. \A j \in 1 .. n : h[j] = g[j]
        BY <2>1 DEF JoinedUpTo
      <3>2. CASE i = n + 1 /\ i # 1
        <4>1. h[i] = g[n] \o seqs[i]
          BY <3>2
        <4>2. i - 1 = n /\ n \in 1 .. n
          BY <3>2
        <4> HIDE DEF h
        <4>3. QED
          BY <3>1, <3>2, <4>1, <4>2
      <3>3. CASE i # n + 1 /\ i # 1
        <4>1. i \in 1 .. n /\ i - 1 \in 1 .. n
          BY <3>3
        <4>2. g[i] = g[i - 1] \o seqs[i]
          BY <2>1, <3>3, <4>1 DEF JoinedUpTo
        <4>3. QED
          BY <3>1, <3>3, <4>1, <4>2
      <3>4. CASE i = 1
        BY <3>4
      <3>5. QED
        BY <3>2, <3>3, <3>4
    <2>3. h = [i \in 1 .. n + 1 |-> h[i]]
      OBVIOUS
    <2> HIDE DEF h
    <2>4. JoinedUpTo(seqs, h, n + 1)
      BY <2>2, <2>3 DEF JoinedUpTo
    <2>5. QED
      BY <2>4
  <1> HIDE DEF T
  <1>3. Nat \subseteq T
    BY <1>1, <1>2, EveryNatural
  <1>4. QED
    BY <1>3 DEF T

\* FlattenSeq takes these steps.
LEMMA FlattenJoins ==
  ASSUME NEW S, NEW seqs \in Seq(S), seqs # << >>
  PROVE  \E F : Joins(seqs, F)
  <1> DEFINE n == Len(seqs)
             IsJoin(g) == g = [i \in 1 .. Len(seqs) |->
                                 IF i = 1 THEN seqs[i] ELSE g[i - 1] \o seqs[i]]
             F == CHOOSE g : IsJoin(g)
  <1>1. n \in Nat /\ n # 0
    OBVIOUS
  <1>2. FlattenSeq(seqs) = F[Len(seqs)]
    BY <1>1 DEF FlattenSeq
  <1>3. IsJoin(F)
    <2>1. \E g : IsJoin(g)
      BY <1>1, JoinedExists DEF JoinedUpTo
    <2> HIDE DEF IsJoin
    <2>2. QED
      BY <2>1
  <1> HIDE DEF F
  <1>4. 1 \in 1 .. Len(seqs) /\ \A i \in 2 .. Len(seqs) : i \in 1 .. Len(seqs) /\ i # 1
    BY <1>1
  <1>5. QED
    BY <1>2, <1>3, <1>4 DEF Joins

\* Paired transcripts one behind the other are paired.
LEMMA FlattenIsPaired ==
  ASSUME NEW seqs \in Seq(Seq(Messages)), seqs # << >>,
         \A i \in 1 .. Len(seqs) : Paired(seqs[i])
  PROVE  FlattenSeq(seqs) \in Seq(Messages) /\ Paired(FlattenSeq(seqs))
  <1>1. PICK F : Joins(seqs, F)
    BY FlattenJoins
  <1> DEFINE Sound(n) == F[n] \in Seq(Messages) /\ Paired(F[n])
             T == {n \in Nat : n \in 1 .. Len(seqs) => Sound(n)}
  <1>2. 0 \in T
    OBVIOUS
  <1>3. ASSUME NEW n \in Nat, n \in T PROVE n + 1 \in T
    <2>1. SUFFICES ASSUME n + 1 \in 1 .. Len(seqs) PROVE Sound(n + 1)
      OBVIOUS
    <2>2. seqs[n + 1] \in Seq(Messages) /\ Paired(seqs[n + 1])
      BY <2>1
    <2>3. CASE n = 0
      BY <1>1, <2>2, <2>3 DEF Joins
    <2>4. CASE n # 0
      <3>1. n \in 1 .. Len(seqs) /\ n + 1 \in 2 .. Len(seqs) /\ (n + 1) - 1 = n
        BY <2>1, <2>4
      <3>2. Sound(n) /\ F[n + 1] = F[n] \o seqs[n + 1]
        BY <1>1, <1>3, <3>1 DEF Joins
      <3>3. QED
        BY <2>2, <3>2, PairedConcat
    <2>5. QED
      BY <2>3, <2>4
  <1>4. Len(seqs) \in Nat /\ Len(seqs) \in 1 .. Len(seqs)
    OBVIOUS
  <1>5. Len(seqs) \in T
    <2> HIDE DEF T
    <2>1. QED
      BY <1>2, <1>3, <1>4, EveryNatural
  <1>6. QED
    BY <1>1, <1>4, <1>5 DEF Joins

-----------------------------------------------------------------------------
(* Units of a paired transcript.                                           *)

Assistants(t) == {i \in DOMAIN t : t[i].role = "assistant"}

\* The message behind a call answers it.
LEMMA CallIsAnswered ==
  ASSUME NEW t \in Seq(Messages), Paired(t), NEW i \in 1 .. Len(t), CallsAt(t, i)
  PROVE  i + 1 \in 1 .. Len(t) /\ t[i + 1].role = "tool" /\ t[i + 1].ids = t[i].ids
  <1>1. i + 1 \in 1 .. Len(t) /\ t[i + 1] = [role |-> "tool", ids |-> t[i].ids]
    BY PairedAt
  <1>2. QED
    BY <1>1

\* In a paired transcript a unit is an assistant message with the results of its calls.
LEMMA UnitIsExchange ==
  ASSUME NEW t \in Seq(Messages), Paired(t), NEW i \in Assistants(t)
  PROVE  /\ Unit(t, i) = IF t[i].ids = {} THEN {i} ELSE {i, i + 1}
         /\ Unit(t, i) \subseteq DOMAIN t /\ Complete(t, i)
  <1>1. /\ i \in 1 .. Len(t) /\ DOMAIN t = 1 .. Len(t) /\ Len(t) \in Nat /\ i \in Nat
        /\ t[i].role = "assistant" /\ Unit(t, i) = {i} \cup Answering(t, i)
    BY DEF Assistants, Unit
  <1>2. ASSUME NEW j \in Answering(t, i)
        PROVE  /\ j \in i + 1 .. Len(t) /\ t[i + 1].ids \cap t[i].ids # {}
    BY <1>1 DEF Answering
  <1>3. CASE t[i].ids = {}
    <2>1. Answering(t, i) = {}
      BY <1>2, <1>3
    <2>2. QED
      BY <1>1, <1>3, <2>1 DEF Complete
  <1>4. CASE t[i].ids # {}
    <2>1. /\ i + 1 \in 1 .. Len(t) /\ t[i + 1].role = "tool" /\ t[i + 1].ids = t[i].ids
      <3>1. CallsAt(t, i)
        BY <1>1, <1>4 DEF CallsAt
      <3>2. QED
        BY <1>1, <3>1, CallIsAnswered
    <2>2. i + 1 \in Answering(t, i)
      <3>1. ASSUME NEW k \in i + 1 .. i + 1
            PROVE  /\ t[k].role = "tool" /\ t[k].ids \cap t[i].ids # {}
                   /\ ~ t[i].ids \subseteq UNION {t[l].ids : l \in i + 1 .. k - 1}
        <4>1. k = i + 1 /\ (i + 1 .. k - 1) = {}
          BY <1>1
        <4>2. UNION {t[l].ids : l \in i + 1 .. k - 1} = {}
          BY <4>1
        <4>3. QED
          BY <1>4, <2>1, <4>1, <4>2
      <3>2. QED
        BY <1>1, <2>1, <3>1 DEF Answering
    <2>3. ASSUME NEW j \in Answering(t, i), j # i + 1 PROVE FALSE
      <3>1. i + 2 \in i + 1 .. j
        BY <1>1, <1>2, <2>3
      <3>2. ~ t[i].ids \subseteq UNION {t[l].ids : l \in i + 1 .. (i + 2) - 1}
        BY <3>1 DEF Answering
      <3>3. i + 1 \in i + 1 .. (i + 2) - 1
        BY <1>1
      <3>4. t[i + 1].ids \subseteq UNION {t[l].ids : l \in i + 1 .. (i + 2) - 1}
        BY <3>3
      <3>5. QED
        BY <2>1, <3>2, <3>4
    <2>4. Answering(t, i) = {i + 1}
      BY <2>2, <2>3
    <2>5. Complete(t, i)
      BY <1>1, <2>1, <2>4 DEF Complete
    <2>6. QED
      BY <1>1, <1>4, <2>1, <2>4, <2>5
  <1>5. QED
    BY <1>3, <1>4

\* ... and no unit starts with anything else.
LEMMA StartsAreAssistants ==
  ASSUME NEW t \in Seq(Messages), Paired(t)
  PROVE  UnitStarts(t) = Assistants(t)
  <1>1. ASSUME NEW i \in DOMAIN t, t[i].role = "tool"
        PROVE  \E j \in Assistants(t) : i \in Answering(t, j)
    <2>1. i \in 1 .. Len(t) /\ DOMAIN t = 1 .. Len(t)
      OBVIOUS
    <2>2. i - 1 \in 1 .. Len(t) /\ CallsAt(t, i - 1)
      BY <1>1, <2>1, PairedAt
    <2>3. i - 1 \in Assistants(t) /\ t[i - 1].ids # {} /\ (i - 1) + 1 = i
      BY <2>1, <2>2 DEF CallsAt, Assistants
    <2>4. Unit(t, i - 1) = {i - 1, i} /\ i # i - 1
      BY <2>1, <2>3, UnitIsExchange
    <2>5. i \in Answering(t, i - 1)
      BY <2>3, <2>4 DEF Unit, Assistants
    <2>6. QED
      BY <2>3, <2>5
  <1>2. QED
    BY <1>1 DEF UnitStarts, Assistants

\* A call and its results are in the same unit.
LEMMA UnitKeepsPairs ==
  ASSUME NEW t \in Seq(Messages), Paired(t), NEW u \in Assistants(t)
  PROVE  KeepsPairs(t, Unit(t, u))
  <1> SUFFICES ASSUME NEW i \in DOMAIN t, CallsAt(t, i)
               PROVE  i \in Unit(t, u) <=> i + 1 \in Unit(t, u)
    BY DEF KeepsPairs
  <1>1. /\ i \in 1 .. Len(t) /\ DOMAIN t = 1 .. Len(t) /\ u \in 1 .. Len(t) /\ Len(t) \in Nat
    BY DEF Assistants
  <1>2. /\ i + 1 \in 1 .. Len(t) /\ t[i + 1].role = "tool" /\ t[i].role = "assistant"
        /\ t[i].ids # {} /\ t[u].role = "assistant"
    <2>1. i + 1 \in 1 .. Len(t) /\ t[i + 1].role = "tool"
      BY <1>1, CallIsAnswered
    <2>2. QED
      BY <2>1 DEF CallsAt, Assistants
  <1>3. Unit(t, u) = IF t[u].ids = {} THEN {u} ELSE {u, u + 1}
    BY UnitIsExchange
  <1>4. t[u].ids # {} => t[u + 1].role = "tool"
    <2>1. t[u].ids # {} => CallsAt(t, u)
      BY <1>2 DEF CallsAt
    <2>2. QED
      BY <1>1, <2>1, CallIsAnswered
  <1>5. i + 1 # u /\ (t[u].ids # {} => i # u + 1) /\ (i + 1 = u + 1 <=> i = u)
    BY <1>1, <1>2, <1>4
  <1>6. QED
    BY <1>2, <1>3, <1>5

\* Leaving units out leaves whole exchanges, and what is protected.
LEMMA WithoutKeepsPairs ==
  ASSUME NEW t \in Seq(Messages), Paired(t), NEW protected, NEW done, KeepsPairs(t, done),
         NEW cut
  PROVE  LET S == Without(t, protected, done, cut) IN
           /\ S \subseteq DOMAIN t \ done /\ KeepsPairs(t, S)
           /\ \A i \in DOMAIN t : i \in protected /\ i \notin done => i \in S
  <1> DEFINE R == {s \in Removable(t, protected) : s <= cut}
             Gone == UNION {Unit(t, i) : i \in R}
             S == (DOMAIN t \ done) \ Gone
  <1>1. Without(t, protected, done, cut) = S
    BY DEF Without
  <1>2. \A u \in R : u \in Assistants(t) /\ Unit(t, u) \cap protected = {}
    BY StartsAreAssistants DEF Removable
  <1> HIDE DEF R
  <1>3. Gone \cap protected = {}
    BY <1>2
  <1>4. ASSUME NEW i \in DOMAIN t, CallsAt(t, i)
        PROVE  i \in S <=> i + 1 \in S
    <2>1. \A u \in R : i \in Unit(t, u) <=> i + 1 \in Unit(t, u)
      BY <1>2, <1>4, UnitKeepsPairs DEF KeepsPairs
    <2>2. i \in Gone <=> i + 1 \in Gone
      BY <2>1
    <2>3. i + 1 \in DOMAIN t
      <3>1. DOMAIN t = 1 .. Len(t)
        OBVIOUS
      <3>2. QED
        BY <1>4, <3>1, CallIsAnswered
    <2>4. i \in done <=> i + 1 \in done
      BY <1>4 DEF KeepsPairs
    <2> HIDE DEF Gone
    <2>5. QED
      BY <2>2, <2>3, <2>4
  <1>5. KeepsPairs(t, S)
    BY <1>4 DEF KeepsPairs
  <1> HIDE DEF Gone
  <1>6. QED
    BY <1>1, <1>3, <1>5

-----------------------------------------------------------------------------
(* What a request keeps.                                                   *)

\* i is the last assistant message of t.
Latest(t, i) == i \in Assistants(t) /\ \A j \in Assistants(t) : j <= i

\* o leaves out whole exchanges of t, no message of the user, and not the latest exchange.
Omits(t, o) ==
  /\ o \subseteq DOMAIN t /\ KeepsPairs(t, o)
  /\ \A i \in DOMAIN t : t[i].role = "user" \/ Latest(t, i) => i \notin o

\* S are the positions a request keeps of t.
Keeps(t, S) == S \subseteq DOMAIN t /\ KeepsPairs(t, S) /\ Omits(t, DOMAIN t \ S)

\* Whatever is left out next, what has to stay is kept.
LEMMA WithoutKeeps ==
  ASSUME NEW t \in Seq(Messages), Paired(t), NEW o, Omits(t, o), NEW cut
  PROVE  Keeps(t, Without(t, CurrentProtected(t), o, cut))
  <1> DEFINE S == Without(t, CurrentProtected(t), o, cut)
  <1>1. /\ S \subseteq DOMAIN t \ o /\ KeepsPairs(t, S)
        /\ \A i \in DOMAIN t : i \in CurrentProtected(t) /\ i \notin o => i \in S
    BY WithoutKeepsPairs DEF Omits
  <1> HIDE DEF S
  <1>2. ASSUME NEW i \in DOMAIN t, t[i].role = "user" PROVE i \in CurrentProtected(t)
    BY <1>2 DEF CurrentProtected, AlwaysProtected
  <1>3. ASSUME NEW i \in DOMAIN t, Latest(t, i) PROVE i \in CurrentProtected(t)
    <2>1. UnitStarts(t) = Assistants(t) /\ i \in Assistants(t) /\ Assistants(t) # {}
      BY <1>3, StartsAreAssistants DEF Latest
    <2>2. Len(t) \in Nat /\ Assistants(t) \in SUBSET (1 .. Len(t))
      BY DEF Assistants
    <2>3. Max(Assistants(t)) \in Assistants(t) /\ \A j \in Assistants(t) : Max(Assistants(t)) >= j
      BY <2>1, <2>2, GreatestPosition
    <2>4. Max(Assistants(t)) = i
      BY <1>3, <2>2, <2>3 DEF Latest
    <2>5. i \in Unit(t, i)
      BY DEF Unit
    <2>6. QED
      BY <2>1, <2>4, <2>5 DEF CurrentProtected, UnitOfLatest
  <1>4. \A i \in DOMAIN t : t[i].role = "user" \/ Latest(t, i) => i \in S
    BY <1>1, <1>2, <1>3 DEF Omits
  <1>5. KeepsPairs(t, DOMAIN t \ S)
    <2>1. DOMAIN t = 1 .. Len(t)
      OBVIOUS
    <2>2. \A i \in DOMAIN t : CallsAt(t, i) => i + 1 \in DOMAIN t
      BY <2>1, CallIsAnswered
    <2>3. QED
      BY <1>1, <2>2 DEF KeepsPairs
  <1>6. Keeps(t, S)
    BY <1>1, <1>4, <1>5 DEF Keeps, Omits
  <1>7. QED
    BY <1>6 DEF S

\* So it is with the units that are left out until the turn fits, whichever they are.
LEMMA KeptCurrentKeeps ==
  ASSUME Whole(transcript), Paired(transcript), Omits(transcript, omitted)
  PROVE  Keeps(transcript, KeptCurrent)
  <1>1. \E cut : KeptCurrent = Without(transcript, CurrentProtected(transcript), omitted, cut)
    BY DEF KeptCurrent
  <1>2. transcript \in Seq(Messages)
    BY DEF Whole
  <1>3. QED
    BY <1>1, <1>2, WithoutKeeps

\* Earlier turns are given as whole exchanges that fit, and only beside a whole turn.
LEMMA HistoryFits ==
  ASSUME NEW current \in Seq(Messages), Fits(current)
  PROVE  LET history == SelectedHistory(current) IN
           /\ history \in Seq(Messages) /\ Paired(history) /\ Fits(history \o current)
           /\ history # << >> => Len(current) >= Len(transcript)
  <1> DEFINE from(k) == FlattenSeq(SubSeq(History, k, Len(History)))
             starts == {k \in DOMAIN History :
                          \A j \in k .. Len(History) : Fits(from(j) \o current)}
             latest == Last(History)
             protected == RecentHistoryProtected(latest)
             partial(cut) == Kept(latest, Without(latest, protected, {}, cut))
             cuts == {cut \in Removable(latest, protected) : Fits(partial(cut) \o current)}
             Good(h) == h \in Seq(Messages) /\ Paired(h) /\ Fits(h \o current)
  <1>1. SelectedHistory(current) =
          IF Len(current) < Len(transcript) \/ History = << >> THEN << >>
          ELSE IF starts # {} THEN from(Min(starts))
          ELSE IF cuts # {} THEN partial(Min(cuts))
          ELSE << >>
    BY DEF SelectedHistory
  <1>2. /\ History \in Seq(Seq(Messages)) /\ Len(History) \in Nat
        /\ DOMAIN History = 1 .. Len(History)
        /\ \A i \in 1 .. Len(History) : History[i] \in Seq(Messages) /\ Paired(History[i])
    BY HistoryAssumption DEF Range
  <1>3. Good(<< >>)
    <2>1. << >> \o current = current /\ << >> \in Seq(Messages)
      OBVIOUS
    <2>2. Paired(<< >>)
      BY DEF Paired
    <2>3. QED
      BY <2>1, <2>2
  <1>4. ASSUME starts # {} PROVE Good(from(Min(starts)))
    <2>1. starts \in SUBSET Nat /\ starts \subseteq 1 .. Len(History)
      BY <1>2
    <2>2. Min(starts) \in starts
      <3> HIDE DEF starts
      <3>1. QED
        BY <1>4, <2>1, LeastPosition
    <2> DEFINE k == Min(starts)
               turns == SubSeq(History, k, Len(History))
    <2>3. k \in 1 .. Len(History) /\ \A j \in k .. Len(History) : Fits(from(j) \o current)
      BY <1>2, <2>2
    <2> HIDE DEF starts, k
    <2>4. k \in k .. Len(History)
      BY <1>2, <2>3
    <2>5. /\ turns \in Seq(Seq(Messages)) /\ Len(turns) = Len(History) - k + 1 /\ turns # << >>
          /\ \A i \in 1 .. Len(turns) :
               turns[i] = History[k + i - 1] /\ k + i - 1 \in 1 .. Len(History)
      <3>1. turns \in Seq(Seq(Messages)) /\ Len(turns) = Len(History) - k + 1
        BY <1>2, <2>3
      <3>2. \A i \in 1 .. Len(turns) : k + i - 1 \in 1 .. Len(History)
        BY <1>2, <2>3, <3>1
      <3>3. \A i \in 1 .. Len(turns) : turns[i] = History[k + i - 1]
        BY <1>2, <2>3
      <3>4. turns # << >>
        <4>1. Len(turns) # 0
          BY <1>2, <2>3, <3>1
        <4> HIDE DEF turns
        <4>2. QED
          BY <4>1
      <3>5. QED
        BY <3>1, <3>2, <3>3, <3>4
    <2>6. \A i \in 1 .. Len(turns) : Paired(turns[i])
      BY <1>2, <2>5
    <2> HIDE DEF turns
    <2>7. FlattenSeq(turns) \in Seq(Messages) /\ Paired(FlattenSeq(turns))
      BY <2>5, <2>6, FlattenIsPaired
    <2>8. QED
      BY <2>3, <2>4, <2>7 DEF turns, k
  <1>5. ASSUME History # << >>, cuts # {} PROVE Good(partial(Min(cuts)))
    <2>1. latest \in Seq(Messages) /\ Paired(latest)
      <3>1. Len(History) \in 1 .. Len(History)
        BY <1>2, <1>5
      <3>2. QED
        BY <1>2, <3>1 DEF Last
    <2>2. cuts \in SUBSET Nat
      <3>1. Removable(latest, protected) \subseteq DOMAIN latest
        BY DEF Removable, UnitStarts
      <3>2. DOMAIN latest \subseteq Nat
        BY <2>1
      <3>3. QED
        BY <3>1, <3>2
    <2>3. Min(cuts) \in cuts
      <3> HIDE DEF cuts
      <3>1. QED
        BY <1>5, <2>2, LeastPosition
    <2> DEFINE S == Without(latest, protected, {}, Min(cuts))
    <2>4. Fits(Kept(latest, S) \o current)
      BY <2>3
    <2>5. KeepsPairs(latest, {})
      BY DEF KeepsPairs
    <2> HIDE DEF cuts, latest, protected
    <2>6. KeepsPairs(latest, S)
      BY <2>1, <2>5, WithoutKeepsPairs
    <2> HIDE DEF S
    <2>7. Kept(latest, S) \in Seq(Messages) /\ Paired(Kept(latest, S))
      BY <2>1, <2>6, KeptIsPaired
    <2>8. QED
      BY <2>4, <2>7 DEF S
  <1>6. Len(current) \in Nat /\ (Len(current) < Len(transcript) => SelectedHistory(current) = << >>)
    BY <1>1
  <1> HIDE DEF starts, cuts, from, partial, Good
  <1>7. Good(SelectedHistory(current))
    BY <1>1, <1>3, <1>4, <1>5
  <1>8. QED
    BY <1>6, <1>7 DEF Good

-----------------------------------------------------------------------------
(* How the requests of a turn follow each other.                           *)

\* What a request leaves out of the turn, while its exchanges go on.
OmitsExchanges ==
  pc \in Requests \cup CallPcs => Omits(transcript, omitted)

RequestInduct == OmitsExchanges /\ RequestKeepsExchanges

\* A new message of the assistant is the latest, and what was left out before stays left out.
LEMMA OmitsAppended ==
  ASSUME NEW t \in Seq(Messages), NEW o, Omits(t, o), NEW m \in Messages, m.role = "assistant"
  PROVE  Omits(Append(t, m), o)
  <1> DEFINE u == Append(t, m)
  <1>1. /\ Len(t) \in Nat /\ DOMAIN t = 1 .. Len(t) /\ DOMAIN u = 1 .. Len(t) + 1
        /\ u[Len(t) + 1] = m /\ \A i \in 1 .. Len(t) : u[i] = t[i]
    BY Appended
  <1>2. o \subseteq 1 .. Len(t)
    BY <1>1 DEF Omits
  <1> HIDE DEF u
  <1>3. \A i \in 1 .. Len(t) : ~ Latest(u, i)
    BY <1>1 DEF Latest, Assistants
  <1>4. ASSUME NEW i \in 1 .. Len(t), CallsAt(t, i)
        PROVE  i \in o <=> i + 1 \in o
    BY <1>1, <1>4 DEF Omits, KeepsPairs
  <1>5. KeepsPairs(u, o)
    <2>1. Len(t) + 1 \notin o /\ (Len(t) + 1) + 1 \notin o
      BY <1>1, <1>2
    <2>2. \A i \in 1 .. Len(t) : CallsAt(u, i) => CallsAt(t, i)
      BY <1>1 DEF CallsAt
    <2>3. QED
      BY <1>1, <1>4, <2>1, <2>2 DEF KeepsPairs
  <1>6. \A i \in DOMAIN u : u[i].role = "user" \/ Latest(u, i) => i \notin o
    BY <1>1, <1>2, <1>3 DEF Omits
  <1>7. QED
    BY <1>1, <1>2, <1>5, <1>6 DEF Omits, u

\* So it is with a message of the user or with results, unless they answer what is left out.
LEMMA OmitsAnswered ==
  ASSUME NEW t \in Seq(Messages), NEW o, Omits(t, o), NEW m \in Messages, m.role # "assistant"
  PROVE  Omits(Append(t, m), o)
  <1> DEFINE u == Append(t, m)
  <1>1. /\ Len(t) \in Nat /\ DOMAIN t = 1 .. Len(t) /\ DOMAIN u = 1 .. Len(t) + 1
        /\ u[Len(t) + 1] = m /\ \A i \in 1 .. Len(t) : u[i] = t[i]
    BY Appended
  <1>2. o \subseteq 1 .. Len(t) /\ Len(t) + 1 \notin o
    BY <1>1 DEF Omits
  <1> HIDE DEF u
  <1>3. Assistants(u) = Assistants(t)
    BY <1>1 DEF Assistants
  <1>4. KeepsPairs(u, o)
    <2>1. \A i \in DOMAIN u : CallsAt(u, i) => i \in 1 .. Len(t) /\ CallsAt(t, i)
      BY <1>1 DEF CallsAt
    <2>2. QED
      BY <1>1, <2>1 DEF Omits, KeepsPairs
  <1>5. \A i \in DOMAIN u : u[i].role = "user" \/ Latest(u, i) => i \notin o
    BY <1>1, <1>2, <1>3 DEF Omits, Latest
  <1>6. QED
    BY <1>1, <1>2, <1>4, <1>5 DEF Omits, u

\* Steering leaves nothing out.
LEMMA OmitsSteered ==
  ASSUME NEW t \in Seq(Messages), NEW o, Omits(t, o)
  PROVE  Omits(Steered(t), o)
  <1>1. User \in Messages /\ User.role # "assistant"
    BY DEF User, Messages
  <1>2. QED
    BY <1>1, OmitsAnswered DEF Steered

\* The loop is over, or has not begun: nothing is said of a request.
LEMMA NoRequest ==
  ASSUME pc' \notin Requests \cup CallPcs
  PROVE  RequestInduct'
  BY DEF RequestInduct, OmitsExchanges, RequestKeepsExchanges, Requests

\* Where the next step comes from, nothing is requested yet.
LEMMA StepOmits ==
  ASSUME pc' \notin {"observe", "generate"},
         pc' \in Requests \cup CallPcs => Omits(transcript', omitted')
  PROVE  RequestInduct'
  BY DEF RequestInduct, OmitsExchanges, RequestKeepsExchanges

\* A complete step that is followed by another leaves out what was left out before.
LEMMA NextRequestOmits ==
  ASSUME NEW t \in Seq(Messages), Omits(t, omitted), NextRequest(t), omitted' = omitted
  PROVE  RequestInduct'
  <1>1. transcript' = Steered(t) /\ Omits(Steered(t), omitted)
    BY OmitsSteered DEF NextRequest
  <1>2. pc' \in {"project", "drain"}
    BY DEF NextRequest, Settle, FinishCancelled, EndLoop
  <1>3. QED
    BY <1>1, <1>2, StepOmits DEF Requests, CallPcs

\* The request is the same as long as nothing of it changes.
LEMMA SameRequest ==
  ASSUME RequestInduct, pc \in Requests \cup CallPcs,
         pc' = "generate" => pc \in {"observe", "generate"},
         pc' = "observe" => pc = "observe",
         UNCHANGED <<transcript, omitted, request, limit>>
  PROVE  RequestInduct'
  <1>1. OmitsExchanges'
    BY DEF RequestInduct, OmitsExchanges
  <1>2. RequestKeepsExchanges'
    BY DEF RequestInduct, RequestKeepsExchanges, Fits
  <1>3. QED
    BY <1>1, <1>2 DEF RequestInduct

\* A transcript without open calls is paired.
LEMMA WholeIsPaired ==
  ASSUME NEW t, Whole(t)
  PROVE  t \in Seq(Messages) /\ Paired(t)
  BY DEF Whole, ToolsAnswer, AnsweredUpTo, Paired

\* A request with what has to be in it, while the turn does not change.
LEMMA RequestMade ==
  ASSUME NEW h, NEW S, request' = [history |-> h, kept |-> S],
         UNCHANGED <<transcript, limit>>,
         Fits(h \o Kept(transcript, S)), Paired(h \o Kept(transcript, S)),
         \A i \in DOMAIN transcript : transcript[i] = User => i \in S,
         LET exchanges == {i \in DOMAIN transcript : transcript[i].role = "assistant"}
         IN  exchanges # {} => Unit(transcript, Max(exchanges)) \subseteq S,
         h # << >> => S = DOMAIN transcript
  PROVE  RequestKeepsExchanges'
  <1>1. request'.history = h /\ request'.kept = S
    OBVIOUS
  <1>2. Cost(h \o Kept(transcript, S)) <= limit'
    BY DEF Fits
  <1>3. QED
    BY <1>1, <1>2 DEF RequestKeepsExchanges, Fits

\* The request that is projected keeps the exchanges of the turn and fits.
LEMMA ProjectedRequests ==
  ASSUME TurnInduct, RequestInduct, Projected
  PROVE  RequestInduct'
  <1> DEFINE current == Kept(transcript, KeptCurrent)
             history == SelectedHistory(current)
             exchanges == {i \in DOMAIN transcript : transcript[i].role = "assistant"}
  <1>1. /\ pc = "project" /\ omitted' = DOMAIN transcript \ KeptCurrent
        /\ UNCHANGED <<transcript, limit>> /\ Fits(current)
        /\ \/ pc' = "drain"
           \/ pc' = "observe" /\ request' = [history |-> history, kept |-> KeptCurrent]
    BY DEF Projected, FinishCancelled, EndLoop
  <1>2. Whole(transcript) /\ transcript \in Seq(Messages) /\ Paired(transcript)
    BY <1>1, WholeIsPaired DEF TurnInduct, TranscriptGrows, Requests
  <1>3. Keeps(transcript, KeptCurrent)
    BY <1>1, <1>2, KeptCurrentKeeps DEF RequestInduct, OmitsExchanges, Requests
  <1>4. /\ current \in Seq(Messages) /\ Paired(current)
        /\ (\E i \in DOMAIN transcript : i \notin KeptCurrent) => Len(current) < Len(transcript)
    BY <1>2, <1>3, KeptIsPaired DEF Keeps
  <1>5. /\ history \in Seq(Messages) /\ Paired(history) /\ Fits(history \o current)
        /\ history # << >> => Len(current) >= Len(transcript)
    BY <1>1, <1>4, HistoryFits
  <1>6. Paired(history \o current)
    BY <1>4, <1>5, PairedConcat
  <1>7. history # << >> => KeptCurrent = DOMAIN transcript
    <2>1. Len(current) \in Nat /\ Len(transcript) \in Nat
      BY <1>2, <1>4
    <2>2. KeptCurrent \subseteq DOMAIN transcript
      BY <1>3 DEF Keeps
    <2> HIDE DEF current, history
    <2>3. ASSUME history # << >>, NEW i \in DOMAIN transcript, i \notin KeptCurrent PROVE FALSE
      <3>1. Len(current) < Len(transcript) /\ Len(current) >= Len(transcript)
        BY <1>4, <1>5, <2>3
      <3>2. QED
        BY <2>1, <3>1
    <2>4. QED
      BY <2>2, <2>3
  <1>8. \A i \in DOMAIN transcript : transcript[i] = User => i \in KeptCurrent
    <2>1. User.role = "user"
      BY DEF User
    <2>2. \A i \in DOMAIN transcript : transcript[i].role = "user" => i \in KeptCurrent
      BY <1>3 DEF Keeps, Omits
    <2>3. QED
      BY <2>1, <2>2
  <1>9. exchanges # {} => Unit(transcript, Max(exchanges)) \subseteq KeptCurrent
    <2>1. SUFFICES ASSUME exchanges # {}
                   PROVE  Unit(transcript, Max(exchanges)) \subseteq KeptCurrent
      OBVIOUS
    <2> DEFINE m == Max(exchanges)
    <2>2. exchanges = Assistants(transcript)
      BY DEF Assistants
    <2>3. Len(transcript) \in Nat /\ exchanges \in SUBSET (1 .. Len(transcript))
      BY <1>2
    <2>4. m \in exchanges /\ \A j \in exchanges : m >= j
      <3> HIDE DEF exchanges
      <3>1. QED
        BY <2>1, <2>3, GreatestPosition
    <2> HIDE DEF m
    <2>5. Latest(transcript, m) /\ m \in DOMAIN transcript /\ m \in Assistants(transcript)
      BY <2>2, <2>3, <2>4 DEF Latest
    <2>6. m \in KeptCurrent
      BY <1>3, <2>5 DEF Keeps, Omits
    <2>7. transcript[m].ids # {} => m + 1 \in KeptCurrent
      BY <1>3, <2>5, <2>6 DEF Keeps, KeepsPairs, CallsAt, Assistants
    <2>8. Unit(transcript, m) = IF transcript[m].ids = {} THEN {m} ELSE {m, m + 1}
      BY <1>2, <2>5, UnitIsExchange
    <2>9. Unit(transcript, m) \subseteq KeptCurrent
      BY <2>6, <2>7, <2>8
    <2>10. QED
      BY <2>9 DEF m
  <1> HIDE DEF current, history, exchanges
  <1>10. CASE pc' = "drain"
    BY <1>10, NoRequest DEF Requests, CallPcs
  <1>11. CASE pc' = "observe" /\ request' = [history |-> history, kept |-> KeptCurrent]
    <2>1. Omits(transcript', omitted')
      BY <1>1, <1>3 DEF Keeps
    <2>2. RequestKeepsExchanges'
      <3>1. \E h, S : /\ h = history /\ S = KeptCurrent /\ Kept(transcript, S) = current
        BY DEF current
      <3>2. PICK h, S : h = history /\ S = KeptCurrent /\ Kept(transcript, S) = current
        BY <3>1
      <3>3. request' = [history |-> h, kept |-> S] /\ UNCHANGED <<transcript, limit>>
        BY <1>1, <1>11, <3>2
      <3>4. /\ Fits(h \o Kept(transcript, S)) /\ Paired(h \o Kept(transcript, S))
            /\ h # << >> => S = DOMAIN transcript
        BY <1>5, <1>6, <1>7, <3>2
      <3>5. /\ \A i \in DOMAIN transcript : transcript[i] = User => i \in S
            /\ exchanges # {} => Unit(transcript, Max(exchanges)) \subseteq S
        BY <1>8, <1>9, <3>2
      <3>6. QED
        BY <3>3, <3>4, <3>5, RequestMade DEF exchanges
    <2>3. QED
      BY <2>1, <2>2 DEF RequestInduct, OmitsExchanges
  <1>12. QED
    BY <1>1, <1>10, <1>11

\* At the first request there is nothing to leave out.
LEMMA HooksDoneRequests ==
  ASSUME TurnInduct, HooksDone
  PROVE  RequestInduct'
  <1>1. transcript' = <<User>> /\ omitted' = omitted /\ omitted = {}
    BY DEF HooksDone, TurnInduct, TranscriptGrows, TypeOK
  <1>2. pc' \in {"over", "drain", "project"}
    BY DEF HooksDone, Crash, NextStep, FinishCancelled, Settle, EndLoop
  <1>3. DOMAIN <<User>> = {1} /\ <<User>>[1] = User /\ User.role = "user"
    BY DEF User
  <1>4. Omits(<<User>>, {})
    BY <1>3 DEF Omits, KeepsPairs, CallsAt
  <1>5. QED
    BY <1>1, <1>2, <1>4, StepOmits

\* A text of the model is the latest message of the assistant.
LEMMA ModelFinalRequests ==
  ASSUME TurnInduct, RequestInduct, ModelFinal
  PROVE  RequestInduct'
  <1>1. /\ pc = "generate" /\ Whole(transcript) /\ Omits(transcript, omitted)
        /\ omitted' = omitted
    BY DEF ModelFinal, TurnInduct, TranscriptGrows, RequestInduct, OmitsExchanges, Requests
  <1>2. transcript \in Seq(Messages) /\ Text \in Messages /\ Text.role = "assistant"
    BY <1>1 DEF Whole, Text, Messages
  <1>3. /\ Append(transcript, Text) \in Seq(Messages)
        /\ Omits(Append(transcript, Text), omitted)
    BY <1>1, <1>2, OmitsAppended, Appended
  <1>4. CASE NextRequest(Append(transcript, Text))
    BY <1>1, <1>3, <1>4, NextRequestOmits
  <1>5. CASE Throw \/ Settle("final")
    <2>1. pc' \in {"over", "drain"}
      BY <1>5 DEF Throw, Crash, Settle, FinishCancelled, EndLoop
    <2>2. QED
      BY <2>1, NoRequest DEF Requests, CallPcs
  <1>6. QED
    BY <1>4, <1>5 DEF ModelFinal

\* So are its calls.
LEMMA ModelCallsRequests ==
  ASSUME TurnInduct, RequestInduct, NEW n \in 1 .. MaxCalls, NEW invalid \in BOOLEAN,
         ModelCalls(n, invalid)
  PROVE  RequestInduct'
  <1> DEFINE ids == Ids(steps, n)
             calls == [role |-> "assistant", ids |-> ids]
             results == [calls EXCEPT !.role = "tool"]
             asked == Append(transcript, calls)
  <1>1. /\ pc = "generate" /\ Whole(transcript) /\ Omits(transcript, omitted)
        /\ omitted' = omitted /\ transcript \in Seq(Messages) /\ steps \in Nat
    BY DEF ModelCalls, TurnInduct, TranscriptGrows, RequestInduct, OmitsExchanges, Requests,
       Whole, TypeOK
  <1>2. /\ calls \in Messages /\ calls.role = "assistant"
        /\ results \in Messages /\ results.role = "tool"
    <2>1. ids \in SUBSET (Nat \X Nat)
      BY <1>1, IdsAreIds
    <2> HIDE DEF ids
    <2>2. QED
      BY <2>1 DEF Messages
  <1> HIDE DEF calls, results
  <1>3. asked \in Seq(Messages) /\ Omits(asked, omitted)
    BY <1>1, <1>2, OmitsAppended, Appended
  <1> HIDE DEF asked
  <1>4. Append(asked, results) \in Seq(Messages) /\ Omits(Append(asked, results), omitted)
    BY <1>2, <1>3, OmitsAnswered, Appended
  <1>5. CASE transcript' = asked /\ Throw
    <2>1. pc' \in {"over", "drain"}
      BY <1>5 DEF Throw, Crash
    <2>2. QED
      BY <2>1, NoRequest DEF Requests, CallPcs
  <1>6. CASE transcript' = asked /\ pc' = "beforeTool"
    BY <1>1, <1>3, <1>6, StepOmits
  <1>7. CASE NextRequest(Append(asked, results))
    BY <1>1, <1>4, <1>7, NextRequestOmits
  <1>8. QED
    BY <1>5, <1>6, <1>7 DEF ModelCalls, asked, calls, results

\* The results stay with the calls they answer.
LEMMA CallDoneRequests ==
  ASSUME TurnInduct, RequestInduct, pc \in CallPcs, CallDone(FALSE), CallUnchanged
  PROVE  RequestInduct'
  <1> DEFINE ids == Ids(steps, batch.size)
             results == [role |-> "tool", ids |-> ids]
             answered == Append(transcript, results)
  <1>1. /\ Omits(transcript, omitted) /\ omitted' = omitted
        /\ transcript \in Seq(Messages) /\ steps \in Nat /\ batch.size \in Nat
    BY DEF CallUnchanged, TurnInduct, RequestInduct, OmitsExchanges, TypeOK, Shapes
  <1>2. results \in Messages /\ results.role = "tool"
    <2>1. ids \in SUBSET (Nat \X Nat)
      BY <1>1, IdsAreIds
    <2> HIDE DEF ids
    <2>2. QED
      BY <2>1 DEF Messages
  <1> HIDE DEF results
  <1>3. answered \in Seq(Messages) /\ Omits(answered, omitted)
    BY <1>1, <1>2, OmitsAnswered, Appended
  <1>4. CASE NextRequest(answered)
    BY <1>1, <1>3, <1>4, NextRequestOmits
  <1>5. CASE pc' = "beforeTool" /\ UNCHANGED transcript
    BY <1>1, <1>5, StepOmits
  <1>6. CASE FinishCancelled \/ Settle("tool_terminal")
    <2>1. pc' = "drain"
      BY <1>6 DEF Settle, FinishCancelled, EndLoop
    <2>2. QED
      BY <2>1, NoRequest DEF Requests, CallPcs
  <1>7. QED
    BY <1>4, <1>5, <1>6 DEF CallDone, results

\* The steps of a call before its result.
LEMMA CallRequests ==
  ASSUME TurnInduct, RequestInduct,
         \/ \E failed \in BOOLEAN : BeforeToolDone(failed)
         \/ \E terminal \in BOOLEAN : Dispatched(terminal)
         \/ AfterToolDone
  PROVE  RequestInduct'
  <1>1. /\ pc \in CallPcs /\ CallUnchanged /\ Omits(transcript, omitted)
        /\ UNCHANGED <<omitted, request, limit>>
    BY DEF BeforeToolDone, Dispatched, AfterToolDone, CallUnchanged, CallPcs, RequestInduct,
       OmitsExchanges
  <1>2. \/ CallDone(FALSE)
        \/ Throw \/ FinishCancelled
        \/ pc' \in {"dispatch", "afterTool"} /\ UNCHANGED transcript
    BY DEF BeforeToolDone, Dispatched, AfterToolDone
  <1>3. CASE CallDone(FALSE)
    BY <1>1, <1>3, CallDoneRequests
  <1>4. CASE Throw \/ FinishCancelled
    <2>1. pc' \in {"over", "drain"}
      BY <1>4 DEF Throw, Crash, FinishCancelled, EndLoop
    <2>2. QED
      BY <2>1, NoRequest DEF Requests, CallPcs
  <1>5. CASE pc' \in {"dispatch", "afterTool"} /\ UNCHANGED transcript
    BY <1>1, <1>5, StepOmits
  <1>6. QED
    BY <1>2, <1>3, <1>4, <1>5

\* Every step keeps what is left out of the turn and what is requested.
LEMMA RequestsKept == TurnInduct /\ RequestInduct /\ [Next]_vars => RequestInduct'
  <1> SUFFICES ASSUME TurnInduct, RequestInduct, [Next]_vars
               PROVE  RequestInduct'
    OBVIOUS
  <1>1. CASE HooksDone
    BY <1>1, HooksDoneRequests
  <1>2. CASE Projected
    BY <1>2, ProjectedRequests
  <1>3. CASE Generate
    <2>1. CASE ModelFinal
      BY <2>1, ModelFinalRequests
    <2>2. CASE ModelFails
      <3>1. pc' = "drain"
        BY <2>2 DEF ModelFails, Settle, FinishCancelled, EndLoop
      <3>2. QED
        BY <3>1, NoRequest DEF Requests, CallPcs
    <2>3. CASE \E n \in 1 .. MaxCalls, invalid \in BOOLEAN : ModelCalls(n, invalid)
      BY <2>3, ModelCallsRequests
    <2>4. QED
      BY <1>3, <2>1, <2>2, <2>3 DEF Generate
  <1>4. CASE Tool
    BY <1>4, CallRequests DEF Tool
  <1>5. CASE Observed
    <2>1. /\ pc = "observe" /\ UNCHANGED <<transcript, omitted, request, limit>>
          /\ pc' \in {"drain", "generate"}
      BY <1>5 DEF Observed, loopVars, Settle, FinishCancelled, EndLoop
    <2>2. QED
      BY <2>1, SameRequest DEF Requests
  <1>6. CASE Cancel \/ Steer \/ UncaughtError \/ UNCHANGED vars
    <2>1. UNCHANGED <<pc, transcript, omitted, request, limit>>
      BY <1>6 DEF Cancel, Steer, UncaughtError, vars, loopVars
    <2>2. CASE pc \in Requests \cup CallPcs
      BY <2>1, <2>2, SameRequest
    <2>3. CASE pc \notin Requests \cup CallPcs
      BY <2>1, <2>3, NoRequest
    <2>4. QED
      BY <2>2, <2>3
  <1>7. CASE \/ Begin \/ Prepared \/ PrepareFails \/ BeforeTurnFails \/ ProjectionFails
             \/ GenerateCancelled \/ ModelCleanupFails \/ DispatchCancelled
             \/ DispatchCleanupFails \/ Drained \/ HostAccepts \/ HostSettles
             \/ AfterTurnDone \/ AfterTurnFails
    <2>1. pc' \in {"prepare", "beforeTurn", "over", "drain", "commitAck", "failureAck",
                   "afterTurn"}
      BY <1>7 DEF Begin, Prepared, PrepareFails, BeforeTurnFails, ProjectionFails,
         GenerateCancelled, ModelCleanupFails, DispatchCancelled, DispatchCleanupFails, Drained,
         HostAccepts, HostSettles, AfterTurnDone, AfterTurnFails, Throw, Crash, Settle,
         FinishCancelled, FinishCleanupFailed, EndLoop
    <2>2. QED
      BY <2>1, NoRequest DEF Requests, CallPcs
  <1>8. QED
    BY <1>1, <1>2, <1>3, <1>4, <1>5, <1>6, <1>7 DEF Next

\* However often a request is cut down to fit the model, it keeps the user's messages, the
\* steering and the latest exchange, leaves calls and results out together and fits, for any
\* limit and any earlier turns.
THEOREM RequestsKeepExchanges == Spec => []RequestKeepsExchanges
  <1>1. Init => RequestInduct
    BY DEF Init, RequestInduct, OmitsExchanges, RequestKeepsExchanges, Requests, CallPcs
  <1>2. RequestInduct => RequestKeepsExchanges
    BY DEF RequestInduct
  <1>3. QED
    BY <1>1, <1>2, RequestsKept, InvariantHolds, PTL DEF Spec

-----------------------------------------------------------------------------
(* Refinement.                                                             *)

\* The stage of the turn the Host can see.
Stage == CASE pc = "idle" -> "idle"
           [] pc \in {"commitAck", "failureAck"} -> "answered"
           [] pc = "afterTurn" -> "hooks"
           [] pc = "over" -> "over"
           [] OTHER -> "running"

\* The stages, one by one.
LEMMA Stages ==
  /\ Stage = "idle" <=> pc = "idle"
  /\ Stage = "answered" <=> pc \in {"commitAck", "failureAck"}
  /\ Stage = "hooks" <=> pc = "afterTurn"
  /\ Stage = "over" <=> pc = "over"
  /\ Stage = "running" <=> pc \notin {"idle", "commitAck", "failureAck", "afterTurn", "over"}
  BY DEF Stage

Reports == {"proposal_ready", "failure_ready", "turn_settled", "worker_error"}
Running == {"prepare"} \cup TurnPcs

\* A turn that goes on behind an error does so without its port.
ErrorsClosePort ==
  /\ pc # "over" => posted \in Seq(Reports)
  /\ pc = "idle" => posted = << >>
  /\ Contract!Reported => data = "closed" \/ pc = "over"

\* What a step posts, and what becomes of the port.
LEMMA Posts ==
  ASSUME TurnInduct, [Next]_vars
  PROVE  \/ Begin
         \/ pc \in Running /\ UncaughtError
         \/ /\ pc \in Running /\ pc' # "idle" /\ data # "closed" /\ UNCHANGED data
            /\ \E m \in {"proposal_ready", "failure_ready"} : posted' = Append(posted, m)
         \/ /\ pc' = "over"
            /\ \/ \E m \in Reports : posted' = Append(posted, m)
               \/ posted' = posted \o <<"turn_settled", "worker_error">>
         \/ (pc' = "idle" => pc = "idle") /\ (pc = "over" => pc' = "over")
              /\ UNCHANGED <<data, posted>>
  <1>1. CASE HooksDone \/ BeforeTurnFails \/ ModelFinal \/ AfterToolDone
             \/ (\E n \in 1 .. MaxCalls, invalid \in BOOLEAN : ModelCalls(n, invalid))
             \/ \E failed \in BOOLEAN : BeforeToolDone(failed)
    BY <1>1 DEF HooksDone, BeforeTurnFails, ModelFinal, AfterToolDone, ModelCalls,
       BeforeToolDone, CallDone, CallUnchanged, NextRequest, NextStep, Throw, Settle, Crash,
       FinishCancelled, EndLoop
  <1>2. CASE Projected \/ ProjectionFails \/ Observed \/ ModelFails \/ GenerateCancelled
             \/ ModelCleanupFails \/ (\E terminal \in BOOLEAN : Dispatched(terminal))
             \/ DispatchCancelled \/ DispatchCleanupFails \/ Prepared
    BY <1>2 DEF Projected, ProjectionFails, Observed, ModelFails, GenerateCancelled,
       ModelCleanupFails, Dispatched, DispatchCancelled, DispatchCleanupFails, Prepared,
       CallUnchanged, Settle, FinishCancelled, FinishCleanupFailed, EndLoop
  <1>3. CASE PrepareFails \/ AfterTurnDone \/ AfterTurnFails
    BY <1>3 DEF PrepareFails, AfterTurnDone, AfterTurnFails, Reports
  <1>4. CASE HostAccepts \/ HostSettles \/ Cancel \/ Steer \/ UNCHANGED vars
    BY <1>4 DEF HostAccepts, HostSettles, Cancel, Steer, vars, Crash, Running, TurnPcs, LoopPcs,
       TurnInduct, TypeOK
  <1>5. CASE Drained
    BY <1>5 DEF Drained, Crash, Running, TurnPcs
  <1>6. CASE UncaughtError
    BY <1>6 DEF UncaughtError, Running
  <1>7. QED
    BY <1>1, <1>2, <1>3, <1>4, <1>5, <1>6 DEF Next, Generate, Tool

\* The port stays closed.
LEMMA PortFollows ==
  ASSUME TurnInduct, ErrorsClosePort, [Next]_vars
  PROVE  ErrorsClosePort'
  <1>1. CASE Begin
    BY <1>1 DEF Begin, ErrorsClosePort, Contract!Reported
  <1>2. CASE pc \in Running /\ UncaughtError
    BY <1>2 DEF UncaughtError, ErrorsClosePort, Reports, Running, TurnPcs, LoopPcs
  <1>3. ASSUME pc \in Running, pc' # "idle", data # "closed", UNCHANGED data,
               NEW m \in {"proposal_ready", "failure_ready"}, posted' = Append(posted, m)
        PROVE  ErrorsClosePort'
    <2>1. \A i \in DOMAIN posted : posted[i] # "worker_error"
      BY <1>3 DEF ErrorsClosePort, Contract!Reported, Running, TurnPcs, LoopPcs
    <2>2. /\ posted' \in Seq(Reports) /\ DOMAIN posted = 1 .. Len(posted) /\ Len(posted) \in Nat
          /\ DOMAIN posted' = 1 .. Len(posted) + 1
          /\ \A i \in DOMAIN posted : posted'[i] = posted[i]
          /\ posted'[Len(posted) + 1] = m
      BY <1>3 DEF ErrorsClosePort, Reports, Running, TurnPcs, LoopPcs
    <2>3. \A i \in DOMAIN posted' : posted'[i] # "worker_error"
      BY <2>1, <2>2, <1>3
    <2>4. QED
      BY <1>3, <2>2, <2>3 DEF ErrorsClosePort, Contract!Reported
  <1>4. CASE /\ pc' = "over"
             /\ \/ \E m \in Reports : posted' = Append(posted, m)
                \/ posted' = posted \o <<"turn_settled", "worker_error">>
    BY <1>4 DEF ErrorsClosePort
  <1>5. CASE (pc' = "idle" => pc = "idle") /\ (pc = "over" => pc' = "over")
              /\ UNCHANGED <<data, posted>>
    BY <1>5 DEF ErrorsClosePort, Contract!Reported
  <1>6. QED
    BY <1>1, <1>2, <1>3, <1>4, <1>5, Posts

\* A turn that is aborted, refused, crashed, steered or cut down in between implements what
\* the Host relies on: one answer and one settlement, no proposal of a turn whose
\* cancellation was accepted, and no answer behind an error it has reported (scope.onerror),
\* since the port is closed by then.
THEOREM ContractImplemented == Spec => ImplementsContract
  <1>1. Init => Contract!Init
    BY DEF Init, Contract!Init
  <1>2. ASSUME TurnInduct, ErrorsClosePort, [Next]_vars
        PROVE  [Contract!Next]_(Contract!vars)
    <2> USE <1>2 DEF TurnInduct
    <2>1. CASE Begin
      <3>1. Stage = "idle" /\ Stage' = "running" /\ UNCHANGED <<posted, granted>>
        BY <2>1, Stages DEF Begin, Stage, cancelVars
      <3>2. QED
        BY <3>1 DEF Stage, Contract!Begin, Contract!Next
    <2>2. CASE Cancel
      <3>1. /\ Stage \notin {"idle", "over"} /\ UNCHANGED <<Stage, posted>> /\ granted' = TRUE
        BY <2>2 DEF Cancel, Stage, TurnPcs, LoopPcs
      <3>2. QED
        BY <3>1 DEF Stage, Contract!Cancel, Contract!Next
    <2>3. CASE PrepareFails
      <3>1. /\ Stage = "running" /\ Stage' = "over" /\ UNCHANGED granted
            /\ posted' = Append(posted, "worker_error")
        BY <2>3 DEF PrepareFails, Stage, cancelVars
      <3>2. QED
        BY <3>1 DEF Stage, Contract!Break, Contract!Next
    <2>4. CASE AfterTurnFails
      <3>1. /\ Stage = "hooks" /\ Stage' = "over" /\ UNCHANGED granted
            /\ posted' = Append(posted, "worker_error")
        BY <2>4 DEF AfterTurnFails, Stage, cancelVars
      <3>2. QED
        BY <3>1 DEF Stage, Contract!Break, Contract!Next
    <2>5. CASE AfterTurnDone
      <3>1. /\ Stage = "hooks" /\ Stage' = "over" /\ UNCHANGED granted
            /\ posted' = Append(posted, "turn_settled")
        BY <2>5 DEF AfterTurnDone, Stage, cancelVars
      <3>2. QED
        BY <3>1 DEF Stage, Contract!Settle, Contract!Next
    <2>6. CASE HostSettles
      <3>1. Stage = "answered" /\ Stage' = "hooks" /\ UNCHANGED <<posted, granted>>
        BY <2>6 DEF HostSettles, Stage, cancelVars
      <3>2. QED
        BY <3>1 DEF Stage, Contract!Acknowledge, Contract!Next
    <2>7. CASE HostAccepts /\ ~Crash
      <3>1. Stage = "answered" /\ Stage' = "hooks" /\ UNCHANGED <<posted, granted>>
        BY <2>7 DEF HostAccepts, Stage
      <3>2. QED
        BY <3>1 DEF Stage, Contract!Acknowledge, Contract!Next
    <2>8. CASE Drained /\ ~Crash
      <3>1. /\ Stage = "running" /\ Stage' = "answered" /\ UNCHANGED granted
            /\ \E m \in {"proposal_ready", "failure_ready"} :
                 posted' = Append(posted, m) /\ (m = "proposal_ready" => ~granted)
        BY <2>8 DEF Drained, Stage, CancelIsSeen
      <3>2. PICK m \in {"proposal_ready", "failure_ready"} :
              posted' = Append(posted, m) /\ (m = "proposal_ready" => ~granted)
        BY <3>1
      <3>3. ~Contract!Reported
        BY <2>8 DEF Drained, ErrorsClosePort
      <3>4. Contract!Answer(m)
        BY <3>1, <3>2, <3>3 DEF Stage, Contract!Answer
      <3>5. QED
        BY <3>4 DEF Contract!Next
    <2>9. ASSUME Crash, pc \in TurnPcs, UNCHANGED granted
          PROVE  Contract!Next
      <3>1. /\ Stage \notin {"idle", "over"} /\ Stage' = "over"
            /\ posted' = posted \o <<"turn_settled", "worker_error">>
        BY <2>9 DEF Crash, Stage, TurnPcs, LoopPcs
      <3>2. QED
        BY <2>9, <3>1 DEF Stage, Contract!Break, Contract!Next
    <2>10. ASSUME pc \notin {"idle", "over", "commitAck", "failureAck", "afterTurn"},
                  pc' \notin {"idle", "over", "commitAck", "failureAck", "afterTurn"},
                  UNCHANGED <<posted, granted>>
           PROVE  UNCHANGED Contract!vars
      <3>1. Stage = "running" /\ Stage' = "running"
        BY <2>10 DEF Stage
      <3>2. QED
        BY <2>10, <3>1 DEF Contract!vars
    <2>11. ASSUME HooksDone \/ BeforeTurnFails \/ ModelFinal \/ AfterToolDone
                  \/ (\E n \in 1 .. MaxCalls, invalid \in BOOLEAN : ModelCalls(n, invalid))
                  \/ \E failed \in BOOLEAN : BeforeToolDone(failed)
           PROVE  /\ pc \in TurnPcs \ {"commitAck", "failureAck", "afterTurn"}
                  /\ UNCHANGED granted
                  /\ \/ Crash
                     \/ /\ pc' \in {"drain", "project", "beforeTool", "dispatch"}
                        /\ UNCHANGED posted
      BY <2>11 DEF HooksDone, BeforeTurnFails, ModelFinal, AfterToolDone, ModelCalls,
         BeforeToolDone, CallDone, CallUnchanged, NextRequest, NextStep, Throw, Settle,
         FinishCancelled, EndLoop, TurnPcs, LoopPcs
    <2>12. ASSUME Projected \/ ProjectionFails \/ Observed \/ ModelFails \/ GenerateCancelled
                  \/ ModelCleanupFails \/ (\E terminal \in BOOLEAN : Dispatched(terminal))
                  \/ DispatchCancelled \/ DispatchCleanupFails \/ Prepared
           PROVE  /\ pc \in LoopPcs \cup {"prepare"} /\ UNCHANGED <<granted, posted>>
                  /\ pc' \in {"drain", "observe", "generate", "afterTool", "beforeTurn"}
      BY <2>12 DEF Projected, ProjectionFails, Observed, ModelFails, GenerateCancelled,
         ModelCleanupFails, Dispatched, DispatchCancelled, DispatchCleanupFails, Prepared,
         CallUnchanged, Settle, FinishCancelled, FinishCleanupFailed, EndLoop, LoopPcs
    <2>13. ASSUME Steer \/ UNCHANGED vars
           PROVE  UNCHANGED Contract!vars
      BY <2>13 DEF Steer, vars, cancelVars, Contract!vars
    <2>14. CASE UncaughtError
      <3>1. /\ Stage \notin {"idle", "over"} /\ UNCHANGED <<Stage, granted>>
            /\ posted' = Append(posted, "worker_error")
        BY <2>14 DEF UncaughtError, Stage, TurnPcs, LoopPcs, cancelVars
      <3>2. QED
        BY <3>1 DEF Stage, Contract!Report, Contract!Next
    <2>15. CASE HooksDone \/ BeforeTurnFails \/ ModelFinal \/ AfterToolDone
                \/ (\E n \in 1 .. MaxCalls, invalid \in BOOLEAN : ModelCalls(n, invalid))
                \/ \E failed \in BOOLEAN : BeforeToolDone(failed)
      <3>1. /\ pc \in TurnPcs \ {"commitAck", "failureAck", "afterTurn"}
            /\ UNCHANGED granted
            /\ Crash \/ (pc' \in {"drain", "project", "beforeTool", "dispatch"} /\ UNCHANGED posted)
        BY <2>11, <2>15
      <3>2. CASE Crash
        BY <2>9, <3>1, <3>2
      <3>3. CASE pc' \in {"drain", "project", "beforeTool", "dispatch"} /\ UNCHANGED posted
        <4>1. pc \notin {"idle", "over", "commitAck", "failureAck", "afterTurn"}
          BY <3>1 DEF TurnPcs, LoopPcs
        <4>2. QED
          BY <2>10, <3>1, <3>3, <4>1
      <3>4. QED
        BY <3>1, <3>2, <3>3
    <2>16. CASE Projected \/ ProjectionFails \/ Observed \/ ModelFails \/ GenerateCancelled
                \/ ModelCleanupFails \/ (\E terminal \in BOOLEAN : Dispatched(terminal))
                \/ DispatchCancelled \/ DispatchCleanupFails \/ Prepared
      BY <2>10, <2>12, <2>16 DEF LoopPcs
    <2>17. CASE Crash /\ (Drained \/ HostAccepts)
      BY <2>9, <2>17 DEF Drained, HostAccepts, TurnPcs
    <2>18. QED
      BY <1>2, <2>1, <2>2, <2>3, <2>4, <2>5, <2>6, <2>7, <2>8, <2>13, <2>14, <2>15, <2>16,
         <2>17 DEF Next, Generate, Tool
  <1>3. Init => ErrorsClosePort
    BY DEF Init, ErrorsClosePort, Contract!Reported
  <1>4. QED
    BY <1>1, <1>2, <1>3, PortFollows, InvariantHolds, PTL DEF Spec, ImplementsContract, Contract!Spec

====
