------------------------------ MODULE MCAgentTurn ------------------------------
(* An instance with two earlier turns: the latest with two exchanges.          *)
EXTENDS AgentTurn

EarlierIds(k, n) == {k} \X (1 .. n)

MCHistory ==
  << <<User, Text>>,
     << User,
        [role |-> "assistant", ids |-> EarlierIds(101, 2)],
        [role |-> "tool", ids |-> EarlierIds(101, 2)],
        [role |-> "assistant", ids |-> EarlierIds(102, 1)],
        [role |-> "tool", ids |-> EarlierIds(102, 1)],
        Text >> >>

MCLimits == {6, 11, 14, 40}

=============================================================================
