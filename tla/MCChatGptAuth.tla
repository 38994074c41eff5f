---------------------------- MODULE MCChatGptAuth ----------------------------
(***************************************************************************)
(* The instance of ChatGptAuth that TLC checks.  The user cancels only     *)
(* Cancelling: the sign-ins are alike, and the other ones are what a       *)
(* cancelled one meets.                                                    *)
(***************************************************************************)
EXTENDS ChatGptAuth

CONSTANT Cancelling

MCNext == Next /\ cancelled' \subseteq Cancelling

MCSpec == Init /\ [][MCNext]_vars /\ WF_vars(System)

=============================================================================
