---------------------------- MODULE MCCoreService ----------------------------
(* CoreService with commands on two Sessions.                              *)
EXTENDS CoreService

MCSignatures == {"openB", "submitA", "submitB", "alterA", "shutdown"}

MCRequest ==
  [sig \in MCSignatures |->
     CASE sig = "openB" -> [kind |-> "open", session |-> "B"]
       [] sig = "submitA" -> [kind |-> "submit", session |-> "A"]
       [] sig = "submitB" -> [kind |-> "submit", session |-> "B"]
       [] sig = "alterA" -> [kind |-> "alter", session |-> "A"]
       [] OTHER -> [kind |-> "shutdown", session |-> "A"]]

=============================================================================
