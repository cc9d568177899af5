----------------------------- MODULE MCWebhooks -----------------------------
(***************************************************************************)
(* Instances of Webhooks for TLC.  Deliveries do not look at deadlines, so *)
(* one instance follows the warnings with every delivery already done.     *)
(* The others follow deliveries with every warning already out: those of   *)
(* one agent, with faults or with patches; and those of two agents, of     *)
(* whom one may lose its URL and fill the other's batches with its rows.   *)
(***************************************************************************)
EXTENDS Webhooks

Warned == [i \in Items |-> [near |-> TRUE, warned |-> TRUE]]
Fresh == [d \in Deliveries |-> [pc |-> "free", agent |-> AnAgent]]
Delivered == [d \in Deliveries |-> [pc |-> "done", agent |-> AnAgent]]

MCInit ==
    /\ \/ /\ item \in [Items -> [near : BOOLEAN, warned : {FALSE}]]
          /\ first = Delivered /\ url = Agents /\ patches = 0 /\ faults = 0
       \/ /\ item = Warned /\ first = Fresh
          /\ \/ url = {AnAgent} /\ patches = MaxPatches /\ faults = 0
             \/ url = {AnAgent} /\ patches = 0 /\ faults = MaxFaults
             \/ url = Agents /\ patches = MaxPatches /\ faults = MaxFaults
    /\ row = [d \in Deliveries |-> NoRow]
    /\ run = [r \in Runs |-> IdleRun]
    /\ failures = [d \in Deliveries |-> 0]
    /\ blocked = {}
    /\ unrecorded = [d \in Deliveries |-> 0]
    /\ warner = [w \in WarnRuns |-> NoWarner]
    /\ reselected = [i \in Items |-> 0]
    /\ notices = [i \in Items |-> 0]

MCSpec == MCInit /\ [][Next]_vars /\ Fairness
=============================================================================
