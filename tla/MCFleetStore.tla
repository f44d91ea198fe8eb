---------------------------- MODULE MCFleetStore ----------------------------
(***************************************************************************)
(* The registry and the store of the fleet host on small instances.        *)
(***************************************************************************)
EXTENDS FleetStore

MCOneBoard == {"b1"}
MCTwoBoards == {"b1", "b2"}

\* What goes wrong, and what comes from the outside.
MCFaults == {"status", "command", "stop", "store", "crash", "slow", "prune"}
MCCalls == {"forget", "command", "crash", "store"}
MCForget == {"forget"}
MCStop == {"stop"}

=============================================================================
