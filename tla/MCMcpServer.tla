---------------------------- MODULE MCMcpServer -----------------------------
(***************************************************************************)
(* The server with the uplink on small instances.                          *)
(***************************************************************************)
EXTENDS McpServer, TLC

MCProducers == {"mqtt", "worker"}
MCFrames == ReplyFrames

Req(rid, budget, ack, priority, broadcast) ==
    [rid |-> rid, budget |-> budget, ack |-> ack, priority |-> priority, broadcast |-> broadcast]

MCHeaders == {Req(11, 1, FALSE, FALSE, FALSE), Req(12, 2, TRUE, TRUE, TRUE)}

\* One request whose ACK and answer are spread over the jitter.
MCBroadcast == {Req(12, 1, TRUE, FALSE, TRUE)}

\* More rids than the ring has places; the first two are alike.
CONSTANTS r1, r2, r3
MCThreeHeaders == {Req(r1, 1, FALSE, FALSE, FALSE), Req(r2, 1, FALSE, FALSE, FALSE), Req(r3, 2, TRUE, TRUE, TRUE)}
MCAlike == Permutations({r1, r2})

=============================================================================
