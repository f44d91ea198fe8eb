------------------------------- MODULE MCEdge -------------------------------
(***************************************************************************)
(* What lies between the fleet host and those at its edges, on small       *)
(* instances: the calls of MCP clients on their way to a board, the agent  *)
(* of a Raspberry Pi, and the settings of a board.  They share no state,   *)
(* so that a behaviour of this module is one of one of them, named by      *)
(* program; the others stay where they start.                              *)
(***************************************************************************)
EXTENDS DeviceCalls

CONSTANTS
    Sites, Configured, Threshold, MaxMoves, AgentTrouble,
    Nets, Hosts, MaxCommands, MaxBoots, Mishaps

VARIABLES
    program,
    run, site, mqttOk, fails, useHttp, will, outbox, worker, file, stored, net, session, retained, host, acked, excused, moves,
    cfg, flash, auto, commands, pending, busy, jobs, console, prov, supervisor, joining, linking,
    radio, haveCreds, scanning, armed, newUp, wifiKey, linkKey, mqttClient, linkUp, boots

\* The strings that stand for what is no site are not the names of sites.
ASSUME EdgeAssumption ==
    /\ Configured \in Sites /\ Sites \cap {"none", "empty", "mixed", "bare"} = {}
    /\ {Threshold, MaxMoves, MaxCommands, MaxBoots} \subseteq Nat

Agent == INSTANCE PiAgent WITH Trouble <- AgentTrouble
Node == INSTANCE Provisioning WITH
    worker <- prov, net <- supervisor, client <- mqttClient, connected <- linkUp

agentVars == <<run, site, mqttOk, fails, useHttp, will, outbox, worker, file, stored, net, session, retained, host,
               acked, excused, moves>>
nodeVars == <<cfg, flash, auto, commands, pending, busy, jobs, console, prov, supervisor, joining, linking,
              radio, haveCreds, scanning, armed, newUp, wifiKey, linkKey, mqttClient, linkUp, boots>>
edgeVars == <<program, vars, agentVars, nodeVars>>

EdgeInit ==
    /\ program \in {"calls", "agent", "node"}
    /\ Init /\ Agent!Init /\ Node!Init
    /\ program # "calls" => up
    /\ program # "node" => flash = Node!Empty

Asks == program = "calls" /\ Next /\ UNCHANGED <<program, agentVars, nodeVars>>
Reports == program = "agent" /\ Agent!Next /\ UNCHANGED <<program, vars, nodeVars>>
Settles == program = "node" /\ Node!Next /\ UNCHANGED <<program, vars, agentVars>>

EdgeNext == Asks \/ Reports \/ Settles

\* Nothing that is fair is enabled before somebody asks; the agent runs by itself.
EdgeSpec ==
    /\ EdgeInit /\ [][EdgeNext]_edgeVars
    /\ Fairness
    /\ WF_agentVars(program = "agent" /\ Agent!Transmit)
    /\ WF_agentVars(program = "agent" /\ Agent!OnDisconnect)

\* The part that runs keeps its variables in their types.
EdgeTypeOK ==
    CASE program = "calls" -> CallsTypeOK
      [] program = "agent" -> Agent!AgentTypeOK
      [] program = "node" -> Node!ProvTypeOK

\* The retained status and the Last Will tell whether the agent runs:
\* apply_meta(), _on_connect() and shutdown() of ionity_agent.py.
PresenceIsTrue == Agent!PresenceIsTrue

\* The last set_meta answered is in the state file, but for saves that overlapped
\* or failed: save_state().
MetaSurvives == Agent!MetaSurvives

\* An agent without a broker is heard over HTTP: transmit().
FallsBack == Agent!FallsBack

\* Every command over the serial console is answered, once: startLong(),
\* finishScan() and finishTest() of ProvHandler.cpp.
OneAnswer == Node!OneAnswer

\* A station that is off its network tries to join: WifiManager.cpp.
RadioKeepsTrying == Node!RadioKeepsTrying

\* The key of the link is that of the client: startLink() of NodeApp.cpp.
LinkKeyTrue == Node!LinkKeyTrue

=============================================================================
