------------------------------- MODULE MCHost -------------------------------
(***************************************************************************)
(* On small instances, what runs on the host beside the registry and the   *)
(* store: four parts of the fleet host, which are the DNS resolver, the    *)
(* network watch, the sweep of the LAN and the export to Datadog, and the  *)
(* network sentinel and the serial bridge, programs of their own.  The     *)
(* four share the connection to the store, which each module models as far *)
(* as its part depends on it, and no state besides, so that a behaviour of *)
(* this module is one of a single part, named by program; the others stay  *)
(* where they start.                                                       *)
(***************************************************************************)
EXTENDS DnsResolver

CONSTANTS
    Ips, MaxHits, WatchFaults,
    SweepIps, SweepHost, MaxMoves, Trouble,
    Boards, MaxQueue, MaxEvents, PerPost, FleetPoints, MaxPoints, MaxNews,
    Dashboards, Clients, Simulate, MaxChanges,
    UsbBoards, UsbPorts, MaxPlugs

ASSUME HostAssumption ==
    /\ MaxQueue \in Nat /\ MaxEvents \in Nat \ {0} /\ PerPost \in Nat \ {0}
    /\ FleetPoints \in Nat /\ MaxPoints \in Nat
    /\ MaxHits \in Nat /\ MaxNews \in Nat /\ MaxMoves \in Nat /\ MaxChanges \in Nat
    /\ SweepHost \notin SweepIps

VARIABLES
    program,
    watchPhase, active, quiet, task, loop, lightOn, dark, error, call, lit, adrift, alerts, savedAlerts, orphan, missed,
    present, row, old, sweeps, pc, known, first, table, awaited, moves,
    exportPhase, points, events, checks, last, backoff, flush, made, sent, over, exportCut,
    at, data, sockets, todo, dead, broken, grid, held, raced, mains, key, shown, changes,
    plugged, wire, pump, portOf, hand, plugs

Watch == INSTANCE LanWatch WITH
    phase <- watchPhase, db <- alerts, saved <- savedAlerts, Faults <- WatchFaults
Lan == INSTANCE LanSweep WITH Ips <- SweepIps, Host <- SweepHost
Export == INSTANCE DatadogExport WITH phase <- exportPhase, cut <- exportCut
Network == INSTANCE Sentinel WITH
    Requests <- Clients, MaxMoves <- MaxChanges, pc <- at, cache <- grid, moves <- changes
Usb == INSTANCE SerialBridge WITH
    Boards <- UsbBoards, Ports <- UsbPorts, MaxMoves <- MaxPlugs, at <- plugged, moves <- plugs

watchVars == <<watchPhase, active, quiet, task, loop, lightOn, dark, error, call, lit, adrift,
               alerts, savedAlerts, orphan, missed>>
sweepVars == <<present, row, old, sweeps, pc, known, first, table, awaited, moves>>
exportVars == <<exportPhase, points, events, checks, last, backoff, flush, made, sent, over, exportCut>>
sentinelVars == <<at, data, sockets, todo, dead, broken, grid, held, raced, mains, key, shown, changes>>
usbVars == <<plugged, wire, pump, portOf, hand, plugs>>
hostVars == <<program, vars, watchVars, sweepVars, exportVars, sentinelVars, usbVars>>

MCKeys == {<<"n", "A">>, <<"n", "AAAA">>}

HostInit ==
    /\ program \in {"dns", "watch", "sweep", "export", "sentinel", "bridge"}
    /\ Init /\ Watch!Init /\ Lan!Init /\ Export!Init /\ Network!Init /\ Usb!Init
    /\ program # "sentinel" => key
    /\ program # "sweep" => present = {} /\ \A ip \in Lan!Rows : row[ip] = "none"
    /\ program # "bridge" => \A b \in UsbBoards : plugged[b] = "none"

Resolves == program = "dns" /\ Next /\ UNCHANGED <<program, watchVars, sweepVars, exportVars, sentinelVars, usbVars>>
Watches == program = "watch" /\ Watch!Next /\ UNCHANGED <<program, vars, sweepVars, exportVars, sentinelVars, usbVars>>
Sweeps == program = "sweep" /\ Lan!Next /\ UNCHANGED <<program, vars, watchVars, exportVars, sentinelVars, usbVars>>
Exports == program = "export" /\ Export!Next /\ UNCHANGED <<program, vars, watchVars, sweepVars, sentinelVars, usbVars>>
Guards == program = "sentinel" /\ Network!Next /\ UNCHANGED <<program, vars, watchVars, sweepVars, exportVars, usbVars>>
Bridges == program = "bridge" /\ Usb!Next /\ UNCHANGED <<program, vars, watchVars, sweepVars, exportVars, sentinelVars>>

HostNext == Resolves \/ Watches \/ Sweeps \/ Exports \/ Guards \/ Bridges

\* Nothing that is fair in the resolver is enabled before a query arrives.
HostSpec ==
    /\ HostInit /\ [][HostNext]_hostVars
    /\ Fairness
    /\ WF_sweepVars(program = "sweep" /\ Lan!Sweep)
    /\ WF_sentinelVars(program = "sentinel" /\ Network!Broadcast)
    /\ \A p \in UsbPorts : WF_usbVars(program = "bridge" /\ (Usb!Discover(p) \/ Usb!Pump(p)))

\* The part that runs keeps its variables in their types.
HostTypeOK ==
    CASE program = "dns" -> DnsTypeOK
      [] program = "watch" -> Watch!WatchTypeOK
      [] program = "sweep" -> Lan!SweepTypeOK
      [] program = "export" -> Export!ExportTypeOK
      [] program = "sentinel" -> Network!SentinelTypeOK
      [] program = "bridge" -> Usb!BridgeTypeOK

\* An alert the network watch holds is open in the store, and the other way
\* round: _hit(), _new_device() and _loop() of net_alerts.py.
AlertsFollowActivity == Watch!AlertsFollowActivity

\* The light of the alarm board is what light_on says, once the board has
\* executed the last call: _set_light() of net_alerts.py.
LightFollows == Watch!LightFollows

\* The devices that join are announced: _refresh_arp() of dns_resolver.py.
JoinerAnnounced == Lan!JoinerAnnounced

\* No point is lost, reordered or posted twice: flush() of datadog.py.
PointsAccounted == Export!PointsAccounted

\* The root cause told in a telemetry is that of the telemetry itself:
\* get_live_telemetry() and correlate_link_issue() of the sentinel.
VerdictFitsReport == Network!VerdictFitsReport

\* The dashboards that stay are sent what the hardware feed said last:
\* telemetry_broadcaster() of the sentinel.
DashboardsFollow == Network!DashboardsFollow

\* What the bridge knows of a board leads to no other board, and in the end to
\* every board that stays plugged in: pump() of serial_bridge.py.
BoardsReached == Usb!BoardsReached

=============================================================================
