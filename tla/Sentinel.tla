------------------------------ MODULE Sentinel ------------------------------
(***************************************************************************)
(* The network sentinel: get_live_telemetry() is run by the broadcaster,   *)
(* by the endpoint of every dashboard that connects, and for requests over *)
(* HTTP and MCP, all at the same time on one loop.  It waits for the       *)
(* router, for the probes and, when the cached load shedding status has    *)
(* run out, for EskomSePush; once that has answered, the status is put in  *)
(* the cache, and the connection is closed, which is one more wait, before *)
(* the caller gets it; what it then has it assembles in one step, for      *)
(* which it looks at the cache again.                                      *)
(*                                                                         *)
(* Of the telemetry the model keeps the mains power, whether load shedding *)
(* and an outage are reported, and the root cause that is told.  What the  *)
(* router and the probes say is chosen when it is used, what EskomSePush   *)
(* says when it answers; when the cached status runs out is left open, and *)
(* the alerts and speed tests, which only the display uses, are left out.  *)
(* Messages are kept for the broadcaster, whose sends may be held up;      *)
(* those of the others leave in the step that assembles them.              *)
(* A dashboard that comes back is another dashboard.  A definition that is *)
(* called a deviation is an operation with a mistake in it, to be put in   *)
(* the place of the one that follows it.                                   *)
(***************************************************************************)
EXTENDS Integers

CONSTANTS
    Dashboards,  \* WebSocket clients
    Requests,    \* clients that ask over HTTP or MCP
    Simulate,    \* simulate_if_offline
    MaxMoves     \* bound of the model: changes of the world

VARIABLES
    pc,       \* where the broadcaster, the endpoints and the requests are
    data,     \* the telemetry of the broadcaster
    sockets,  \* connected_websockets
    todo,     \* the sockets the broadcaster has still to send to
    dead,     \* its local dead_sockets
    broken,   \* dashboards that are not reached any more
    cache,    \* _cached_data
    held,     \* parsed, of the broadcaster, while its connection is closed
    raced,    \* meanwhile another caller has written to the cache
    mains,    \* hardware_mains_ok
    key,      \* ESKOM_API_KEY is set
    shown,    \* the mains power each dashboard that stays was sent last
    moves     \* changes of the world so far

vars == <<pc, data, sockets, todo, dead, broken, cache, held, raced, mains, key, shown, moves>>
world == <<broken, mains, key, moves>>
statuses == <<cache, held, raced>>

Broadcaster == "broadcaster"
Callers == {Broadcaster} \union Dashboards \union Requests
Never == "never"
NoData == [mains |-> Never, grid |-> Never, link |-> Never, verdict |-> Never]
Telemetry == [mains : {"on", "off"}, grid : {"shedding", "quiet"}, link : {"outage", "scored"},
              verdict : {"mains", "substation", "fibre", "no outage"}]

SentinelTypeOK ==
    /\ pc \in [Callers -> {"idle", "gather", "area", "exit", "send", "open", "gone"}]
    /\ data \in {NoData} \union Telemetry
    /\ sockets \subseteq Dashboards /\ todo \subseteq Dashboards /\ dead \subseteq Dashboards
    /\ broken \subseteq Dashboards
    /\ cache \in {Never, "shedding", "quiet"} /\ held \in {Never, "shedding", "quiet"} /\ raced \in BOOLEAN
    /\ mains \in {"on", "off"} /\ key \in BOOLEAN
    /\ shown \in [Dashboards -> {Never, "on", "off"}]
    /\ moves \in 0..MaxMoves

Init ==
    /\ pc = [p \in Callers |-> "idle"] /\ data = NoData
    /\ sockets = {} /\ todo = {} /\ dead = {} /\ broken = {}
    /\ cache = Never /\ held = Never /\ raced = FALSE
    /\ mains = "on" /\ key \in BOOLEAN
    /\ shown = [d \in Dashboards |-> Never] /\ moves = 0

At(p, where) == pc[p] = where
Goes(p, where) == pc' = [pc EXCEPT ![p] = where]

-----------------------------------------------------------------------------
(* Who asks.                                                               *)

\* websocket_endpoint() accepts a dashboard.
Connect(d) ==
    /\ At(d, "idle") /\ Goes(d, "gather")
    /\ sockets' = sockets \union {d}
    /\ UNCHANGED <<data, todo, dead, statuses, world, shown>>

\* handle_request(), or a route, that needs the telemetry.
Ask(r) ==
    /\ At(r, "idle") /\ Goes(r, "gather")
    /\ UNCHANGED <<data, sockets, todo, dead, statuses, world, shown>>

\* telemetry_broadcaster(), every 1.5 seconds.
Period ==
    /\ At(Broadcaster, "idle") /\ sockets # {}
    /\ Goes(Broadcaster, "gather")
    /\ UNCHANGED <<data, sockets, todo, dead, statuses, world, shown>>

-----------------------------------------------------------------------------
(* get_live_telemetry().                                                   *)

\* _generate_synthetic_telemetry(): both WANs are online.
Synthetic == TRUE

\* fetch_interface_stats(): what the router says has no WANs in it; with no
\* answer from the router they are simulated, if that is wanted.
Online == {FALSE} \union IF Simulate THEN {Synthetic} ELSE {}

\* compute_stability_score(): whatever the probes say, no WAN is an outage.
StabilityScore(online) == IF online THEN "scored" ELSE "outage"

Cause(status, online) ==
    IF mains = "off" THEN "mains"
    ELSE IF online THEN "no outage"
    ELSE IF status = "shedding" THEN "substation" ELSE "fibre"

\* correlate_link_issue() is not told the status that was returned, it looks at
\* what is cached.
Correlate(cached, online) == Cause(cached, online)

\* The telemetry: from the status of load shedding to its end nothing is awaited.
Gathered(status, cached) ==
    {[mains |-> mains, grid |-> status, link |-> StabilityScore(online), verdict |-> Correlate(cached, online)] :
        online \in Online}

\* telemetry_broadcaster() takes the list of sockets to send it to.
RoundBegins(status, cached) ==
    /\ data' \in Gathered(status, cached)
    /\ todo' = sockets
    /\ Goes(Broadcaster, "send")
    /\ UNCHANGED <<sockets, shown>>

\* websocket_endpoint() sends it; that fails if the dashboard has gone.
FirstMessage(d) ==
    /\ Goes(d, IF d \in broken THEN "gone" ELSE "open")
    /\ sockets' = IF d \in broken THEN sockets \ {d} ELSE sockets
    /\ shown' = IF d \in broken THEN shown ELSE [shown EXCEPT ![d] = mains]
    /\ UNCHANGED <<data, todo>>

\* execute_tool() and read_resource() take their part of it.
Answered(r) == Goes(r, "idle") /\ UNCHANGED <<data, sockets, todo, shown>>

Deliver(p, status, cached) ==
    \/ p = Broadcaster /\ RoundBegins(status, cached)
    \/ p \in Dashboards /\ FirstMessage(p)
    \/ p \in Requests /\ Answered(p)

\* _generate_mock_status()
Mock == "quiet"

\* _cached_data is set.
Caches(p, status) ==
    /\ cache' = status
    /\ raced' = (raced \/ (p # Broadcaster /\ At(Broadcaster, "exit")))

\* Deviation: the mock is not cached.
FallbackUncached(p) == Deliver(p, Mock, cache) /\ UNCHANGED statuses

\* There is no answer, or no key to ask with: the mock takes its place, in the
\* cache as well.
Fallback(p) == Caches(p, Mock) /\ Deliver(p, Mock, Mock) /\ UNCHANGED held

\* get_loadshedding_status(): from the cache, from EskomSePush, or without a
\* key from the mock.
Status(p) ==
    \/ cache # Never /\ Deliver(p, cache, cache) /\ UNCHANGED statuses
    \/ key /\ Goes(p, "area") /\ UNCHANGED <<data, sockets, todo, statuses, shown>>
    \/ ~key /\ Fallback(p)

\* run_all_probes() and the router have answered, or run out of time.
Gather(p) ==
    /\ At(p, "gather") /\ Status(p)
    /\ UNCHANGED <<dead, world>>

\* get_loadshedding() of the API: the status alone.
AskGrid(r) ==
    /\ At(r, "idle") /\ Status(r)
    /\ UNCHANGED <<dead, world>>

\* _parse_api_response()
AreaReports == {"shedding", "quiet"}

\* What EskomSePush says is cached; to return it, response and session are closed.
Parsed(p, status) ==
    /\ Caches(p, status)
    /\ held' = IF p = Broadcaster THEN status ELSE held
    /\ Goes(p, "exit")
    /\ UNCHANGED <<data, sockets, todo, shown>>

\* EskomSePush answers, or it does not.
AreaAnswers(p) ==
    /\ At(p, "area")
    /\ (\E status \in AreaReports : Parsed(p, status)) \/ Fallback(p)
    /\ UNCHANGED <<dead, world>>

\* They are closed: the status is returned, and correlated with what is cached by now.
Closed(p) ==
    /\ At(p, "exit") /\ Deliver(p, held, cache)
    /\ held' = IF p = Broadcaster THEN Never ELSE held
    /\ UNCHANGED <<cache, raced, dead, world>>

-----------------------------------------------------------------------------
(* The sockets.                                                            *)

\* receive_text() fails: the endpoint is over.
Disconnected(d) ==
    /\ d \in broken /\ At(d, "open") /\ Goes(d, "gone")
    /\ sockets' = sockets \ {d}
    /\ UNCHANGED <<data, todo, dead, statuses, world, shown>>

\* send_json() of the broadcaster to the next socket.
Send(d) ==
    /\ At(Broadcaster, "send") /\ d \in todo
    /\ todo' = todo \ {d}
    /\ \/ d \notin broken /\ shown' = [shown EXCEPT ![d] = data.mains] /\ UNCHANGED dead
       \/ d \in broken /\ dead' \in {dead, dead \union {d}} /\ UNCHANGED shown
    /\ UNCHANGED <<pc, data, sockets, statuses, world>>

\* Deviation: a socket that fails ends the loop.
RoundEndsForGood ==
    /\ At(Broadcaster, "send") /\ todo = {}
    /\ Goes(Broadcaster, IF dead = {} THEN "idle" ELSE "gone")
    /\ data' = NoData /\ raced' = FALSE
    /\ sockets' = sockets \ dead /\ dead' = {}
    /\ UNCHANGED <<todo, cache, held, world, shown>>

\* The dead ones are discarded, the broadcaster sleeps.
RoundEnds ==
    /\ At(Broadcaster, "send") /\ todo = {}
    /\ Goes(Broadcaster, "idle")
    /\ data' = NoData /\ raced' = FALSE
    /\ sockets' = sockets \ dead /\ dead' = {}
    /\ UNCHANGED <<todo, cache, held, world, shown>>

-----------------------------------------------------------------------------
(* The world.                                                              *)

Move == moves < MaxMoves /\ moves' = moves + 1

\* receive_esp32_hardware_feed()
HardwareFeed ==
    /\ Move /\ mains' = IF mains = "on" THEN "off" ELSE "on"
    /\ UNCHANGED <<pc, data, sockets, todo, dead, broken, statuses, key, shown>>

\* A dashboard leaves.
Leaves(d) ==
    /\ Move /\ pc[d] \in {"gather", "area", "exit", "open"} /\ d \notin broken
    /\ broken' = broken \union {d}
    /\ shown' = [shown EXCEPT ![d] = Never]
    /\ UNCHANGED <<pc, data, sockets, todo, dead, statuses, mains, key>>

Broadcast ==
    \/ Period \/ Gather(Broadcaster) \/ AreaAnswers(Broadcaster) \/ Closed(Broadcaster)
    \/ (\E d \in Dashboards : Send(d)) \/ RoundEnds

Next ==
    \/ \E d \in Dashboards : Connect(d) \/ Gather(d) \/ AreaAnswers(d) \/ Closed(d) \/ Disconnected(d) \/ Leaves(d)
    \/ \E r \in Requests : Ask(r) \/ AskGrid(r) \/ Gather(r) \/ AreaAnswers(r) \/ Closed(r)
    \/ Broadcast
    \/ HardwareFeed

Spec == Init /\ [][Next]_vars

\* The loop runs the broadcaster; every wait has its limit.
Fairness == WF_vars(Broadcast)

FairSpec == Spec /\ Fairness

-----------------------------------------------------------------------------

\* The root cause told in a telemetry is that of the telemetry itself: load
\* shedding is blamed, or ruled out, as the same telemetry reports it, and so
\* is the mains power, whoever received the hardware feed meanwhile or asks for
\* the status at the same time, with one exception: between the answer of
\* EskomSePush and the correlation another caller wrote to the cache.
\* get_live_telemetry(), get_loadshedding_status() and correlate_link_issue().
VerdictFitsReport ==
    data # NoData =>
        /\ data.verdict = "mains" <=> data.mains = "off"
        /\ data.verdict # "mains" => (data.link = "outage" <=> data.verdict # "no outage")
        /\ ~raced => /\ data.verdict = "substation" => data.grid = "shedding"
                     /\ data.verdict = "fibre" => data.grid = "quiet"

Behind == {d \in Dashboards \ broken : pc[d] = "open" /\ shown[d] # mains}

\* The dashboards that stay are sent what the hardware feed said last, also when
\* another one breaks in the middle of a round, or when the broadcast that is
\* under way is older than a first message: telemetry_broadcaster().
DashboardsFollow == Behind # {} ~> Behind = {}

=============================================================================
