---------------------------- MODULE Provisioning ----------------------------
(***************************************************************************)
(* The settings of a board: how commands that come in over the serial      *)
(* console (ProvHandler) change, try and erase them, and how the tasks of  *)
(* the firmware bring them to the radio (WifiManager) and to the MQTT      *)
(* client (NodeApp, MqttLink).  Tasks that take part: the console, which   *)
(* handles one line after the other; prov_worker, which runs scans and     *)
(* tests; the main task, which joins at boot; net_task, which supervises   *)
(* the link.                                                               *)
(*                                                                         *)
(* An action is what a task does up to the next access that another task   *)
(* can observe.  The driver, the access points and the broker are outside  *)
(* of src/; sys_evt, which has priority over the tasks, handles an event   *)
(* of the radio when it happens.  What is history is only there for the    *)
(* properties.  A definition that is called a deviation is an operation    *)
(* with a mistake in it, to be put in the place of the one that follows.   *)
(***************************************************************************)
EXTENDS Naturals, Sequences

CONSTANTS
    Nets,        \* Wi-Fi networks, each with its password
    Hosts,       \* MQTT hosts, each with user, password, site, and with or without a CA
    MaxCommands, \* bound of the model: commands over the console
    MaxBoots,    \* bound of the model: restarts
    Mishaps      \* what may go wrong: "storage", "link", "power"

VARIABLES
    cfg,         \* ConfigStore::cfg_
    flash,       \* the namespace "ionity" of NVS
    auto,        \* Wiring::autoStartLink
    commands,    \* history: what became of the commands over the console
    pending,     \* pending_ and pendingCtx_: the scan or test to be answered
    busy,        \* busy_
    jobs,        \* jobs_ of EspProvBackend
    console,     \* where the console is
    worker,      \* where prov_worker is, and its locals
    net,         \* where superviseLink() is
    joining,     \* where each task is in connectWifi(), and with which network
    linking,     \* where each task is in startLink(), and with which host, in the end the one it
                 \* has started
    radio,       \* the driver: its configuration, its state, the network of the association
    haveCreds, scanning, armed, newUp,   \* of WifiManager; armed is retry_, newUp that upGen_ is not s_seenUpGen
    wifiKey, linkKey,   \* s_wifiKey, s_linkKey
    client,      \* client_ with its host
    connected,   \* connected_
    boots        \* bound of the model: restarts so far

store == <<cfg, flash, auto>>
handler == <<commands, pending, busy, jobs>>
wifi == <<radio, haveCreds, scanning, armed, newUp, wifiKey>>
link == <<client, connected, linkKey>>
vars == <<store, handler, console, worker, net, joining, linking, wifi, link, boots>>

None == "none"
Settings == [wifi : Nets \union {None}, link : Hosts \union {"standalone"}]
Blank(s) == s.wifi = None              \* ! provisioned()
Standalone(s) == s.link = "standalone"
Joiners == {"main", "console", "worker"}
Linkers == {"worker", "net"}
Empty == [wifi |-> None, link |-> "standalone"]
Idle == [pc |-> "idle", op |-> None, c |-> Empty, quiet |-> FALSE, joined |-> None]
AtRest == [pc |-> "no", to |-> None]

ProvTypeOK ==
    /\ cfg \in Settings /\ flash \in Settings /\ auto \in BOOLEAN
    /\ commands \in Seq({"asked", "answered", "answered twice", "cut"})
    /\ Len(commands) <= MaxCommands
    /\ pending \in [op : {None, "scan", "test"}, n : 0..Len(commands)]
    /\ busy \in BOOLEAN /\ jobs \in Seq({"scan", "test"})
    /\ console \in [pc : {"idle", "start", "restart"}, op : {None, "scan", "test"}]
    /\ worker \in [pc : {"idle", "decide", "wait", "broker", "reach", "scan", "air", "resume", "finish", "free"},
                   op : {None, "scan", "test"}, c : Settings, quiet : BOOLEAN, joined : Nets \union {None}]
    /\ net \in {"idle", "start"}
    /\ joining \in [Joiners -> [pc : {"no", "key", "disconnect", "join"}, to : Nets \union {None}]]
    /\ linking \in [Linkers -> [pc : {"no", "lock", "stop", "start", "key"}, to : Hosts \union {None}]]
    /\ radio \in [conf : Nets \union {None}, st : {"off", "joining", "up"}, on : Nets \union {None}]
    /\ {haveCreds, scanning, armed, newUp, connected} \subseteq BOOLEAN
    /\ wifiKey \in Nets \union {None} /\ linkKey \in Hosts \union {None} /\ client \in Hosts \union {None}
    /\ boots \in 0..MaxBoots

\* app_main(): load(), wire(), the tasks, and connectWifi() of the main task.
Boot(s) ==
    [cfg |-> s, auto |-> ~Blank(s) /\ ~Standalone(s),
     joining |-> [t \in Joiners |-> IF t = "main" /\ ~Blank(s) THEN [pc |-> "key", to |-> s.wifi] ELSE AtRest]]

Off == [conf |-> None, st |-> "off", on |-> None]
NoJob == [op |-> None, n |-> 0]
Reading == [pc |-> "idle", op |-> None]
Restarting == [pc |-> "restart", op |-> None]

Init ==
    /\ flash \in Settings /\ cfg = Boot(flash).cfg /\ auto = Boot(flash).auto
    /\ commands = <<>> /\ pending = NoJob /\ busy = FALSE /\ jobs = <<>>
    /\ console = Reading /\ worker = Idle /\ net = "idle"
    /\ joining = Boot(flash).joining /\ linking = [t \in Linkers |-> AtRest]
    /\ radio = Off /\ haveCreds = FALSE /\ scanning = FALSE /\ armed = FALSE /\ newUp = FALSE
    /\ wifiKey = None /\ linkKey = None /\ client = None /\ connected = FALSE
    /\ boots = 0

-----------------------------------------------------------------------------
(* The radio.                                                              *)

Up == radio.st = "up"

\* esp_wifi_connect(): nothing happens without a configuration, or when the
\* station is associated or about to be.
EspConnect(conf) ==
    IF radio.st = "off" /\ conf # None
    THEN [conf |-> conf, st |-> "joining", on |-> conf]
    ELSE [radio EXCEPT !.conf = conf]

\* esp_wifi_disconnect(): the event is one that WifiManager asked for.
EspDisconnect == [radio EXCEPT !.st = "off", !.on = None]

\* scheduleRetry()
ScheduleRetry == armed' = (armed \/ (haveCreds /\ ~scanning))

\* An address: IP_EVENT_STA_GOT_IP.
GotIp ==
    /\ radio.st = "joining"
    /\ radio' = [radio EXCEPT !.st = "up"] /\ newUp' = TRUE
    /\ UNCHANGED <<store, handler, console, worker, net, joining, linking, haveCreds, scanning, armed, wifiKey, link, boots>>

\* WIFI_EVENT_STA_DISCONNECTED for any other reason.
Disconnected ==
    /\ radio.st # "off"
    /\ radio' = EspDisconnect /\ ScheduleRetry
    /\ UNCHANGED <<store, handler, console, worker, net, joining, linking, haveCreds, scanning, newUp, wifiKey, link, boots>>

\* IP_EVENT_STA_LOST_IP: the station stays associated.
LostIp ==
    /\ Up /\ radio' = [radio EXCEPT !.st = "joining"]
    /\ UNCHANGED <<store, handler, console, worker, net, joining, linking, haveCreds, scanning, armed, newUp, wifiKey, link, boots>>

OnRetry ==
    /\ armed /\ armed' = FALSE
    /\ radio' = IF haveCreds /\ ~scanning /\ ~Up THEN EspConnect(radio.conf) ELSE radio
    /\ UNCHANGED <<store, handler, console, worker, net, joining, linking, haveCreds, scanning, newUp, wifiKey, link, boots>>

At(t, pc) == joining' = [joining EXCEPT ![t].pc = pc]

\* connectWifi(): first the key,
StoreKey(t) ==
    /\ joining[t].pc = "key"
    /\ wifiKey' = joining[t].to
    /\ At(t, "disconnect")
    /\ UNCHANGED <<store, handler, console, worker, net, linking, radio, haveCreds, scanning, armed, newUp, link, boots>>

\* then connect(): the timer is stopped, the station leaves,
Leave(t) ==
    /\ joining[t].pc = "disconnect"
    /\ armed' = FALSE /\ haveCreds' = (joining[t].to # None)
    /\ radio' = EspDisconnect
    /\ At(t, "join")
    /\ UNCHANGED <<store, handler, console, worker, net, linking, scanning, newUp, wifiKey, link, boots>>

\* and joins again; the driver refuses a new configuration while it associates.
Join(t) ==
    /\ joining[t].pc = "join"
    /\ \/ radio' = IF joining[t].to = None THEN [radio EXCEPT !.conf = None] ELSE EspConnect(joining[t].to)
       \/ radio.st = "joining" /\ UNCHANGED radio
    /\ joining' = [joining EXCEPT ![t] = AtRest]
    /\ UNCHANGED <<store, handler, console, worker, net, linking, haveCreds, scanning, armed, newUp, wifiKey, link, boots>>

ConnectWifi(t) == StoreKey(t) \/ Leave(t) \/ Join(t)

-----------------------------------------------------------------------------
(* The MQTT client.                                                        *)

Holds(t) == linking[t].pc \in {"stop", "start", "key"}

\* Deviation: s_linkMu is not taken.
EnterLink(t) ==
    /\ linking[t].pc = "lock"
    /\ linking' = [linking EXCEPT ![t].pc = "stop"]
    /\ UNCHANGED <<store, handler, console, worker, net, joining, wifi, link, boots>>

\* startLink(): s_linkMu is taken,
LockLink(t) ==
    /\ linking[t].pc = "lock" /\ \A o \in Linkers : ~Holds(o)
    /\ linking' = [linking EXCEPT ![t].pc = "stop"]
    /\ UNCHANGED <<store, handler, console, worker, net, joining, wifi, link, boots>>

\* the old client is stopped,
StopClient(t) ==
    /\ linking[t].pc = "stop"
    /\ client' = None /\ connected' = FALSE
    /\ linking' = [linking EXCEPT ![t].pc = "start"]
    /\ UNCHANGED <<store, handler, console, worker, net, joining, wifi, linkKey, boots>>

\* the new one is started,
StartClient(t) ==
    /\ linking[t].pc = "start"
    /\ \E started \in {linking[t].to} \union (IF "link" \in Mishaps THEN {None} ELSE {}) :
        /\ client' = started
        /\ linking' = [linking EXCEPT ![t] = [pc |-> "key", to |-> started]]
    /\ connected' = FALSE
    /\ UNCHANGED <<store, handler, console, worker, net, joining, wifi, linkKey, boots>>

\* its key stored, whatever the client is by now, and s_linkMu given back.
StoreLinkKey(t) ==
    /\ linking[t].pc = "key"
    /\ linkKey' = linking[t].to
    /\ linking' = [linking EXCEPT ![t] = AtRest]
    /\ UNCHANGED <<store, handler, console, worker, net, joining, wifi, client, connected, boots>>

\* MQTT_EVENT_CONNECTED and MQTT_EVENT_DISCONNECTED.
ClientConnects ==
    /\ client # None /\ ~connected /\ Up
    /\ connected' = TRUE
    /\ UNCHANGED <<store, handler, console, worker, net, joining, linking, wifi, client, linkKey, boots>>

ClientDisconnects ==
    /\ connected /\ connected' = FALSE
    /\ UNCHANGED <<store, handler, console, worker, net, joining, linking, wifi, client, linkKey, boots>>

\* superviseLink(), when there is a new address; then it takes the settings.
Supervise ==
    /\ net = "idle" /\ linking["net"].pc = "no"
    /\ newUp /\ Up /\ newUp' = FALSE
    /\ net' = IF auto /\ client = None THEN "start" ELSE "idle"
    /\ UNCHANGED <<store, handler, console, worker, joining, linking, radio, haveCreds, scanning, armed, wifiKey, link, boots>>

SuperviseStarts ==
    /\ net = "start" /\ net' = "idle"
    /\ linking' = IF Blank(cfg) \/ Standalone(cfg) THEN linking
                  ELSE [linking EXCEPT !["net"] = [pc |-> "lock", to |-> cfg.link]]
    /\ UNCHANGED <<store, handler, console, worker, joining, wifi, link, boots>>

-----------------------------------------------------------------------------
(* The console.                                                            *)

Free == console = Reading /\ joining["console"].pc = "no"

Command(status) ==
    /\ Free /\ Len(commands) < MaxCommands
    /\ commands' = Append(commands, status)

\* hello, get, and every error of onLine() and handleSet() before apply().
Told ==
    /\ Command("answered")
    /\ UNCHANGED <<store, pending, busy, jobs, console, worker, net, joining, linking, wifi, link, boots>>

\* The fields f of a set with their values, which are valid; a password can
\* come before its network.
Valid(f, new) ==
    /\ "wifi" \notin f => new.wifi = cfg.wifi
    /\ "link" \notin f => new.link = cfg.link
    /\ new.wifi = None => cfg.wifi = None

Fields == {{"wifi"}, {"link"}, {"wifi", "link"}}

\* apply(), the reply, and configChanged(), which connects with new Wi-Fi settings.
Set(f, new) ==
    /\ Command("answered") /\ Valid(f, new)
    /\ cfg' = new /\ flash' = new
    /\ joining' = IF "wifi" \in f THEN [joining EXCEPT !["console"] = [pc |-> "key", to |-> new.wifi]] ELSE joining
    /\ worker' = [worker EXCEPT !.quiet = FALSE]
    /\ UNCHANGED <<auto, pending, busy, jobs, console, net, linking, wifi, link, boots>>

\* apply() fails, with some keys written.
SetFails(f, new) ==
    /\ "storage" \in Mishaps /\ Command("answered") /\ Valid(f, new)
    /\ flash' \in [wifi : {flash.wifi, new.wifi}, link : {flash.link, new.link}]
    /\ UNCHANGED <<cfg, auto, pending, busy, jobs, console, worker, net, joining, linking, wifi, link, boots>>

\* Deviation: a scan or test that is under way is not looked at.
ClaimAnyway(op) ==
    /\ Command(IF op = "test" /\ Blank(cfg) THEN "answered" ELSE "asked")
    /\ IF op = "test" /\ Blank(cfg)
       THEN UNCHANGED <<pending, console>>
       ELSE pending' = [op |-> op, n |-> Len(commands) + 1] /\ console' = [pc |-> "start", op |-> op]

\* startLong() claims the place of the one scan or test, or answers with an error.
Claim(op) ==
    LET refused == pending.op # None \/ (op = "test" /\ Blank(cfg)) IN
    /\ Command(IF refused THEN "answered" ELSE "asked")
    /\ IF refused
       THEN UNCHANGED <<pending, console>>
       ELSE pending' = [op |-> op, n |-> Len(commands) + 1] /\ console' = [pc |-> "start", op |-> op]

StartLong(op) ==
    /\ Claim(op)
    /\ UNCHANGED <<store, busy, jobs, worker, net, joining, linking, wifi, link, boots>>

Answered(n) == [commands EXCEPT ![n] = IF @ = "asked" THEN "answered" ELSE "answered twice"]

\* startScan() or startTest(), outside of the lock; the command is the last one.
StartJob ==
    /\ console.pc = "start" /\ console' = Reading
    /\ IF busy
       THEN /\ pending' = IF pending.op = console.op THEN NoJob ELSE pending
            /\ commands' = Answered(Len(commands))
            /\ UNCHANGED <<busy, jobs>>
       ELSE /\ busy' = TRUE /\ jobs' = Append(jobs, console.op)
            /\ UNCHANGED <<pending, commands>>
    /\ UNCHANGED <<store, worker, net, joining, linking, wifi, link, boots>>

Reboot ==
    /\ boots < MaxBoots /\ Command("answered")
    /\ console' = Restarting
    /\ UNCHANGED <<store, pending, busy, jobs, worker, net, joining, linking, wifi, link, boots>>

\* factory_reset: eraseAll(), then esp_wifi_restore(); without them no restart.
FactoryReset ==
    /\ boots < MaxBoots /\ Command("answered")
    /\ \/ /\ cfg' = Empty /\ flash' = Empty
          /\ radio' = [radio EXCEPT !.conf = None] /\ console' = Restarting
       \/ /\ "storage" \in Mishaps /\ cfg' = Empty /\ flash' = Empty
          /\ UNCHANGED <<radio, console>>
       \/ /\ "storage" \in Mishaps /\ flash' \in {flash, Empty}
          /\ UNCHANGED <<cfg, radio, console>>
    /\ worker' = [worker EXCEPT !.quiet = FALSE]
    /\ UNCHANGED <<auto, pending, busy, jobs, net, joining, linking, haveCreds, scanning, armed, newUp, wifiKey, link, boots>>

\* Everything in RAM is gone; the settings are loaded from flash.
BootAgain ==
    /\ boots' = boots + 1
    /\ cfg' = Boot(flash).cfg /\ auto' = Boot(flash).auto /\ joining' = Boot(flash).joining
    /\ commands' = [n \in 1..Len(commands) |-> IF commands[n] = "asked" THEN "cut" ELSE commands[n]]
    /\ pending' = NoJob /\ busy' = FALSE /\ jobs' = <<>>
    /\ console' = Reading /\ worker' = Idle /\ net' = "idle"
    /\ linking' = [t \in Linkers |-> AtRest]
    /\ radio' = Off /\ haveCreds' = FALSE /\ scanning' = FALSE /\ armed' = FALSE /\ newUp' = FALSE
    /\ wifiKey' = None /\ linkKey' = None /\ client' = None /\ connected' = FALSE
    /\ UNCHANGED flash

\* restartNow()
Restart == console = Restarting /\ BootAgain

PowerCut == "power" \in Mishaps /\ boots < MaxBoots /\ BootAgain

-----------------------------------------------------------------------------
(* prov_worker.                                                            *)

Calm == Free /\ joining["main"].pc = "no"

To(pc) == worker' = [worker EXCEPT !.pc = pc]

\* It takes a job; a test takes the settings along.
TakeJob ==
    /\ worker.pc = "idle" /\ jobs # <<>>
    /\ jobs' = Tail(jobs)
    /\ worker' = [pc |-> IF Head(jobs) = "test" THEN "decide" ELSE "scan", op |-> Head(jobs), c |-> cfg,
                  quiet |-> Calm, joined |-> None]
    /\ UNCHANGED <<store, commands, pending, busy, console, net, joining, linking, wifi, link, boots>>

\* runTest(): it joins, unless the radio is up and the key tells it to be on that network,
Decide ==
    /\ worker.pc = "decide" /\ To("wait")
    /\ joining' = IF ~Up \/ wifiKey # worker.c.wifi
                  THEN [joining EXCEPT !["worker"] = [pc |-> "key", to |-> worker.c.wifi]] ELSE joining
    /\ UNCHANGED <<store, handler, console, net, linking, wifi, link, boots>>

\* waitUp() ends with an address, or without one after its timeout or a failure,
Waited ==
    /\ worker.pc = "wait" /\ joining["worker"].pc = "no"
    /\ \/ worker' = [worker EXCEPT !.pc = "finish"]
       \/ Up /\ worker' = [worker EXCEPT !.pc = IF Standalone(worker.c) THEN "finish" ELSE "broker", !.joined = radio.on]
    /\ UNCHANGED <<store, handler, console, net, joining, linking, wifi, link, boots>>

\* and the host: the client is connected already, or is started,
Broker ==
    /\ worker.pc = "broker"
    /\ IF connected /\ linkKey = worker.c.link
       THEN To("finish") /\ UNCHANGED linking
       ELSE To("reach") /\ linking' = [linking EXCEPT !["worker"] = [pc |-> "lock", to |-> worker.c.link]]
    /\ UNCHANGED <<store, handler, console, net, joining, wifi, link, boots>>

\* and waitConnected() ends one way or the other.
Reached ==
    /\ worker.pc = "reach" /\ linking["worker"].pc = "no"
    /\ To("finish")
    /\ UNCHANGED <<store, handler, console, net, joining, linking, wifi, link, boots>>

\* scan(): no retries from now on; a station that associates is stopped,
ScanStarts ==
    /\ worker.pc = "scan" /\ To("air")
    /\ scanning' = TRUE /\ armed' = FALSE
    /\ radio' = IF Up THEN radio ELSE EspDisconnect
    /\ UNCHANGED <<store, handler, console, net, joining, linking, haveCreds, newUp, wifiKey, link, boots>>

\* the records are there, or it failed, or took too long;
ScanEnds ==
    /\ worker.pc = "air" /\ To("resume")
    /\ scanning' = FALSE
    /\ UNCHANGED <<store, handler, console, net, joining, linking, radio, haveCreds, armed, newUp, wifiKey, link, boots>>

\* Deviation: a scan leaves the station as it is.
NoResume == UNCHANGED radio

\* it goes on joining.
Resume == radio' = IF haveCreds /\ ~Up THEN EspConnect(radio.conf) ELSE radio

ScanResumes ==
    /\ worker.pc = "resume" /\ To("finish")
    /\ Resume
    /\ UNCHANGED <<store, handler, console, net, joining, linking, haveCreds, scanning, armed, newUp, wifiKey, link, boots>>

\* finishScan() and finishTest() answer the command that is pending.
Finish ==
    /\ worker.pc = "finish" /\ To("free")
    /\ IF pending.op = worker.op
       THEN commands' = Answered(pending.n) /\ pending' = NoJob
       ELSE UNCHANGED <<commands, pending>>
    /\ UNCHANGED <<store, busy, jobs, console, net, joining, linking, wifi, link, boots>>

FreeBusy ==
    /\ worker.pc = "free" /\ worker' = Idle
    /\ busy' = FALSE
    /\ UNCHANGED <<store, commands, pending, jobs, console, net, joining, linking, wifi, link, boots>>

-----------------------------------------------------------------------------

StartLink(t) == LockLink(t) \/ StopClient(t) \/ StartClient(t) \/ StoreLinkKey(t)

Console ==
    \/ Told \/ (\E f \in Fields, new \in Settings : Set(f, new) \/ SetFails(f, new))
    \/ StartLong("scan") \/ StartLong("test") \/ StartJob
    \/ Reboot \/ FactoryReset \/ Restart
    \/ ConnectWifi("console")

Worker ==
    \/ TakeJob \/ Decide \/ Waited \/ Broker \/ Reached
    \/ ScanStarts \/ ScanEnds \/ ScanResumes \/ Finish \/ FreeBusy
    \/ ConnectWifi("worker") \/ StartLink("worker")

NetTask == Supervise \/ SuperviseStarts \/ StartLink("net")

Next ==
    \/ Console \/ Worker \/ NetTask
    \/ ConnectWifi("main") \/ PowerCut
    \/ GotIp \/ Disconnected \/ LostIp \/ OnRetry \/ ClientConnects \/ ClientDisconnects

Spec == Init /\ [][Next]_vars

-----------------------------------------------------------------------------

\* Somebody has the scan or test in hand.
InHand(op) ==
    \/ console = [pc |-> "start", op |-> op]
    \/ jobs = <<op>>
    \/ worker.op = op /\ worker.pc # "free"

\* "reply exactly once" (PHASE-2-PORTAL.md:234): no command is answered twice; one
\* that was not is the pending one and somebody has it in hand, and what is pending
\* was not answered, so that no scan or test is refused for ever.  Two tasks set and
\* clear pending_ and busy_: startLong(), finishScan(), finishTest() and taskEntry().
OneAnswer ==
    /\ \A n \in 1..Len(commands) :
         /\ commands[n] # "answered twice"
         /\ commands[n] = "asked" => pending.n = n
    /\ pending # NoJob => commands[pending.n] = "asked" /\ InHand(pending.op)

\* A station that has a network to join and is not on it will try: the timer runs,
\* or a task is about to connect, whoever disconnected it or stopped the timer:
\* connect(), scheduleRetry(), scan() of WifiManager.cpp.
RadioKeepsTrying ==
    haveCreds /\ radio.conf # None /\ radio.st = "off" =>
        \/ armed
        \/ \E t \in Joiners : joining[t].pc = "join"
        \/ worker.pc \in {"air", "resume"}

\* The key of the link is that of the client that runs, unless one is being
\* started: a test and the supervisor that start their own at the same time leave
\* neither the key of a client that was replaced nor that of one that did not
\* start, by which a later test would take the client for its own.  startLink()
\* of NodeApp.cpp.
LinkKeyTrue == (\A t \in Linkers : ~Holds(t)) => linkKey = client

\* "join with the stored settings" (PHASE-2-PORTAL.md:233): a test during which
\* no settings change reports Wi-Fi as up on the stored network only.
TestJoinsStored == worker.quiet /\ worker.joined # None => worker.joined = worker.c.wifi

=============================================================================
