------------------------------ MODULE PiAgent ------------------------------
(***************************************************************************)
(* Agent of ionity_agent.py, between its broker and the fleet host: the    *)
(* reading that goes over MQTT, or over HTTP when the broker has been away *)
(* for some tries, the retained status and the Last Will on the topic of   *)
(* the site, and set_meta, which stores a new site and moves the agent to  *)
(* its topics.  A dns_probe may have to remember its server, which goes    *)
(* into the same state file.  The threads are the main one (Transmit,      *)
(* Shutdown), the one of paho (Connect, OnConnect, OnDisconnect, Deliver)  *)
(* and one for each command.  Of the host there is what the registry shows *)
(* of this board.                                                          *)
(*                                                                         *)
(* The only metadata are the sites, each stands for its topics.  A QoS 1   *)
(* message that paho was given goes out in its turn, after a reconnect if  *)
(* need be; the broker keeps what is retained.  A definition that is       *)
(* called a deviation is an operation with a mistake in it, to be put in   *)
(* the place of the one that follows it.                                   *)
(***************************************************************************)
EXTENDS Integers, Sequences, FiniteSets

CONSTANTS
    Sites,      \* the sites the board may be given
    Configured, \* the one of its configuration
    Threshold,  \* MQTT_FAIL_THRESHOLD
    MaxMoves,   \* bound of the model: commands, failed saves, losses of connection, crashes, stops
    Trouble     \* bound of the model: which of these happen

VARIABLES
    run,       \* "up", "stopping" in shutdown(), or "down"
    site,      \* self.site
    mqttOk,    \* self.mqtt_ok
    fails,     \* self.mqtt_fails
    useHttp,   \* self.use_http
    will,      \* the site whose topic paho was told to have its Will on
    outbox,    \* the QoS 1 messages that the broker has not got
    worker,    \* where the thread of each command is, and the site it brings
    file,      \* the state file, and the one next to it that is to take its place
    stored,    \* the site in self.state, which is not the one of the configuration
    net,       \* what the board can reach: "all", "http", or "nothing"
    session,   \* the session of the board at the broker
    retained,  \* the status that the broker keeps for each site
    host,      \* the host: its connection to the broker, and what it shows
    acked,     \* of the set_meta: how many came, up to which one answers promise nothing any
               \* more, the site of the last answer that does, and those of later ones
    excused,   \* presence was disturbed while the agent was on the move
    moves

agent == <<run, site, mqttOk, fails, useHttp, will>>
broker == <<session, retained, host>>
vars == <<agent, outbox, worker, file, stored, net, broker, acked, excused, moves>>

NoSite == "none"
Empty == "empty"
Mixed == "mixed"
Bare == "bare"   \* a state without a site
Texts == Sites \union {NoSite, Empty, Mixed, Bare}
Offline == "offline"
Online == "online"
NoSession == [live |-> FALSE, connack |-> FALSE, will |-> NoSite, subs |-> {}]
Workers == 1..Len(worker)
Msg(kind, s) == [kind |-> kind, site |-> s, n |-> 0]

AgentTypeOK ==
    /\ run \in {"up", "stopping", "down"} /\ site \in Sites /\ mqttOk \in BOOLEAN
    /\ fails \in 0..Threshold /\ useHttp \in BOOLEAN /\ will \in Sites
    /\ outbox \in Seq([kind : {Online, Offline, "reply"}, site : Sites, n : 0..MaxMoves])
    /\ worker \in Seq([pc : {"dump", "open", "write", "replace", "reply", "apply", "move", "bounce"}, to : Sites,
                     old : Sites, n : 0..MaxMoves, text : Texts, fd : {"tmp", "site", "gone"}, after : BOOLEAN])
    /\ Len(worker) <= MaxMoves /\ moves \in 0..MaxMoves
    /\ file \in [site : Texts, tmp : Texts] /\ stored \in Sites \union {NoSite}
    /\ net \in {"all", "http", "nothing"}
    /\ session \in [live : BOOLEAN, connack : BOOLEAN, will : Sites \union {NoSite}, subs : SUBSET Sites]
    /\ retained \in [Sites -> {NoSite, Online, Offline}]
    /\ host \in [up : BOOLEAN, lwt : BOOLEAN, heard : BOOLEAN, site : Sites \union {NoSite}]
    /\ acked \in [n : 0..MaxMoves, past : 0..MaxMoves, site : Sites \union {NoSite}, later : SUBSET Sites]
    /\ excused \in BOOLEAN

Init ==
    /\ run = "up" /\ site = Configured /\ mqttOk = FALSE /\ fails = 0 /\ useHttp = FALSE /\ will = Configured
    /\ outbox = <<>> /\ worker = <<>>
    /\ file = [site |-> NoSite, tmp |-> NoSite] /\ stored = NoSite
    /\ net = "all" /\ session = NoSession
    /\ retained = [s \in Sites |-> NoSite]
    /\ host = [up |-> TRUE, lwt |-> FALSE, heard |-> FALSE, site |-> NoSite]
    /\ acked = [n |-> 0, past |-> 0, site |-> NoSite, later |-> {}] /\ excused = FALSE /\ moves = 0

Move == moves < MaxMoves /\ moves' = moves + 1
Still == UNCHANGED moves

\* A set_meta is being carried out, or not all it published is out.
Moving ==
    \/ \E w \in Workers : worker[w].pc \in {"move", "bounce"}
    \/ \E i \in 1..Len(outbox) : outbox[i].kind # "reply" /\ outbox[i].site # site

-----------------------------------------------------------------------------
(* The broker and the host.                                                *)

\* ingest_status() of the host, if it is subscribed.
HostGets(state, s) ==
    IF host.up
    THEN [host EXCEPT !.lwt = state = Offline, !.heard = IF state = Online THEN TRUE ELSE @, !.site = s]
    ELSE host

\* A retained status reaches the broker.
Status(state, s) == retained' = [retained EXCEPT ![s] = state] /\ host' = HostGets(state, s)

\* The session ends without a DISCONNECT.
WillFires == session' = NoSession /\ Status(Offline, session.will)

\* The host gets the answer to a set_meta; it can have been voided by a later one.
Answered(m) ==
    acked' = IF m.n <= acked.past THEN acked
             ELSE [acked EXCEPT !.past = m.n, !.site = m.site, !.later = IF m.n = acked.n THEN {} ELSE @]

Deliver ==
    /\ session.live /\ ~session.connack /\ outbox # <<>>
    /\ LET m == Head(outbox) IN
       IF m.kind = "reply"
       THEN Answered(m) /\ UNCHANGED <<retained, host>>
       ELSE Status(m.kind, m.site) /\ UNCHANGED acked
    /\ outbox' = Tail(outbox)
    /\ UNCHANGED <<agent, worker, file, stored, net, session, excused>> /\ Still

\* ingest() of the host: last_seen, not the mark of the Last Will.
Reading == host' = [host EXCEPT !.heard = TRUE, !.site = site]

\* stale_after_s without a reading.
HostAges ==
    /\ host.heard
    /\ host' = [host EXCEPT !.heard = FALSE]
    /\ UNCHANGED <<agent, outbox, worker, file, stored, net, session, retained, acked, excused>> /\ Still

HostLeaves ==
    /\ "host" \in Trouble /\ Move
    /\ host.up
    /\ host' = [host EXCEPT !.up = FALSE]
    /\ UNCHANGED <<agent, outbox, worker, file, stored, net, session, retained, acked, excused>>

\* It subscribes again and is sent what is retained, in any order.
HostReturns ==
    LET kept == {s \in Sites : retained[s] # NoSite} IN
    /\ ~host.up
    /\ IF kept = {} THEN host' = [host EXCEPT !.up = TRUE]
       ELSE \E last \in kept :
                host' = [up |-> TRUE, lwt |-> retained[last] = Offline, site |-> last,
                         heard |-> host.heard \/ \E s \in kept : retained[s] = Online]
    /\ UNCHANGED <<agent, outbox, worker, file, stored, net, session, retained, acked, excused>> /\ Still

-----------------------------------------------------------------------------
(* The thread of paho.                                                     *)

\* A connection with the Will that paho knows; paho tries again and again.
Connect ==
    /\ run = "up" /\ net = "all" /\ ~session.live /\ ~mqttOk
    /\ session' = [live |-> TRUE, connack |-> TRUE, will |-> will, subs |-> {}]
    /\ UNCHANGED <<agent, outbox, worker, file, stored, net, retained, host, acked, excused>> /\ Still

OnConnect ==
    /\ run = "up" /\ session.live /\ session.connack
    /\ mqttOk' = TRUE /\ fails' = 0 /\ useHttp' = FALSE
    /\ session' = [session EXCEPT !.connack = FALSE, !.subs = {site}]
    /\ outbox' = Append(outbox, Msg(Online, site))
    /\ UNCHANGED <<run, site, will, worker, file, stored, net, retained, host, acked, excused>> /\ Still

OnDisconnect ==
    /\ run # "down" /\ mqttOk /\ ~session.live
    /\ mqttOk' = FALSE
    /\ UNCHANGED <<run, site, fails, useHttp, will, outbox, worker, file, stored, net, broker, acked, excused>> /\ Still

\* The connection is lost; what is left to reach is up to the network.
Drop(left) ==
    /\ "drop" \in Trouble /\ Move
    /\ net' = left
    /\ IF session.live THEN WillFires ELSE UNCHANGED broker
    /\ excused' = (excused \/ Moving)
    /\ UNCHANGED <<agent, outbox, worker, file, stored, acked>>

Heal ==
    /\ net # "all" /\ net' = "all"
    /\ UNCHANGED <<agent, outbox, worker, file, stored, broker, acked, excused>> /\ Still

-----------------------------------------------------------------------------
(* The main thread.                                                        *)

\* send_http(), which gives up after a while.
SendHttp == IF net # "nothing" THEN Reading ELSE UNCHANGED host

\* Deviation: a try is counted once HTTP is in use.
TransmitPatient ==
    /\ run = "up"
    /\ IF mqttOk
       THEN (IF session.live /\ host.up THEN Reading ELSE UNCHANGED host) /\ UNCHANGED <<fails, useHttp>>
       ELSE /\ fails' = IF useHttp /\ fails < Threshold THEN fails + 1 ELSE fails
            /\ useHttp' = (useHttp \/ fails' >= Threshold)
            /\ IF useHttp' THEN SendHttp ELSE UNCHANGED host
    /\ UNCHANGED <<run, site, mqttOk, will, outbox, worker, file, stored, net, session, retained, acked, excused>> /\ Still

\* transmit(): a reading, or a try that counts towards the fallback.
Transmit ==
    /\ run = "up"
    /\ IF mqttOk
       THEN (IF session.live /\ host.up THEN Reading ELSE UNCHANGED host) /\ UNCHANGED <<fails, useHttp>>
       ELSE /\ fails' = IF fails < Threshold THEN fails + 1 ELSE fails
            /\ useHttp' = (useHttp \/ fails' >= Threshold)
            /\ IF useHttp' THEN SendHttp ELSE UNCHANGED host
    /\ UNCHANGED <<run, site, mqttOk, will, outbox, worker, file, stored, net, session, retained, acked, excused>> /\ Still

\* SIGTERM: run() leaves its loop, shutdown() publishes offline.
Shutdown ==
    /\ "stop" \in Trouble /\ Move
    /\ run = "up" /\ run' = "stopping"
    /\ outbox' = IF mqttOk THEN Append(outbox, Msg(Offline, site)) ELSE outbox
    /\ excused' = (excused \/ Moving \/ (~mqttOk /\ retained[site] = Online))
    /\ UNCHANGED <<site, mqttOk, fails, useHttp, will, worker, file, stored, net, broker, acked>>

\* It has waited for the broker to have it, or for two seconds, and disconnects.
Ended ==
    /\ run = "stopping" /\ run' = "down"
    /\ mqttOk' = FALSE /\ outbox' = <<>> /\ worker' = <<>>
    /\ session' = NoSession
    /\ excused' = (excused \/ outbox # <<>> \/ Moving)
    /\ UNCHANGED <<site, fails, useHttp, will, file, stored, net, retained, host, acked>> /\ Still

\* The process dies; the broker notices.
Crash ==
    /\ "crash" \in Trouble /\ Move
    /\ run # "down" /\ run' = "down"
    /\ mqttOk' = FALSE /\ outbox' = <<>> /\ worker' = <<>>
    /\ IF session.live THEN WillFires ELSE UNCHANGED broker
    /\ excused' = (excused \/ Moving \/ (~session.live /\ retained[site] = Online))
    /\ UNCHANGED <<site, fails, useHttp, will, file, stored, net, acked>>

\* load_state(): what cannot be read as JSON is nothing, nor has every state a site.
LoadState == IF file.site \in Sites THEN file.site ELSE NoSite

\* Deviation: the configuration is not looked at.
StartFromFile ==
    /\ run = "down" /\ run' = "up"
    /\ stored' = LoadState
    /\ site' = file.site /\ will' = file.site
    /\ mqttOk' = FALSE /\ fails' = 0 /\ useHttp' = FALSE
    /\ UNCHANGED <<outbox, worker, file, net, broker, acked, excused>> /\ Still

\* The site of the state file comes before that of the configuration.
Start ==
    LET s == IF LoadState # NoSite THEN LoadState ELSE Configured IN
    /\ run = "down" /\ run' = "up"
    /\ stored' = LoadState
    /\ site' = s /\ will' = s
    /\ mqttOk' = FALSE /\ fails' = 0 /\ useHttp' = FALSE
    /\ UNCHANGED <<outbox, worker, file, net, broker, acked, excused>> /\ Still

-----------------------------------------------------------------------------
(* Commands, each in a thread of its own.                                  *)

At(w, pc) == run # "down" /\ worker[w].pc = pc
Goes(w, pc) == worker' = [worker EXCEPT ![w].pc = pc]
Returns(w) == worker' = SubSeq(worker, 1, w - 1) \o SubSeq(worker, w + 1, Len(worker))

\* _on_message(): the host publishes a command on the topic of the site that it
\* knows, and it gets a thread.
OnMessage(thread) ==
    /\ Move
    /\ run # "down" /\ host.up /\ session.live /\ host.site \in session.subs
    /\ worker' = Append(worker, thread)
    /\ UNCHANGED <<agent, outbox, file, net, broker, excused>>

Thread(pc, s, n, after) ==
    [pc |-> pc, to |-> s, old |-> site, n |-> n, text |-> NoSite, fd |-> "tmp", after |-> after]

\* save_state() of some thread is under way.
Saves(w) == worker[w].pc \in {"dump", "open", "write", "replace"}
Saving == \E w \in Workers : Saves(w)

\* After saves that overlap no answer promises anything, but to set_meta that are
\* still to come.
Void(n) == [n |-> n, past |-> n, site |-> NoSite, later |-> {}]

\* handle_command() of set_meta, which has something to do after the reply,
SetMeta(s) ==
    /\ OnMessage(Thread("dump", s, acked.n + 1, TRUE))
    /\ stored' = s
    /\ acked' = IF Saving THEN Void(acked.n + 1) ELSE [acked EXCEPT !.n = @ + 1, !.later = @ \union {s}]

\* of dns_probe, which saves self.state as well if it is told to remember,
Remember ==
    /\ OnMessage(Thread("dump", site, 0, FALSE))
    /\ acked' = IF Saving THEN Void(acked.n) ELSE acked
    /\ UNCHANGED stored

\* and of what is only answered.
HandleCommand ==
    /\ OnMessage(Thread("reply", site, 0, FALSE))
    /\ UNCHANGED <<stored, acked>>

\* save_state() makes a text of self.state,
Dump(w) ==
    /\ At(w, "dump")
    /\ worker' = [worker EXCEPT ![w].pc = "open", ![w].text = IF stored = NoSite THEN Bare ELSE stored]
    /\ UNCHANGED <<agent, outbox, file, stored, net, broker, acked, excused>> /\ Still

\* Deviation: the state file itself is opened, it is empty until it is written.
OpenInPlace(w) ==
    /\ At(w, "open")
    /\ file' = [site |-> NoSite, tmp |-> Empty]
    /\ Goes(w, "write")
    /\ UNCHANGED <<agent, outbox, stored, net, broker, acked, excused>> /\ Still

\* opens a file next to the state file, which empties it,
Open(w) ==
    /\ At(w, "open")
    /\ file' = [file EXCEPT !.tmp = Empty]
    /\ Goes(w, "write")
    /\ UNCHANGED <<agent, outbox, stored, net, broker, acked, excused>> /\ Still

\* writes to what it opened, wherever that is by now; of two texts over one
\* another one may be longer;
Write(w) ==
    LET f == worker[w].fd IN
    /\ At(w, "write")
    /\ IF f = "gone" THEN UNCHANGED file
       ELSE \E text \in IF file[f] = Empty THEN {worker[w].text} ELSE {worker[w].text, Mixed} :
                file' = [file EXCEPT ![f] = text]
    /\ worker' = [worker EXCEPT ![w].pc = "replace", ![w].text = NoSite]
    /\ UNCHANGED <<agent, outbox, stored, net, broker, acked, excused>> /\ Still

\* and puts it in its place; another thread may have been quicker.
Replace(w) ==
    /\ At(w, "replace")
    /\ IF file.tmp = NoSite
       THEN file' = file /\ Goes(w, "reply")
       ELSE /\ file' = [site |-> file.tmp, tmp |-> NoSite]
            /\ worker' = [v \in Workers |->
                  IF v = w THEN [worker[v] EXCEPT !.pc = "reply", !.fd = "tmp"]
                  ELSE IF worker[v].pc = "write"
                       THEN [worker[v] EXCEPT !.fd = IF @ = "tmp" THEN "site" ELSE "gone"]
                       ELSE worker[v]]
    /\ UNCHANGED <<agent, outbox, stored, net, broker, acked, excused>> /\ Still

\* An OSError of any of them is logged, and the command answered all the same; what
\* was being written may be there in part.  Its answer promises nothing.
SaveFails(w) ==
    LET f == worker[w].fd IN
    /\ "storage" \in Trouble /\ Move
    /\ run # "down" /\ Saves(w)
    /\ \/ UNCHANGED file
       \/ At(w, "write") /\ f # "gone" /\ file' = [file EXCEPT ![f] = Mixed]
    /\ worker' = [worker EXCEPT ![w].pc = "reply", ![w].text = NoSite, ![w].fd = "tmp", ![w].n = 0]
    /\ UNCHANGED <<agent, outbox, stored, net, broker, acked, excused>>

Reply(w) ==
    /\ At(w, "reply")
    /\ outbox' = Append(outbox, [kind |-> "reply", site |-> worker[w].to, n |-> worker[w].n])
    /\ IF worker[w].after THEN Goes(w, "apply") ELSE Returns(w)
    /\ UNCHANGED <<agent, file, stored, net, broker, acked, excused>> /\ Still

\* apply_meta(), once the reply is out or two seconds have passed: offline on
\* the old topic, the new site.
Apply(w) ==
    /\ At(w, "apply")
    /\ outbox' = IF mqttOk THEN Append(outbox, Msg(Offline, site)) ELSE outbox
    /\ site' = worker[w].to
    /\ worker' = [worker EXCEPT ![w].pc = "move", ![w].old = site]
    /\ excused' = (excused \/ Moving \/ ~mqttOk \/ ~session.live \/ run = "stopping")
    /\ UNCHANGED <<run, mqttOk, fails, useHttp, will, file, stored, net, broker, acked>> /\ Still

\* Deviation: the Will is left where it is.
RetopicOnly(w) ==
    /\ At(w, "move")
    /\ IF mqttOk
       THEN /\ outbox' = Append(outbox, Msg(Online, site))
            /\ session' = IF session.live THEN [session EXCEPT !.subs = (@ \ {worker[w].old}) \union {site}] ELSE session
            /\ Goes(w, "bounce")
       ELSE Returns(w) /\ UNCHANGED <<outbox, session>>
    /\ UNCHANGED <<agent, file, stored, net, retained, host, acked, excused>> /\ Still

\* The subscription and the status on the new topic, the Will for the next time.
Retopic(w) ==
    /\ At(w, "move")
    /\ IF mqttOk
       THEN /\ outbox' = Append(outbox, Msg(Online, site))
            /\ session' = IF session.live THEN [session EXCEPT !.subs = (@ \ {worker[w].old}) \union {site}] ELSE session
            /\ will' = site
            /\ Goes(w, "bounce")
       ELSE Returns(w) /\ UNCHANGED <<outbox, session, will>>
    /\ UNCHANGED <<run, site, mqttOk, fails, useHttp, file, stored, net, retained, host, acked, excused>> /\ Still

\* disconnect() and reconnect(): the DISCONNECT may reach the broker, after all
\* that was sent before it, or the end of the connection is all it sees.
Bounce(w) ==
    /\ At(w, "bounce")
    /\ \/ session.live /\ WillFires
       \/ (session.live => outbox = <<>>)
          /\ session' = NoSession /\ UNCHANGED <<retained, host>>
    /\ mqttOk' = FALSE
    /\ Returns(w)
    /\ UNCHANGED <<run, site, fails, useHttp, will, outbox, file, stored, net, acked, excused>> /\ Still

Save(w) == Dump(w) \/ Open(w) \/ Write(w) \/ Replace(w) \/ SaveFails(w)
Worker(w) == Save(w) \/ Reply(w) \/ Apply(w) \/ Retopic(w) \/ Bounce(w)

Next ==
    \/ Deliver \/ HostAges \/ HostLeaves \/ HostReturns
    \/ Connect \/ OnConnect \/ OnDisconnect \/ Heal
    \/ Transmit \/ Shutdown \/ Ended \/ Crash \/ Start
    \/ \E left \in {"all", "http", "nothing"} : Drop(left)
    \/ \E s \in Sites : SetMeta(s)
    \/ Remember \/ HandleCommand
    \/ \E w \in Workers : Worker(w)

Spec == Init /\ [][Next]_vars

\* The main loop sends again after each interval; paho notices a connection that
\* is gone.
Fairness == WF_vars(Transmit) /\ WF_vars(OnDisconnect)

FairSpec == Spec /\ Fairness

-----------------------------------------------------------------------------
(* What the agent promises.                                                *)

Quiet == outbox = <<>> /\ \A w \in Workers : worker[w].pc \notin {"apply", "move", "bounce"}

\* With nothing under way, a connected agent is online on the topic of its site
\* and on no other, hears the commands of this site, and has its Will there; of
\* an agent that is gone no online is left.  Two moves at once, a move without
\* a connection, and an end in the middle of one are excused.
PresenceIsTrue ==
    Quiet /\ ~excused =>
        /\ \A s \in Sites : retained[s] = Online => s = site
        /\ run = "up" /\ mqttOk /\ session.live /\ ~session.connack =>
            retained[site] = Online /\ session.will = site /\ session.subs = {site}
        /\ run = "down" => \A s \in Sites : retained[s] # Online

\* Once a set_meta is answered the state file holds its site, or that of one
\* that came later, whenever the agent dies, and whatever else is saved since, or
\* cannot be: save_state().  Saves that overlap share the file they write to,
\* whether a set_meta or a dns_probe started them, and nothing is promised of
\* what was answered before; nor is it of a set_meta whose own save failed.
MetaSurvives == acked.site # NoSite => LoadState \in {acked.site} \union acked.later

\* An agent that runs and cannot reach its broker any more is heard by the host
\* over HTTP: transmit().
FallsBack == (run = "up" /\ net = "http") ~> (host.heard \/ run # "up" \/ net # "http")

=============================================================================
