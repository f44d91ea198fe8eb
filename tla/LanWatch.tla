------------------------------ MODULE LanWatch ------------------------------
(***************************************************************************)
(* NetworkWatch of the fleet host: lookups of a watched site and devices   *)
(* new on the LAN become alerts in the store, which the loop of the watch  *)
(* clears when the hold time is over, and a lookup switches the light of   *)
(* the alarm board on, by a call of the board's own MCP server.            *)
(*                                                                         *)
(* An alert is <<kind, address>>, one watched domain stands for all.  Time *)
(* is the set of those whose hold time is over.  A statement takes effect  *)
(* on db in the order of the calls, whoever awaits it; raise_alert() and   *)
(* clear_alert() do not commit, other coroutines of the host do.  A call   *)
(* that the board does not answer in time may reach it all the same.       *)
(* A definition that is called a deviation is an operation with a mistake  *)
(* in it, to be put in the place of the one that follows it.               *)
(***************************************************************************)
EXTENDS Integers, Sequences, FiniteSets

CONSTANTS
    Ips,      \* addresses on the LAN
    MaxHits,  \* bound of the model: lookups and arrivals
    Faults    \* bound of the model: what may go wrong: "store", "mqtt", "board", "restart"

VARIABLES
    phase,    \* "up", or "stopped": stop() has ended the loop
    active,   \* active and new_devices: the alerts that the watch holds
    quiet,    \* those of them whose hold time is over
    task,     \* _busy: the coroutines of on_query() and on_new_device()
    loop,     \* where _loop() is, with its locals
    lightOn,  \* light_on
    dark,     \* alarm_light_hold_s has passed since the last lookup
    error,    \* light_error is set
    call,     \* the calls of set_actuator, in order
    lit,      \* the light of the board
    adrift,   \* no call has been answered since the host came up
    db,       \* the open alerts as the connection sees them
    saved,    \* the open alerts as of the last commit
    orphan,   \* open alerts that the watch has lost
    missed    \* alerts that the store refused

vars == <<phase, active, quiet, task, loop, lightOn, dark, error, call, lit, adrift, db, saved, orphan, missed>>
board == <<lit, adrift>>
light == <<lightOn, dark, error, call, board>>
store == <<db, saved, orphan, missed>>

Alerts == {"watch", "new"} \X Ips
Ids == 1..Len(task)
Calls == 1..Len(call)
Over == [alert |-> CHOOSE a \in Alerts : TRUE, pc |-> "done", fresh |-> FALSE, found |-> FALSE]
LoopIdle == [pc |-> "sleep", due |-> {}, dark |-> FALSE]

WatchTypeOK ==
    /\ phase \in {"up", "stopped"}
    /\ active \subseteq Alerts /\ quiet \subseteq active
    /\ task \in Seq([alert : Alerts, pc : {"label", "selected", "inserted", "done"}, fresh : BOOLEAN, found : BOOLEAN])
    /\ Len(task) <= MaxHits
    /\ loop \in [pc : {"sleep", "clear", "light"}, due : SUBSET Alerts, dark : BOOLEAN]
    /\ lightOn \in BOOLEAN /\ dark \in BOOLEAN /\ error \in BOOLEAN /\ lit \in BOOLEAN /\ adrift \in BOOLEAN
    /\ call \in Seq([on : BOOLEAN, at : {"wire", "board", "nowhere"}, open : BOOLEAN])
    /\ db \subseteq Alerts /\ saved \subseteq Alerts
    /\ orphan \subseteq Alerts /\ missed \subseteq Alerts

Init ==
    /\ phase = "up"
    /\ active = {} /\ quiet = {}
    /\ task = <<>> /\ loop = LoopIdle
    /\ lightOn = FALSE /\ dark = TRUE /\ error = FALSE /\ call = <<>> /\ lit = FALSE /\ adrift = FALSE
    /\ db = {} /\ saved = {} /\ orphan = {} /\ missed = {}

-----------------------------------------------------------------------------
(* The light.                                                              *)

\* The next call, after those from the first on that may still change something.
Settled == {n \in Calls : \A m \in 1..n : ~call[m].open /\ call[m].at # "wire"}
Then(c) == Append(SubSeq(call, Cardinality(Settled) + 1, Len(call)), c)

\* _set_light(): light_on first, then call_device(); a broker that is down
\* refuses the publish at once.
SetLight(on) ==
    /\ lightOn' = on
    /\ \/ /\ call' = Then([on |-> on, at |-> "wire", open |-> TRUE])
          /\ UNCHANGED error
       \/ /\ "mqtt" \in Faults
          /\ call' = Then([on |-> on, at |-> "nowhere", open |-> FALSE])
          /\ error' = TRUE

\* The end of _hit().
LightForHit == IF lightOn THEN UNCHANGED <<lightOn, error, call>> ELSE SetLight(TRUE)

First(n) == \A m \in Calls : call[m].at = "wire" => n <= m

\* The board executes set_actuator.
BoardSets(n) ==
    /\ call[n].at = "wire" /\ First(n)
    /\ call' = [call EXCEPT ![n].at = "board"]
    /\ lit' = call[n].on
    /\ UNCHANGED <<phase, active, quiet, task, loop, lightOn, dark, error, adrift, store>>

\* The command does not reach it.
BoardMisses(n) ==
    /\ "board" \in Faults
    /\ call[n].at = "wire" /\ First(n)
    /\ call' = [call EXCEPT ![n].at = "nowhere"]
    /\ UNCHANGED <<phase, active, quiet, task, loop, lightOn, dark, error, board, store>>

\* Deviation: light_on is set when the call returns.
LightOnLate(n) ==
    /\ call[n].open /\ call[n].at = "board"
    /\ call' = [call EXCEPT ![n].open = FALSE]
    /\ error' = FALSE
    /\ adrift' = FALSE
    /\ lightOn' = call[n].on
    /\ UNCHANGED <<phase, active, quiet, task, loop, dark, lit, store>>

\* call_device() returns the answer of the board.
CallAnswered(n) ==
    /\ call[n].open /\ call[n].at = "board"
    /\ call' = [call EXCEPT ![n].open = FALSE]
    /\ error' = FALSE
    /\ adrift' = FALSE
    /\ UNCHANGED <<phase, active, quiet, task, loop, lightOn, dark, lit, store>>

\* call_device() times out; calls time out in their order.
CallTimesOut(n) ==
    /\ "board" \in Faults
    /\ call[n].open /\ \A m \in 1..n - 1 : ~call[m].open
    /\ call' = [call EXCEPT ![n].open = FALSE]
    /\ error' = TRUE
    /\ UNCHANGED <<phase, active, quiet, task, loop, lightOn, dark, board, store>>

-----------------------------------------------------------------------------
(* Lookups and arrivals.                                                   *)

\* The SELECT of raise_alert(), where it is reached.
Asked(t) == [t EXCEPT !.pc = "selected", !.found = t.alert \in db]

\* on_query() of a watched name and _hit() up to its first await: the label of
\* an address may have to be read.
Hit(ip) ==
    LET a == <<"watch", ip>>
        t == [alert |-> a, pc |-> "label", fresh |-> a \notin active, found |-> FALSE] IN
    /\ Len(task) < MaxHits
    /\ active' = active \union {a}
    /\ quiet' = quiet \ {a}
    /\ dark' = FALSE
    /\ \/ task' = Append(task, t) /\ UNCHANGED <<lightOn, error, call>>
       \/ t.fresh /\ task' = Append(task, Asked(t)) /\ UNCHANGED <<lightOn, error, call>>
       \/ ~t.fresh /\ task' = Append(task, Over) /\ LightForHit
    /\ orphan' = orphan \ {a}
    /\ UNCHANGED <<phase, loop, board, db, saved, missed>>

\* _hit() goes on with the label.
Labelled(i) ==
    /\ task[i].pc = "label"
    /\ IF task[i].fresh
       THEN task' = [task EXCEPT ![i] = Asked(@)] /\ UNCHANGED <<lightOn, error, call>>
       ELSE task' = [task EXCEPT ![i] = Over] /\ LightForHit
    /\ UNCHANGED <<phase, active, quiet, loop, dark, board, store>>

\* on_new_device() and _new_device() up to its first await.  An address is
\* announced again after two hours at the earliest, see prune_lan(): its alert
\* has been cleared by then.
NewDevice(ip) ==
    LET a == <<"new", ip>> IN
    /\ Len(task) < MaxHits /\ a \notin active
    /\ active' = active \union {a}
    /\ quiet' = quiet \ {a}
    /\ task' = Append(task, Asked([alert |-> a, pc |-> "label", fresh |-> TRUE, found |-> FALSE]))
    /\ orphan' = orphan \ {a}
    /\ UNCHANGED <<phase, loop, light, db, saved, missed>>

\* The INSERT of raise_alert(), unless an open alert was found.
Insert(i) ==
    /\ task[i].pc = "selected"
    /\ db' = IF task[i].found THEN db ELSE db \union {task[i].alert}
    /\ missed' = missed \ {task[i].alert}
    /\ task' = [task EXCEPT ![i].pc = "inserted"]
    /\ UNCHANGED <<phase, active, quiet, loop, light, saved, orphan>>

\* It fails, and with it the coroutine.
InsertFails(i) ==
    /\ "store" \in Faults
    /\ task[i].pc = "selected"
    /\ missed' = missed \union {task[i].alert}
    /\ task' = [task EXCEPT ![i] = Over]
    /\ UNCHANGED <<phase, active, quiet, loop, light, db, saved, orphan>>

\* After raise_alert(): the light, for a lookup.
Raised(i) ==
    /\ task[i].pc = "inserted"
    /\ task' = [task EXCEPT ![i] = Over]
    /\ IF task[i].alert[1] = "watch" THEN LightForHit ELSE UNCHANGED <<lightOn, error, call>>
    /\ UNCHANGED <<phase, active, quiet, loop, dark, board, store>>

-----------------------------------------------------------------------------
(* Time, and the loop.                                                     *)

\* The hold time of an alert is over.  It is longer than the store takes.
HoldEnds(a) ==
    /\ \A i \in Ids : task[i].pc # "done" => task[i].alert # a
    /\ quiet' = quiet \union {a}
    /\ UNCHANGED <<phase, active, task, loop, light, store>>

\* So is the one of the light, and it is longer than a call may take.
LightHoldEnds ==
    /\ ~dark /\ \A n \in Calls : ~call[n].open
    /\ \A i \in Ids : task[i].pc # "done" => task[i].alert[1] # "watch"
    /\ dark' = TRUE
    /\ UNCHANGED <<phase, active, quiet, task, loop, lightOn, error, call, board, store>>

\* _loop() wakes up: now, and what it will find to be over by then.
Wake ==
    /\ phase = "up" /\ loop.pc = "sleep"
    /\ quiet # {} \/ (lightOn /\ dark)
    /\ loop' = [pc |-> "clear", due |-> quiet, dark |-> dark]
    /\ UNCHANGED <<phase, active, quiet, task, light, store>>

\* Deviation: the alert is dropped and not cleared.
DropOne(a) ==
    /\ loop.pc = "clear" /\ a \in loop.due
    /\ active' = active \ {a}
    /\ quiet' = quiet \ {a}
    /\ loop' = [loop EXCEPT !.due = @ \ {a}]
    /\ UNCHANGED <<phase, task, light, store>>

\* It drops and clears the next one that was over when it woke up, and awaits
\* the store.
ClearOne(a) ==
    /\ loop.pc = "clear" /\ a \in loop.due
    /\ active' = active \ {a}
    /\ quiet' = quiet \ {a}
    /\ db' = db \ {a}
    /\ missed' = missed \ {a}
    /\ loop' = [loop EXCEPT !.due = @ \ {a}]
    /\ UNCHANGED <<phase, task, light, saved, orphan>>

\* The store refuses: the alert is dropped all the same, the round is over.
ClearFails(a) ==
    /\ "store" \in Faults
    /\ loop.pc = "clear" /\ a \in loop.due
    /\ active' = active \ {a}
    /\ quiet' = quiet \ {a}
    /\ orphan' = orphan \union ({a} \intersect db)
    /\ missed' = missed \ {a}
    /\ loop' = LoopIdle
    /\ UNCHANGED <<phase, task, light, db, saved>>

\* Then the light, if no lookup has come since; the loop awaits the call.
LightOff ==
    /\ loop.pc = "clear" /\ loop.due = {}
    /\ IF lightOn /\ loop.dark /\ dark
       THEN SetLight(FALSE) /\ loop' = [LoopIdle EXCEPT !.pc = "light"]
       ELSE loop' = LoopIdle /\ UNCHANGED <<lightOn, error, call>>
    /\ UNCHANGED <<phase, active, quiet, task, dark, board, store>>

LoopGoesOn ==
    /\ loop.pc = "light"
    /\ \A n \in Calls : ~call[n].on => ~call[n].open
    /\ loop' = LoopIdle
    /\ UNCHANGED <<phase, active, quiet, task, light, store>>

\* Another coroutine of the host commits.
OtherCommit ==
    /\ saved # db
    /\ saved' = db
    /\ UNCHANGED <<phase, active, quiet, task, loop, light, db, orphan, missed>>

\* stop() ends the loop wherever it is, and switches the light off.  The DNS
\* resolver stops after the watch: lookups still come.
Stop ==
    /\ "restart" \in Faults /\ phase = "up"
    /\ phase' = "stopped"
    /\ loop' = LoopIdle
    /\ IF lightOn THEN SetLight(FALSE) ELSE UNCHANGED <<lightOn, error, call>>
    /\ UNCHANGED <<active, quiet, task, dark, board, store>>

\* The host comes up again, after stop() or a crash: what was not committed is
\* gone, and so is all that the watch knew.
Restart ==
    /\ "restart" \in Faults
    /\ phase' = "up"
    /\ active' = {} /\ quiet' = {}
    /\ task' = [i \in Ids |-> Over]
    /\ loop' = LoopIdle
    /\ lightOn' = FALSE /\ dark' = TRUE
    /\ error' = FALSE /\ adrift' = TRUE
    /\ call' = [n \in Calls |-> [call[n] EXCEPT !.open = FALSE, !.at = IF @ = "wire" THEN "nowhere" ELSE @]]
    /\ db' = saved
    /\ orphan' = saved
    /\ missed' = {}
    /\ UNCHANGED <<lit, saved>>

Next ==
    \/ \E ip \in Ips : Hit(ip) \/ NewDevice(ip)
    \/ \E i \in Ids : Labelled(i) \/ Insert(i) \/ InsertFails(i) \/ Raised(i)
    \/ \E a \in active \ quiet : HoldEnds(a)
    \/ \E a \in Alerts : ClearOne(a) \/ ClearFails(a)
    \/ LightHoldEnds \/ Wake \/ LightOff \/ LoopGoesOn \/ OtherCommit \/ Stop \/ Restart
    \/ \E n \in Calls : BoardSets(n) \/ BoardMisses(n) \/ CallAnswered(n) \/ CallTimesOut(n)

Spec == Init /\ [][Next]_vars

-----------------------------------------------------------------------------
(* What the watch promises.                                                *)

Raising(a) == \E i \in Ids : task[i].alert = a /\ task[i].fresh /\ task[i].pc \in {"label", "selected"}

\* What the watch holds is open in the store, unless it is about to be or the
\* store refused it; and an open alert is held, unless a restart or a failure of
\* the store came in between.  _hit(), _new_device(), _loop() of net_alerts.py.
AlertsFollowActivity ==
    /\ \A a \in active : a \in db \union missed \/ Raising(a)
    /\ db \subseteq active \union orphan

\* When no call is under way and the board has executed the last one, its light
\* is what light_on says, though _set_light() of _hit(), _loop() and stop()
\* overlap and earlier calls were refused, lost, or timed out and came late.
LightFollows ==
    (\A n \in Calls : ~call[n].open) /\ call # <<>> /\ call[Len(call)].at = "board" /\ ~adrift
        => lit = lightOn

=============================================================================
