----------------------------- MODULE McpServer ------------------------------
(***************************************************************************)
(* mcp::MCPServer of the node firmware on top of the uplink.  Four tasks   *)
(* take part: the MQTT task runs onDownlink() and onOversized(), the       *)
(* worker runs the jobs, the timer posts telemetry ticks and net_task      *)
(* drains the uplink.  They share the two FreeRTOS queues freeSlots_ and   *)
(* jobs_, the atomic fields of the slots, inFlight_ and tickQueued_.       *)
(*                                                                         *)
(* One action is what a task does up to the next access another task can   *)
(* observe.  Every access to the uplink is one action of module Uplink.    *)
(* A request is named by the order of its acceptance; the record requests  *)
(* is history (no code reads it) except for its rid.  Deviations are as in *)
(* module Uplink.                                                          *)
(***************************************************************************)
EXTENDS Uplink, FiniteSets

CONSTANTS
    JobSlots,     \* slotCount_
    Window,       \* kDedupeWindow
    Headers,      \* the REQ headers that gateways send
    MaxRequests   \* bound of the model: requests that are accepted

JobIdx == 0..(JobSlots - 1)
TickMsg == -1                           \* the JobMsg of kind kTick
NoRid == 0
Rids == {h.rid : h \in Headers}
Kinds == {"ACK", "RES", "CANCELLED", "DEADLINE_EXCEEDED", "OTHER"}

\* RES is the reply of a handler, be it RES or the ERR of a failure; OTHER is
\* TELEMETRY or the ERR for a REQ that was refused: no request waits for it.
Frame(kind, n) == [type |-> kind, req |-> n]
ReplyFrames == {f \in [type : Kinds, req : 0..MaxRequests] : f.type = "OTHER" <=> f.req = 0}

ASSUME ServerAssumption ==
    /\ JobSlots \in Nat \ {0} /\ Window \in Nat \ {0} /\ MaxRequests \in Nat
    /\ NoRid \notin Rids
    /\ Headers \subseteq [rid : Rids, budget : Nat \ {0}, ack : BOOLEAN, priority : BOOLEAN, broadcast : BOOLEAN]
    /\ {"mqtt", "worker"} \subseteq Producers
    /\ Frames = ReplyFrames /\ SaneFrames = Frames   \* the encoders write nothing else

VARIABLES
    freeSlots,    \* freeSlots_: job slots nobody uses
    jobs,         \* jobs_: JobMsg, a slot index or TickMsg
    slots,        \* slots_[i]: the fields the tasks look at
    inFlight,     \* inFlight_
    tickQueued,   \* tickQueued_
    recentRids, recentHead, recentCount,   \* the dedupe ring
    mqtt,         \* where the MQTT task is, and its locals
    worker,       \* where the worker is, and its locals
    requests      \* the accepted requests in order, with what became of them

ringVars == <<recentRids, recentHead, recentCount>>
serverVars == <<freeSlots, jobs, slots, inFlight, tickQueued, ringVars, mqtt, worker, requests>>
vars == <<uplinkVars, serverVars>>

Slot == [state : {"free", "queued", "running"}, req : 0..MaxRequests, nb : 0..MaxNow, deadline : Nat,
         cancelled : BOOLEAN]
Answers == {"RES", "CANCELLED", "DEADLINE_EXCEEDED"}
Request == [rid : Rids, acked : BOOLEAN, stage : {"accepted", "executed", "lost"} \union Answers,
            cancel : {"no", "asked", "doomed"}]
MqttState == [pc : {"idle", "ackAcquire", "ackSubmit", "enqueue", "errAcquire", "errSubmit", "cancel"},
              slot : JobIdx \union {NoSlot}, req : 0..MaxRequests, nb : 0..MaxNow, front : BOOLEAN]
WorkerState == [pc : {"idle", "tick", "start", "acquire", "run", "free", "return", "replyAcquire", "submit"},
                slot : JobIdx \union {NoSlot}, req : 0..MaxRequests, nb : 0..MaxNow, kind : Kinds \union {"DROPPED"}]

ServerTypeOK ==
    /\ freeSlots \in Seq(JobIdx)
    /\ jobs \in Seq(JobIdx \union {TickMsg})
    /\ slots \in [JobIdx -> Slot]
    /\ inFlight \in Int                  \* that it is never negative is in SlotStateTellsOwner
    /\ tickQueued \in BOOLEAN
    /\ recentRids \in [0..(Window - 1) -> Rids \union {NoRid}]
    /\ recentHead \in 0..(Window - 1) /\ recentCount \in 0..Window
    /\ mqtt \in MqttState
    /\ worker \in WorkerState
    /\ requests \in Seq(Request) /\ Len(requests) <= MaxRequests

MqttIdle == [pc |-> "idle", slot |-> NoSlot, req |-> 0, nb |-> 0, front |-> FALSE]
WorkerIdle == [pc |-> "idle", slot |-> NoSlot, req |-> 0, nb |-> 0, kind |-> "RES"]

ServerInit ==
    /\ freeSlots = [i \in 1..JobSlots |-> i - 1]
    /\ jobs = <<>>
    /\ slots = [s \in JobIdx |-> [state |-> "free", req |-> 0, nb |-> 0, deadline |-> 0, cancelled |-> FALSE]]
    /\ inFlight = 0
    /\ tickQueued = FALSE
    /\ recentRids = [i \in 0..(Window - 1) |-> NoRid] /\ recentHead = 0 /\ recentCount = 0
    /\ mqtt = MqttIdle
    /\ worker = WorkerIdle
    /\ requests = <<>>

Init == UplinkInit /\ ServerInit

\* What the program counters say about the locals.
LocalsOK ==
    /\ mqtt.pc \in {"ackAcquire", "ackSubmit", "enqueue"} => mqtt.slot \in JobIdx /\ mqtt.req # 0
    /\ mqtt.pc = "cancel" => mqtt.slot \in JobIdx
    /\ worker.pc \in {"start", "acquire", "run", "free", "return"} => worker.slot \in JobIdx
    /\ worker.pc \in {"acquire", "run"} => worker.kind = "RES" /\ worker.req # 0
    /\ worker.pc \in {"free", "return"} => worker.kind \in Answers \union {"DROPPED"} /\ worker.req # 0
    /\ worker.pc \in {"replyAcquire", "submit"} =>
         worker.kind \in Answers \union {"OTHER"} /\ (worker.kind = "OTHER" <=> worker.req = 0)
    /\ \A s \in JobIdx : s \notin ToSet(freeSlots) => slots[s].req # 0

\* History: request n reached a stage; frames without a request have n = 0.
Reach(n, stage) == IF n = 0 THEN requests ELSE [requests EXCEPT ![n].stage = stage]

-----------------------------------------------------------------------------
(* The MQTT task: every timeout is zero.                                   *)

\* Deviation: the newest entry of the ring is not looked at.
RidSeenOffByOne(rid) == \E i \in 0..(Window - 1) : i < recentCount - 1 /\ recentRids[i] = rid

RidSeen(rid) == \E i \in 0..(Window - 1) : i < recentCount /\ recentRids[i] = rid

\* Deviation: the head of the ring does not wrap.
RememberPastEnd(rid) ==
    /\ recentRids' = [recentRids EXCEPT ![recentHead] = rid]
    /\ recentHead' = recentHead + 1
    /\ recentCount' = IF recentCount < Window THEN recentCount + 1 ELSE recentCount

RememberRid(rid) ==
    /\ recentRids' = [recentRids EXCEPT ![recentHead] = rid]
    /\ recentHead' = (recentHead + 1) % Window
    /\ recentCount' = IF recentCount < Window THEN recentCount + 1 ELSE recentCount

\* replyNotBefore(): 0, or a random instant from now on for a BROADCAST.
NotBefore(h) == IF h.broadcast THEN now..MaxNow ELSE {0}

\* sendError() with the header of a request that never got a slot.
SendRefusal(nb) ==
    /\ mqtt' = [MqttIdle EXCEPT !.pc = "errAcquire", !.nb = nb]
    /\ UNCHANGED <<uplinkVars, freeSlots, jobs, slots, inFlight, tickQueued, ringVars, worker, requests>>

\* A header that is readable but wrong, a frame too large, an unknown tool.
OnRejected(nb) == mqtt.pc = "idle" /\ SendRefusal(nb)

OnDuplicate(h, nb) == mqtt.pc = "idle" /\ RidSeen(h.rid) /\ SendRefusal(nb)

OnBusy(h, nb) == mqtt.pc = "idle" /\ ~ RidSeen(h.rid) /\ freeSlots = <<>> /\ SendRefusal(nb)

\* Deviation: the flag of the previous job stays.
ClaimKeepsFlag(h, nb) ==
    [state |-> "queued", req |-> Len(requests) + 1, nb |-> nb, deadline |-> now + h.budget,
     cancelled |-> slots[Head(freeSlots)].cancelled]

Claimed(h, nb) ==
    [state |-> "queued", req |-> Len(requests) + 1, nb |-> nb, deadline |-> now + h.budget, cancelled |-> FALSE]

\* The slot is claimed and filled.  Until the job is in jobs_ only this task
\* looks at it, so the whole claim is one action.
OnAccepted(h, nb) ==
    LET s == Head(freeSlots)
        n == Len(requests) + 1
    IN /\ mqtt.pc = "idle"
       /\ ~ RidSeen(h.rid)
       /\ freeSlots # <<>>
       /\ n <= MaxRequests
       /\ freeSlots' = Tail(freeSlots)
       /\ slots' = [slots EXCEPT ![s] = Claimed(h, nb)]
       /\ RememberRid(h.rid)
       /\ inFlight' = inFlight + 1
       /\ mqtt' = [pc |-> IF h.ack THEN "ackAcquire" ELSE "enqueue",
                   slot |-> s, req |-> n, nb |-> nb, front |-> h.priority]
       /\ requests' = Append(requests, [rid |-> h.rid, acked |-> FALSE, stage |-> "accepted", cancel |-> "no"])
       /\ UNCHANGED <<uplinkVars, jobs, tickQueued, worker>>

\* sendAck() and sendError(): acquire(0), then submit(0).
MqttBuffer ==
    /\ mqtt.pc \in {"ackAcquire", "errAcquire"}
    /\ Acquire("mqtt")
    /\ mqtt' = [mqtt EXCEPT !.pc = IF mqtt.pc = "ackAcquire" THEN "ackSubmit" ELSE "errSubmit"]
    /\ UNCHANGED <<freeSlots, jobs, slots, inFlight, tickQueued, ringVars, worker, requests>>

MqttNoBuffer ==
    /\ mqtt.pc \in {"ackAcquire", "errAcquire"}
    /\ freeQ = <<>>
    /\ mqtt' = IF mqtt.pc = "ackAcquire" THEN [mqtt EXCEPT !.pc = "enqueue"] ELSE MqttIdle
    /\ UNCHANGED <<uplinkVars, freeSlots, jobs, slots, inFlight, tickQueued, ringVars, worker, requests>>

MqttSubmit ==
    /\ \/ /\ mqtt.pc = "ackSubmit"
          /\ Submit("mqtt", Frame("ACK", mqtt.req), mqtt.nb)
          /\ mqtt' = [mqtt EXCEPT !.pc = "enqueue"]
       \/ /\ mqtt.pc = "errSubmit"
          /\ Submit("mqtt", Frame("OTHER", 0), mqtt.nb)
          /\ mqtt' = MqttIdle
    /\ UNCHANGED <<freeSlots, jobs, slots, inFlight, tickQueued, ringVars, worker, requests>>

\* The job becomes visible to the worker.  The ELSE branch is the one the
\* code calls unreachable by construction.
Enqueue ==
    /\ mqtt.pc = "enqueue"
    /\ IF Len(jobs) < JobSlots + 2
       THEN /\ jobs' = IF mqtt.front THEN <<mqtt.slot>> \o jobs ELSE Append(jobs, mqtt.slot)
            /\ mqtt' = MqttIdle
            /\ UNCHANGED <<freeSlots, slots, inFlight, requests>>
       ELSE /\ slots' = [slots EXCEPT ![mqtt.slot].state = "free"]
            /\ inFlight' = inFlight - 1
            /\ freeSlots' = Send(freeSlots, mqtt.slot, JobSlots)
            /\ mqtt' = [MqttIdle EXCEPT !.pc = "errAcquire", !.nb = mqtt.nb]
            /\ requests' = Reach(mqtt.req, "lost")
            /\ UNCHANGED jobs
    /\ UNCHANGED <<uplinkVars, tickQueued, ringVars, worker>>

\* handleCancel(): the first slot that is in use for the rid ...
Live(s) == slots[s].state \in {"queued", "running"}
Matches(s, rid) == Live(s) /\ requests[slots[s].req].rid = rid

CancelLook(rid) ==
    /\ mqtt.pc = "idle"
    /\ \E s \in JobIdx :
         /\ Matches(s, rid)
         /\ \A t \in JobIdx : t < s => ~ Matches(t, rid)
         /\ mqtt' = [MqttIdle EXCEPT !.pc = "cancel", !.slot = s]
         /\ requests' = [requests EXCEPT ![slots[s].req].cancel = IF @ = "no" THEN "asked" ELSE @]
    /\ UNCHANGED <<uplinkVars, freeSlots, jobs, slots, inFlight, tickQueued, ringVars, worker>>

\* ... gets the flag; the worker may have finished the job since.
CancelMark ==
    LET s == mqtt.slot IN
    /\ mqtt.pc = "cancel"
    /\ slots' = [slots EXCEPT ![s].cancelled = TRUE]
    /\ requests' = IF slots[s].state = "queued"
                   THEN [requests EXCEPT ![slots[s].req].cancel = "doomed"] ELSE requests
    /\ mqtt' = MqttIdle
    /\ UNCHANGED <<uplinkVars, freeSlots, jobs, inFlight, tickQueued, ringVars, worker>>

Mqtt ==
    \/ \E h \in Headers : \E nb \in NotBefore(h) :
         OnRejected(nb) \/ OnDuplicate(h, nb) \/ OnBusy(h, nb) \/ OnAccepted(h, nb)
    \/ \E rid \in Rids : CancelLook(rid)
    \/ MqttBuffer \/ MqttNoBuffer \/ MqttSubmit \/ Enqueue \/ CancelMark

-----------------------------------------------------------------------------
(* The timer: postTick(), coalesced by tickQueued_.                        *)

\* Deviation: postTick() without the exchange on tickQueued_.
PostEveryTick ==
    /\ jobs' = IF Len(jobs) < JobSlots + 2 THEN Append(jobs, TickMsg) ELSE jobs
    /\ tickQueued' = TRUE
    /\ UNCHANGED <<uplinkVars, freeSlots, slots, inFlight, ringVars, mqtt, worker, requests>>

PostTick ==
    /\ ~ tickQueued
    /\ IF Len(jobs) < JobSlots + 2
       THEN jobs' = Append(jobs, TickMsg) /\ tickQueued' = TRUE
       ELSE UNCHANGED <<jobs, tickQueued>>
    /\ UNCHANGED <<uplinkVars, freeSlots, slots, inFlight, ringVars, mqtt, worker, requests>>

-----------------------------------------------------------------------------
(* The worker.                                                             *)

\* Deviation: the job is looked at but stays in the queue.
WorkerPeeks ==
    /\ worker.pc = "idle" /\ jobs # <<>> /\ Head(jobs) # TickMsg
    /\ worker' = [WorkerIdle EXCEPT !.pc = "start", !.slot = Head(jobs)]
    /\ UNCHANGED <<uplinkVars, freeSlots, jobs, slots, inFlight, tickQueued, ringVars, mqtt, requests>>

WorkerReceive ==
    /\ worker.pc = "idle"
    /\ jobs # <<>>
    /\ jobs' = Tail(jobs)
    /\ worker' = IF Head(jobs) = TickMsg THEN [WorkerIdle EXCEPT !.pc = "tick"]
                 ELSE [WorkerIdle EXCEPT !.pc = "start", !.slot = Head(jobs)]
    /\ UNCHANGED <<uplinkVars, freeSlots, slots, inFlight, tickQueued, ringVars, mqtt, requests>>

\* runTick(): onTick() skips the snapshot while the link is down.
WorkerTick ==
    /\ worker.pc = "tick"
    /\ tickQueued' = FALSE
    /\ \E linkUp \in BOOLEAN :
         worker' = IF linkUp THEN [WorkerIdle EXCEPT !.pc = "replyAcquire", !.kind = "OTHER"] ELSE WorkerIdle
    /\ UNCHANGED <<uplinkVars, freeSlots, jobs, slots, inFlight, ringVars, mqtt, requests>>

\* Deviation: a CANCEL that came while the job was queued is ignored.
VerdictWithoutCancel(s) == IF now >= s.deadline THEN "DEADLINE_EXCEEDED" ELSE "RES"

\* Cancelled first, then the deadline.
Verdict(s) == IF s.cancelled THEN "CANCELLED" ELSE IF now >= s.deadline THEN "DEADLINE_EXCEEDED" ELSE "RES"

\* runJob() up to the uplink buffer.
JobStart ==
    LET s == slots[worker.slot]
        kind == Verdict(s)
    IN /\ worker.pc = "start"
       /\ slots' = [slots EXCEPT ![worker.slot].state = "running"]
       /\ worker' = [pc |-> IF kind = "RES" THEN "acquire" ELSE "free",
                     slot |-> worker.slot, req |-> s.req, nb |-> s.nb, kind |-> kind]
       /\ UNCHANGED <<uplinkVars, freeSlots, jobs, inFlight, tickQueued, ringVars, mqtt, requests>>

\* acquire() with a wait: a buffer, or none until the time was up.
WorkerBuffer ==
    /\ worker.pc \in {"acquire", "replyAcquire"}
    /\ Acquire("worker")
    /\ worker' = [worker EXCEPT !.pc = IF worker.pc = "acquire" THEN "run" ELSE "submit"]
    /\ UNCHANGED <<freeSlots, jobs, slots, inFlight, tickQueued, ringVars, mqtt, requests>>

WorkerNoBuffer ==
    /\ worker.pc \in {"acquire", "replyAcquire"}
    /\ freeQ = <<>>
    /\ requests' = Reach(worker.req, "lost")
    /\ worker' = IF worker.pc = "acquire" THEN [worker EXCEPT !.pc = "free", !.kind = "DROPPED"] ELSE WorkerIdle
    /\ UNCHANGED <<uplinkVars, freeSlots, jobs, slots, inFlight, tickQueued, ringVars, mqtt>>

\* The handler runs to its end; a CANCEL that arrived since JobStart only
\* shows in the flag it may poll.
RunHandler ==
    /\ worker.pc = "run"
    /\ requests' = Reach(worker.req, "executed")
    /\ worker' = [worker EXCEPT !.pc = "free"]
    /\ UNCHANGED <<uplinkVars, freeSlots, jobs, slots, inFlight, tickQueued, ringVars, mqtt>>

\* Deviation: freeSlot() that leaves the state as it is.
FreeKeepsState ==
    /\ worker.pc = "free"
    /\ inFlight' = inFlight - 1
    /\ worker' = [worker EXCEPT !.pc = "return"]
    /\ UNCHANGED <<uplinkVars, freeSlots, jobs, slots, tickQueued, ringVars, mqtt, requests>>

\* freeSlot(): the state and the counter first, then the queue.
FreeMark ==
    /\ worker.pc = "free"
    /\ slots' = [slots EXCEPT ![worker.slot].state = "free"]
    /\ inFlight' = inFlight - 1
    /\ worker' = [worker EXCEPT !.pc = "return"]
    /\ UNCHANGED <<uplinkVars, freeSlots, jobs, tickQueued, ringVars, mqtt, requests>>

\* Deviation: runJob() returns without its reply.
FreeWithoutReply ==
    /\ worker.pc = "return"
    /\ freeSlots' = Send(freeSlots, worker.slot, JobSlots)
    /\ worker' = WorkerIdle
    /\ UNCHANGED <<uplinkVars, jobs, slots, inFlight, tickQueued, ringVars, mqtt, requests>>

FreeReturn ==
    /\ worker.pc = "return"
    /\ freeSlots' = Send(freeSlots, worker.slot, JobSlots)
    /\ worker' = IF worker.kind = "DROPPED" THEN WorkerIdle
                 ELSE [worker EXCEPT !.slot = NoSlot, !.pc = IF worker.kind = "RES" THEN "submit" ELSE "replyAcquire"]
    /\ UNCHANGED <<uplinkVars, jobs, slots, inFlight, tickQueued, ringVars, mqtt, requests>>

\* The reply or the telemetry is submitted; an encoder that failed releases.
WorkerSubmit ==
    /\ worker.pc = "submit"
    /\ \/ Submit("worker", Frame(worker.kind, worker.req), worker.nb)
       \/ Release("worker")
    /\ requests' = IF txQ' = txQ THEN Reach(worker.req, "lost") ELSE requests
    /\ worker' = WorkerIdle
    /\ UNCHANGED <<freeSlots, jobs, slots, inFlight, tickQueued, ringVars, mqtt>>

Worker ==
    \/ WorkerReceive \/ WorkerTick \/ JobStart \/ WorkerBuffer \/ WorkerNoBuffer
    \/ RunHandler \/ FreeMark \/ FreeReturn \/ WorkerSubmit

-----------------------------------------------------------------------------
(* net_task: the uplink's consumer; Publish is its ReleaseDrawn.           *)

\* The frame goes to the MQTT client, or is dropped because the link is down
\* or the client's outbox is full.
Publish(sent) ==
    LET frame == drawn[1].frame IN
    /\ ReleaseDrawn
    /\ requests' = IF frame.type # "ACK" THEN Reach(frame.req, IF sent THEN frame.type ELSE "lost")
                   ELSE IF sent THEN [requests EXCEPT ![frame.req].acked = TRUE]
                   ELSE requests
    /\ UNCHANGED <<freeSlots, jobs, slots, inFlight, tickQueued, ringVars, mqtt, worker>>

Net ==
    \/ (NextDueEntry \/ NextDueReceive \/ NextDueTimeout) /\ UNCHANGED serverVars
    \/ \E sent \in BOOLEAN : Publish(sent)

Clock == Tick /\ UNCHANGED serverVars

Next == Mqtt \/ PostTick \/ Worker \/ Net \/ Clock

Spec == Init /\ [][Next]_vars

\* The tasks are scheduled, the handlers return, a call of the MQTT client
\* into onDownlink() ends, and time passes.
FairSpec ==
    /\ Spec
    /\ WF_vars(MqttBuffer \/ MqttNoBuffer \/ MqttSubmit \/ Enqueue \/ CancelMark)
    /\ WF_vars(Worker)
    /\ WF_vars(Net)
    /\ WF_vars(Clock)

-----------------------------------------------------------------------------
(* Job slots.                                                              *)

ClaimedSlots == IF mqtt.pc \in {"ackAcquire", "ackSubmit", "enqueue"} THEN {mqtt.slot} ELSE {}
QueuedSlots == ToSet(jobs) \ {TickMsg}
WorkerSlots == IF worker.pc \in {"start", "acquire", "run", "free", "return"} THEN {worker.slot} ELSE {}

\* A job slot is free, being filled, queued or with the worker, and only one
\* of these: no frame is overwritten while a handler reads its arguments and
\* no slot is lost (the comments at MCPServer.cpp:346 and 424).
JobSlotOneOwner ==
    /\ Injective(freeSlots) /\ Injective(jobs)
    /\ ToSet(freeSlots) \intersect (ClaimedSlots \union QueuedSlots \union WorkerSlots) = {}
    /\ ClaimedSlots \intersect (QueuedSlots \union WorkerSlots) = {}
    /\ QueuedSlots \intersect WorkerSlots = {}
    /\ JobIdx \subseteq ToSet(freeSlots) \union ClaimedSlots \union QueuedSlots \union WorkerSlots

\* tickQueued_ keeps the ticks in jobs_ down to one.
TickOnce ==
    /\ TickMsg \in ToSet(jobs) => tickQueued
    /\ worker.pc = "tick" => tickQueued /\ TickMsg \notin ToSet(jobs)

\* The two branches for a full job queue are never taken: jobs_ has room for
\* every slot, one tick and one more (MCPServer.cpp:136-137 and 345-352).
JobQueueHasRoom == mqtt.pc = "enqueue" \/ ~ tickQueued => Len(jobs) < JobSlots + 2

\* The state that handleCancel() trusts agrees with where the slot really
\* is, at every interleaving of freeSlot() with a new claim; and inFlight_
\* counts the live slots, so that the unsigned counter never wraps below zero.
SlotStateTellsOwner ==
    /\ \A s \in JobIdx :
        /\ slots[s].state = "free" <=> s \in ToSet(freeSlots) \/ (worker.pc = "return" /\ worker.slot = s)
        /\ slots[s].state = "running" <=> worker.pc \in {"acquire", "run", "free"} /\ worker.slot = s
    /\ inFlight = Cardinality({s \in JobIdx : Live(s)})

\* A flag left behind by the previous job of a slot (handleCancel() may set
\* it after the slot was freed) never reaches the next one.
CancelFlagFresh == \A s \in JobIdx : Live(s) /\ slots[s].cancelled => requests[slots[s].req].cancel # "no"

-----------------------------------------------------------------------------
(* Requests.                                                               *)

\* The ring holds the rids of the last Window accepted requests, and no two
\* of these are equal: a redelivered REQ is not executed again while it is
\* in the window (PHASE-3-FIRMWARE.md:75).
DedupeRing ==
    LET recent == {n \in 1..Len(requests) : n > Len(requests) - Window} IN
    /\ {recentRids[i] : i \in {j \in 0..(Window - 1) : j < recentCount}} = {requests[n].rid : n \in recent}
    /\ \A m, n \in recent : requests[m].rid = requests[n].rid => m = n

\* Where the reply to request n may still come from.
OnTheWay == parked \o txQ \o drawn
Carriers(n) ==
    {<<"slot", s>> : s \in {t \in JobIdx : Live(t) /\ slots[t].req = n}}
    \union {<<"worker", 0>> : w \in {v \in {worker} : /\ v.req = n /\ v.kind # "DROPPED"
                                                       /\ v.pc \in {"return", "replyAcquire", "submit"}}}
    \union {<<"uplink", i>> : i \in {j \in 1..Len(OnTheWay) : OnTheWay[j].frame.req = n /\ OnTheWay[j].frame.type # "ACK"}}

Pending(n) == requests[n].stage \in {"accepted", "executed"}

\* A request that has no answer yet is on its way in exactly one place, and
\* one that was answered or lost can not be answered again.
OneCarrier ==
    \A n \in 1..Len(requests) :
        /\ Pending(n) => Cardinality(Carriers(n)) = 1
        /\ ~ Pending(n) => \A c \in Carriers(n) : c[1] = "slot"

\* What the gateway may rely on for each request (module RequestLedger).
Ledger == INSTANCE RequestLedger WITH ledger <- requests
ImplementsLedger == Ledger!Spec

\* The server uses the uplink only as the uplink expects.
ImplementsUplink == UplinkSpec

\* Every accepted request is answered or its reply is counted as lost.
EveryRequestSettles ==
    \A n \in 1..MaxRequests : (n <= Len(requests)) ~> (n <= Len(requests) /\ ~ Pending(n))

=============================================================================
