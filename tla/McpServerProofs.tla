-------------------------- MODULE McpServerProofs ---------------------------
(***************************************************************************)
(* Proofs about the server for every number of slots, buffers and headers: *)
(* types, one owner per job slot, the job queue that never fills up, that  *)
(* the server is a legal user of the uplink; then the fields of the slots  *)
(* that several tasks read: the state that handleCancel() trusts, the      *)
(* flag cancelled, the counter inFlight_, and the ring of the rids seen    *)
(* last.                                                                   *)
(***************************************************************************)
EXTENDS McpServer, UplinkProofs

-----------------------------------------------------------------------------
(* Types.                                                                  *)

\* The constants, in the form the other proofs use.
LEMMA Bounds ==
    /\ JobSlots \in Nat \ {0} /\ Window \in Nat \ {0} /\ MaxRequests \in Nat
    /\ MaxNow \in Nat /\ UplinkSlots \in Nat \ {0}
    /\ NoSlot = -1 /\ TickMsg = -1 /\ TickMsg \notin JobIdx /\ NoSlot \notin JobIdx
    /\ "mqtt" \in Producers /\ "worker" \in Producers
BY ServerAssumption, UplinkAssumption DEF JobIdx, NoSlot, TickMsg

\* A task between two calls.
LEMMA IdleTypes ==
    /\ MqttIdle \in MqttState /\ MqttIdle.pc = "idle"
    /\ WorkerIdle \in WorkerState /\ WorkerIdle.pc = "idle"
BY Bounds DEF MqttIdle, MqttState, WorkerIdle, WorkerState, Kinds

\* begin() (MCPServer.cpp:118-151).
LEMMA ServerInitTypes == ServerInit => ServerTypeOK /\ LocalsOK
<1> SUFFICES ASSUME ServerInit PROVE ServerTypeOK /\ LocalsOK
  OBVIOUS
<1>1. freeSlots \in Seq(JobIdx) /\ ToSet(freeSlots) = JobIdx
  <2>0. freeSlots = [i \in 1..JobSlots |-> i - 1] /\ JobSlots \in Nat
    BY Bounds DEF ServerInit
  <2>1. freeSlots \in [1..JobSlots -> JobIdx]
    BY <2>0 DEF JobIdx
  <2>2. freeSlots \in Seq(JobIdx) /\ Len(freeSlots) = JobSlots
    BY <2>0, <2>1
  <2>3. \A s \in JobIdx : s + 1 \in 1..JobSlots /\ freeSlots[s + 1] = s
    BY <2>0 DEF JobIdx
  <2>4. ToSet(freeSlots) = {freeSlots[i] : i \in 1..JobSlots}
    BY <2>2, ToSetOfSeq
  <2>5. \A i \in 1..JobSlots : freeSlots[i] \in JobIdx
    BY <2>1
  <2> QED BY <2>2, <2>3, <2>4, <2>5
<1>2. slots \in [JobIdx -> Slot]
  BY Bounds DEF ServerInit, Slot
<1>3. /\ recentRids \in [0..(Window - 1) -> Rids \union {NoRid}]
      /\ recentHead \in 0..(Window - 1) /\ recentCount \in 0..Window
  BY Bounds DEF ServerInit
<1>4. mqtt \in MqttState /\ mqtt.pc = "idle" /\ worker \in WorkerState /\ worker.pc = "idle"
  BY IdleTypes DEF ServerInit
<1>5. jobs \in Seq(JobIdx \union {TickMsg}) /\ inFlight \in Int /\ tickQueued \in BOOLEAN
  <2>1. jobs = <<>> /\ inFlight = 0 /\ tickQueued = FALSE
    BY DEF ServerInit
  <2>2. <<>> \in Seq(JobIdx \union {TickMsg})
    BY EmptySeq
  <2>3. tickQueued \in BOOLEAN
    BY <2>1
  <2>4. inFlight \in Int
    BY <2>1
  <2> QED BY <2>1, <2>2, <2>3, <2>4
<1>6. requests \in Seq(Request) /\ Len(requests) <= MaxRequests
  BY Bounds DEF ServerInit
<1>7. ServerTypeOK
  BY <1>1, <1>2, <1>3, <1>4, <1>5, <1>6 DEF ServerTypeOK
<1>8. LocalsOK
  BY <1>1, <1>4 DEF LocalsOK
<1> QED BY <1>7, <1>8

\* What a receive takes from a queue was in it and leaves the rest.
LEMMA TailElements ==
    ASSUME NEW S, NEW q \in Seq(S), q # <<>>
    PROVE  ToSet(q) \subseteq ToSet(Tail(q)) \union {Head(q)} /\ ToSet(Tail(q)) \subseteq ToSet(q)
<1>1. /\ Len(q) \in Nat \ {0} /\ Len(Tail(q)) = Len(q) - 1 /\ Tail(q) \in Seq(S)
      /\ \A i \in 1..Len(Tail(q)) : Tail(q)[i] = q[i + 1]
      /\ Head(q) = q[1]
  OBVIOUS
<1>2. /\ ToSet(q) = {q[i] : i \in 1..Len(q)}
      /\ ToSet(Tail(q)) = {Tail(q)[i] : i \in 1..Len(Tail(q))}
  BY <1>1, ToSetOfSeq
<1>3. \A i \in 1..Len(q) : i = 1 \/ (i - 1 \in 1..Len(Tail(q)) /\ Tail(q)[i - 1] = q[i])
  BY <1>1
<1>4. \A i \in 1..Len(Tail(q)) : i + 1 \in 1..Len(q)
  BY <1>1
<1>5. ASSUME NEW x \in ToSet(q) PROVE x \in ToSet(Tail(q)) \union {Head(q)}
  <2>1. PICK i \in 1..Len(q) : x = q[i]
    BY <1>2
  <2> QED BY <1>1, <1>2, <1>3, <2>1
<1>6. ASSUME NEW x \in ToSet(Tail(q)) PROVE x \in ToSet(q)
  <2>1. PICK i \in 1..Len(Tail(q)) : x = Tail(q)[i]
    BY <1>2
  <2> QED BY <1>1, <1>2, <1>4, <2>1
<1> QED BY <1>5, <1>6

\* History records keep their type whatever field is recorded.
LEMMA ReachKeepsType ==
    ASSUME requests \in Seq(Request), Len(requests) <= MaxRequests,
           NEW n \in 0..MaxRequests, NEW stage \in {"accepted", "executed", "lost"} \union Answers
    PROVE  Reach(n, stage) \in Seq(Request) /\ Len(Reach(n, stage)) <= MaxRequests
<1> DEFINE r == [requests EXCEPT ![n].stage = stage]
<1>1. Len(requests) \in Nat /\ requests \in [1..Len(requests) -> Request]
  BY LenProperties
<1>2. r \in [1..Len(requests) -> Request]
  BY <1>1 DEF Request
<1>3. r \in Seq(Request) /\ Len(r) = Len(requests)
  BY <1>1, <1>2
<1> QED BY <1>3 DEF Reach

\* Updating one field of a record of the history keeps its type.
LEMMA RecordKeepsType ==
    ASSUME requests \in Seq(Request), Len(requests) <= MaxRequests, NEW n
    PROVE  /\ LET r == [requests EXCEPT ![n].cancel = IF @ = "no" THEN "asked" ELSE @]
              IN  r \in Seq(Request) /\ Len(r) <= MaxRequests
           /\ LET r == [requests EXCEPT ![n].cancel = "doomed"]
              IN  r \in Seq(Request) /\ Len(r) <= MaxRequests
           /\ LET r == [requests EXCEPT ![n].acked = TRUE]
              IN  r \in Seq(Request) /\ Len(r) <= MaxRequests
<1> DEFINE r1 == [requests EXCEPT ![n].cancel = IF @ = "no" THEN "asked" ELSE @]
           r2 == [requests EXCEPT ![n].cancel = "doomed"]
           r3 == [requests EXCEPT ![n].acked = TRUE]
<1>1. Len(requests) \in Nat /\ requests \in [1..Len(requests) -> Request]
  BY LenProperties
<1>2. r1 \in [1..Len(requests) -> Request]
  BY <1>1 DEF Request
<1>3. r2 \in [1..Len(requests) -> Request]
  BY <1>1 DEF Request
<1>4. r3 \in [1..Len(requests) -> Request]
  BY <1>1 DEF Request
<1>5. \A r \in [1..Len(requests) -> Request] : r \in Seq(Request) /\ Len(r) = Len(requests)
  BY <1>1
<1> QED BY <1>2, <1>3, <1>4, <1>5

\* A step of the MQTT task that moves on with what it has, or gives up.
LEMMA MqttMoves ==
    ASSUME ServerTypeOK, LocalsOK, mqtt' \in MqttState,
           \/ mqtt'.pc \in {"idle", "errAcquire", "errSubmit"}
           \/ /\ mqtt.pc \in {"ackAcquire", "ackSubmit", "enqueue"}
              /\ mqtt'.slot = mqtt.slot /\ mqtt'.req = mqtt.req
              /\ mqtt'.pc # "cancel",
           UNCHANGED <<freeSlots, jobs, slots, inFlight, tickQueued, recentRids, recentHead, recentCount, worker, requests>>
    PROVE  ServerTypeOK' /\ LocalsOK'
<1>1. ServerTypeOK'
  BY DEF ServerTypeOK
<1>2. LocalsOK'
  BY DEF LocalsOK
<1> QED BY <1>1, <1>2

\* What a send() leaves in a queue, be it full or not.
LEMMA SendElements ==
    ASSUME NEW S, NEW q \in Seq(S), NEW x \in S, NEW capacity \in Nat
    PROVE  Send(q, x, capacity) \in Seq(S) /\ ToSet(q) \subseteq ToSet(Send(q, x, capacity))
<1>1. /\ Append(q, x) \in Seq(S) /\ Len(Append(q, x)) = Len(q) + 1 /\ Len(q) \in Nat
      /\ \A i \in 1..Len(q) : Append(q, x)[i] = q[i]
  BY AppendProperties
<1>2. /\ ToSet(q) = {q[i] : i \in 1..Len(q)}
      /\ ToSet(Append(q, x)) = {Append(q, x)[i] : i \in 1..(Len(q) + 1)}
  BY <1>1, ToSetOfSeq
<1>3. \A i \in 1..Len(q) : i \in 1..(Len(q) + 1)
  BY <1>1
<1>4. ToSet(q) \subseteq ToSet(Append(q, x))
  BY <1>1, <1>2, <1>3
<1> QED BY <1>1, <1>4 DEF Send

\* onDownlink(), sendAck(), sendError() and handleCancel() keep the types.
LEMMA MqttKeepsTypes ==
    ASSUME UplinkTypeOK, ServerTypeOK, LocalsOK, Mqtt
    PROVE  ServerTypeOK' /\ LocalsOK'
<1>0. mqtt \in MqttState /\ worker \in WorkerState /\ now \in Nat
  BY DEF ServerTypeOK, UplinkTypeOK
<1>1. ASSUME NEW nb \in 0..MaxNow, SendRefusal(nb)
      PROVE  ServerTypeOK' /\ LocalsOK'
  <2>1. mqtt' \in MqttState /\ mqtt'.pc = "errAcquire"
    BY <1>1, IdleTypes, Bounds DEF SendRefusal, MqttState
  <2>2. UNCHANGED <<freeSlots, jobs, slots, inFlight, tickQueued, recentRids, recentHead, recentCount, worker, requests>>
    BY <1>1 DEF SendRefusal, ringVars
  <2>3. ServerTypeOK'
    BY <2>1, <2>2 DEF ServerTypeOK
  <2>4. LocalsOK'
    BY <2>1, <2>2 DEF LocalsOK
  <2> QED BY <2>3, <2>4
<1>2. ASSUME NEW h \in Headers, NEW nb \in 0..MaxNow, OnAccepted(h, nb)
      PROVE  ServerTypeOK' /\ LocalsOK'
  <2> DEFINE s == Head(freeSlots)
             n == Len(requests) + 1
             new == Claimed(h, nb)
             entry == [rid |-> h.rid, acked |-> FALSE, stage |-> "accepted", cancel |-> "no"]
  <2>1. /\ freeSlots # <<>> /\ n <= MaxRequests
        /\ freeSlots' = Tail(freeSlots) /\ slots' = [slots EXCEPT ![s] = new]
        /\ recentRids' = [recentRids EXCEPT ![recentHead] = h.rid]
        /\ recentHead' = (recentHead + 1) % Window
        /\ recentCount' = IF recentCount < Window THEN recentCount + 1 ELSE recentCount
        /\ inFlight' = inFlight + 1
        /\ mqtt' = [pc |-> IF h.ack THEN "ackAcquire" ELSE "enqueue",
                    slot |-> s, req |-> n, nb |-> nb, front |-> h.priority]
        /\ requests' = Append(requests, entry)
        /\ UNCHANGED <<jobs, tickQueued, worker>>
    BY <1>2 DEF OnAccepted, RememberRid
  <2>2. h.budget \in Nat /\ h.rid \in Rids /\ h.ack \in BOOLEAN /\ h.priority \in BOOLEAN
    BY ServerAssumption DEF Rids
  <2>3. n \in 1..MaxRequests
    <3>1. Len(requests) \in Nat
      BY LenProperties DEF ServerTypeOK
    <3> QED BY <2>1, <3>1, Bounds
  <2>4. s \in JobIdx /\ freeSlots' \in Seq(JobIdx) /\ ToSet(freeSlots') = {freeSlots'[i] : i \in 1..Len(freeSlots')}
    <3>1. freeSlots \in Seq(JobIdx) /\ freeSlots # <<>>
      BY <2>1 DEF ServerTypeOK
    <3>2. s \in JobIdx /\ Tail(freeSlots) \in Seq(JobIdx)
      BY <3>1
    <3>3. freeSlots' = Tail(freeSlots)
      BY <2>1
    <3>4. freeSlots' \in Seq(JobIdx)
      BY <3>2, <3>3
    <3> QED BY <3>2, <3>4, ToSetOfSeq
  <2>5. new \in Slot
    BY <1>0, <2>2, <2>3 DEF Slot, Claimed
  <2>6. entry \in Request
    BY <2>2 DEF Request
  <2> HIDE DEF new, entry
  <2>7. slots' \in [JobIdx -> Slot] /\ slots'[s] = new /\ \A t \in JobIdx \ {s} : slots'[t] = slots[t]
    BY <2>1, <2>4, <2>5 DEF ServerTypeOK
  <2>8. requests' \in Seq(Request) /\ Len(requests') = n
    BY <2>1, <2>6, AppendProperties DEF ServerTypeOK
  <2> HIDE DEF n, s
  <2>9. mqtt' \in MqttState /\ mqtt'.pc \in {"ackAcquire", "enqueue"} /\ mqtt'.slot = s /\ mqtt'.req = n
    BY <2>1, <2>2, <2>3, <2>4 DEF MqttState
  <2>10. recentRids' \in [0..(Window - 1) -> Rids \union {NoRid}] /\ recentHead' \in 0..(Window - 1)
         /\ recentCount' \in 0..Window /\ inFlight' \in Int
    BY <2>1, <2>2, Bounds DEF ServerTypeOK
  <2>11. ServerTypeOK'
    BY <2>1, <2>3, <2>4, <2>7, <2>8, <2>9, <2>10 DEF ServerTypeOK
  <2>12. \A t \in JobIdx : t \notin ToSet(freeSlots') => slots'[t].req # 0
    <3> SUFFICES ASSUME NEW t \in JobIdx, t \notin ToSet(freeSlots') PROVE slots'[t].req # 0
      OBVIOUS
    <3>1. CASE t = s
      BY <2>3, <2>7, <3>1 DEF new, n, Claimed
    <3>2. CASE t # s
      <4>1. t \notin ToSet(freeSlots)
        BY <2>1, <3>2, TailElements DEF s, ServerTypeOK
      <4> QED BY <2>7, <3>2, <4>1 DEF LocalsOK
    <3> QED BY <3>1, <3>2
  <2>13. LocalsOK'
    BY <2>1, <2>3, <2>4, <2>9, <2>12 DEF LocalsOK
  <2> QED BY <2>11, <2>13
<1>3. CASE MqttBuffer
  <2>1. mqtt' = [mqtt EXCEPT !.pc = IF mqtt.pc = "ackAcquire" THEN "ackSubmit" ELSE "errSubmit"]
    BY <1>3 DEF MqttBuffer
  <2>2. /\ mqtt' \in MqttState /\ mqtt'.slot = mqtt.slot /\ mqtt'.req = mqtt.req
        /\ mqtt'.pc = IF mqtt.pc = "ackAcquire" THEN "ackSubmit" ELSE "errSubmit"
    BY <1>0, <2>1 DEF MqttState
  <2>3. UNCHANGED <<freeSlots, jobs, slots, inFlight, tickQueued, recentRids, recentHead, recentCount, worker, requests>>
    BY <1>3 DEF MqttBuffer, ringVars
  <2> QED BY <2>2, <2>3, MqttMoves
<1>4. CASE MqttNoBuffer \/ MqttSubmit
  <2>1. \/ mqtt' = MqttIdle
        \/ mqtt.pc \in {"ackAcquire", "ackSubmit"} /\ mqtt' = [mqtt EXCEPT !.pc = "enqueue"]
    BY <1>4 DEF MqttNoBuffer, MqttSubmit
  <2>2. /\ mqtt' \in MqttState
        /\ \/ mqtt'.pc = "idle"
           \/ /\ mqtt.pc \in {"ackAcquire", "ackSubmit"}
              /\ mqtt'.slot = mqtt.slot /\ mqtt'.req = mqtt.req /\ mqtt'.pc = "enqueue"
    BY <1>0, <2>1, IdleTypes DEF MqttState
  <2>3. UNCHANGED <<freeSlots, jobs, slots, inFlight, tickQueued, recentRids, recentHead, recentCount, worker, requests>>
    BY <1>4 DEF MqttNoBuffer, MqttSubmit, ringVars
  <2> QED BY <2>2, <2>3, MqttMoves
<1>5. CASE Enqueue
  <2>1. mqtt.slot \in JobIdx /\ mqtt.req \in 0..MaxRequests /\ mqtt.nb \in 0..MaxNow
    BY <1>0, <1>5 DEF Enqueue, LocalsOK, MqttState
  <2>2. CASE Len(jobs) < JobSlots + 2
    <3>1. /\ jobs' = IF mqtt.front THEN <<mqtt.slot>> \o jobs ELSE Append(jobs, mqtt.slot)
          /\ mqtt' = MqttIdle
          /\ UNCHANGED <<freeSlots, slots, inFlight, tickQueued, recentRids, recentHead, recentCount, worker, requests>>
      BY <1>5, <2>2 DEF Enqueue, ringVars
    <3>2. jobs' \in Seq(JobIdx \union {TickMsg})
      <4>1. jobs \in Seq(JobIdx \union {TickMsg}) /\ <<mqtt.slot>> \in Seq(JobIdx \union {TickMsg})
        BY <2>1 DEF ServerTypeOK
      <4> QED BY <2>1, <3>1, <4>1, AppendProperties, ConcatProperties
    <3>3. ServerTypeOK'
      BY <3>1, <3>2, IdleTypes DEF ServerTypeOK
    <3>4. LocalsOK'
      BY <3>1, IdleTypes DEF LocalsOK
    <3> QED BY <3>3, <3>4
  <2>3. CASE ~ (Len(jobs) < JobSlots + 2)
    <3>1. /\ slots' = [slots EXCEPT ![mqtt.slot].state = "free"]
          /\ inFlight' = inFlight - 1
          /\ freeSlots' = Send(freeSlots, mqtt.slot, JobSlots)
          /\ mqtt' = [MqttIdle EXCEPT !.pc = "errAcquire", !.nb = mqtt.nb]
          /\ requests' = Reach(mqtt.req, "lost")
          /\ UNCHANGED <<jobs, tickQueued, recentRids, recentHead, recentCount, worker>>
      BY <1>5, <2>3 DEF Enqueue, ringVars
    <3>2. mqtt' \in MqttState /\ mqtt'.pc = "errAcquire"
      BY <2>1, <3>1, IdleTypes DEF MqttState
    <3>3. /\ slots' \in [JobIdx -> Slot]
          /\ \A t \in JobIdx : slots'[t].req = slots[t].req
      <4>1. slots \in [JobIdx -> Slot]
        BY DEF ServerTypeOK
      <4>2. \A t \in JobIdx : slots'[t] = slots[t] \/ slots'[t] = [slots[t] EXCEPT !.state = "free"]
        BY <2>1, <3>1, <4>1
      <4>3. \A f \in Slot : [f EXCEPT !.state = "free"] \in Slot /\ [f EXCEPT !.state = "free"].req = f.req
        BY DEF Slot
      <4>4. slots' = [t \in JobIdx |-> slots'[t]]
        BY <3>1, <4>1
      <4>5. \A t \in JobIdx : slots'[t] \in Slot /\ slots'[t].req = slots[t].req
        BY <4>1, <4>2, <4>3
      <4> QED BY <4>4, <4>5
    <3>4. freeSlots' \in Seq(JobIdx) /\ \A t \in ToSet(freeSlots) : t \in ToSet(freeSlots')
      <4>1. freeSlots \in Seq(JobIdx) /\ JobSlots \in Nat
        BY Bounds DEF ServerTypeOK
      <4> QED BY <2>1, <3>1, <4>1, SendElements
    <3>5. requests' \in Seq(Request) /\ Len(requests') <= MaxRequests
      BY <2>1, <3>1, ReachKeepsType DEF ServerTypeOK
    <3>6. inFlight' \in Int
      BY <3>1 DEF ServerTypeOK
    <3>7. ServerTypeOK'
      BY <3>1, <3>2, <3>3, <3>4, <3>5, <3>6 DEF ServerTypeOK
    <3>8. LocalsOK'
      BY <3>1, <3>2, <3>3, <3>4 DEF LocalsOK
    <3> QED BY <3>7, <3>8
  <2> QED BY <2>2, <2>3
<1>6. ASSUME NEW rid \in Rids, CancelLook(rid)
      PROVE  ServerTypeOK' /\ LocalsOK'
  <2>1. PICK s \in JobIdx :
          /\ mqtt' = [MqttIdle EXCEPT !.pc = "cancel", !.slot = s]
          /\ requests' = [requests EXCEPT ![slots[s].req].cancel = IF @ = "no" THEN "asked" ELSE @]
    BY <1>6 DEF CancelLook
  <2>2. UNCHANGED <<freeSlots, jobs, slots, inFlight, tickQueued, recentRids, recentHead, recentCount, worker>>
    BY <1>6 DEF CancelLook, ringVars
  <2>3. mqtt' \in MqttState /\ mqtt'.pc = "cancel" /\ mqtt'.slot = s
    BY <2>1, IdleTypes DEF MqttState
  <2>4. requests' \in Seq(Request) /\ Len(requests') <= MaxRequests
    BY <2>1, RecordKeepsType DEF ServerTypeOK
  <2>5. ServerTypeOK'
    BY <2>2, <2>3, <2>4 DEF ServerTypeOK
  <2>6. LocalsOK'
    BY <2>2, <2>3 DEF LocalsOK
  <2> QED BY <2>5, <2>6
<1>7. CASE CancelMark
  <2> DEFINE s == mqtt.slot
  <2>1. /\ slots' = [slots EXCEPT ![s].cancelled = TRUE]
        /\ mqtt' = MqttIdle
        /\ UNCHANGED <<freeSlots, jobs, inFlight, tickQueued, recentRids, recentHead, recentCount, worker>>
        /\ \/ requests' = [requests EXCEPT ![slots[s].req].cancel = "doomed"]
           \/ requests' = requests
    BY <1>7 DEF CancelMark, ringVars
  <2>2. s \in JobIdx
    BY <1>7 DEF CancelMark, LocalsOK
  <2>3. /\ slots' \in [JobIdx -> Slot]
        /\ \A t \in JobIdx : slots'[t].req = slots[t].req
    <3>1. slots \in [JobIdx -> Slot]
      BY DEF ServerTypeOK
    <3>2. \A t \in JobIdx : slots'[t] = slots[t] \/ slots'[t] = [slots[t] EXCEPT !.cancelled = TRUE]
      BY <2>1, <2>2, <3>1
    <3>3. \A f \in Slot : [f EXCEPT !.cancelled = TRUE] \in Slot /\ [f EXCEPT !.cancelled = TRUE].req = f.req
      BY DEF Slot
    <3>4. slots' = [t \in JobIdx |-> slots'[t]]
      BY <2>1, <3>1
    <3>5. \A t \in JobIdx : slots'[t] \in Slot /\ slots'[t].req = slots[t].req
      BY <3>1, <3>2, <3>3
    <3> QED BY <3>4, <3>5
  <2>4. requests' \in Seq(Request) /\ Len(requests') <= MaxRequests
    BY <2>1, RecordKeepsType DEF ServerTypeOK
  <2>5. ServerTypeOK'
    BY <2>1, <2>3, <2>4, IdleTypes DEF ServerTypeOK
  <2>6. LocalsOK'
    BY <2>1, <2>3, IdleTypes DEF LocalsOK
  <2> QED BY <2>5, <2>6
<1>8. \A h \in Headers : \A nb \in NotBefore(h) : nb \in 0..MaxNow
  BY <1>0, Bounds DEF NotBefore
<1>9. \A h, nb : OnRejected(nb) \/ OnDuplicate(h, nb) \/ OnBusy(h, nb) => SendRefusal(nb)
  BY DEF OnRejected, OnDuplicate, OnBusy
<1> QED BY <1>1, <1>2, <1>3, <1>4, <1>5, <1>6, <1>7, <1>8, <1>9 DEF Mqtt

\* workerLoop(), runTick(), runJob() and postTick() keep the types.
LEMMA WorkerKeepsTypes ==
    ASSUME ServerTypeOK, LocalsOK, JobSlotOneOwner, PostTick \/ Worker
    PROVE  ServerTypeOK' /\ LocalsOK'
<1>0. /\ mqtt \in MqttState /\ worker \in WorkerState /\ slots \in [JobIdx -> Slot]
      /\ jobs \in Seq(JobIdx \union {TickMsg})
  BY DEF ServerTypeOK
<1>1. CASE PostTick
  <2>1. /\ (jobs' = Append(jobs, TickMsg) /\ tickQueued' = TRUE) \/ UNCHANGED <<jobs, tickQueued>>
        /\ UNCHANGED <<freeSlots, slots, inFlight, recentRids, recentHead, recentCount, mqtt, worker, requests>>
    BY <1>1 DEF PostTick, ringVars
  <2>2. Append(jobs, TickMsg) \in Seq(JobIdx \union {TickMsg})
    BY <1>0, AppendProperties
  <2>3. tickQueued' \in BOOLEAN
    <3>1. CASE tickQueued' = TRUE
      BY <3>1
    <3>2. CASE UNCHANGED tickQueued
      BY <3>2 DEF ServerTypeOK
    <3> QED BY <2>1, <3>1, <3>2
  <2>4. jobs' \in Seq(JobIdx \union {TickMsg})
    BY <1>0, <2>1, <2>2
  <2>5. ServerTypeOK'
    BY <2>1, <2>3, <2>4 DEF ServerTypeOK
  <2>6. LocalsOK'
    BY <2>1 DEF LocalsOK
  <2> QED BY <2>5, <2>6
<1>2. CASE WorkerReceive
  <2>1. /\ jobs # <<>> /\ jobs' = Tail(jobs)
        /\ worker' = IF Head(jobs) = TickMsg THEN [WorkerIdle EXCEPT !.pc = "tick"]
                     ELSE [WorkerIdle EXCEPT !.pc = "start", !.slot = Head(jobs)]
        /\ UNCHANGED <<freeSlots, slots, inFlight, tickQueued, recentRids, recentHead, recentCount, mqtt, requests>>
    BY <1>2 DEF WorkerReceive, ringVars
  <2>2. Head(jobs) \in JobIdx \union {TickMsg} /\ Tail(jobs) \in Seq(JobIdx \union {TickMsg})
    BY <1>0, <2>1, HeadTailProperties
  <2>3. /\ worker' \in WorkerState
        /\ worker'.pc = "tick" \/ (worker'.pc = "start" /\ worker'.slot \in JobIdx)
    BY <2>1, <2>2, IdleTypes DEF WorkerState
  <2>4. ServerTypeOK'
    BY <2>1, <2>2, <2>3 DEF ServerTypeOK
  <2>5. LocalsOK'
    BY <2>1, <2>3 DEF LocalsOK
  <2> QED BY <2>4, <2>5
<1>3. CASE WorkerTick
  <2>1. /\ tickQueued' = FALSE
        /\ worker' = WorkerIdle \/ worker' = [WorkerIdle EXCEPT !.pc = "replyAcquire", !.kind = "OTHER"]
        /\ UNCHANGED <<freeSlots, jobs, slots, inFlight, recentRids, recentHead, recentCount, mqtt, requests>>
    BY <1>3 DEF WorkerTick, ringVars
  <2>2. WorkerIdle.req = 0
    BY DEF WorkerIdle
  <2>3. /\ worker' \in WorkerState
        /\ \/ worker'.pc = "idle"
           \/ worker'.pc = "replyAcquire" /\ worker'.kind = "OTHER" /\ worker'.req = 0
    BY <2>1, <2>2, IdleTypes DEF WorkerState, Kinds
  <2>4. tickQueued' \in BOOLEAN
    BY <2>1
  <2>5. ServerTypeOK'
    BY <2>1, <2>3, <2>4 DEF ServerTypeOK
  <2>6. LocalsOK'
    BY <2>1, <2>3 DEF LocalsOK
  <2> QED BY <2>5, <2>6
<1>4. CASE JobStart
  <2> DEFINE s == slots[worker.slot]
             kind == Verdict(s)
  <2>1. /\ worker.pc = "start"
        /\ slots' = [slots EXCEPT ![worker.slot].state = "running"]
        /\ worker' = [pc |-> IF kind = "RES" THEN "acquire" ELSE "free",
                      slot |-> worker.slot, req |-> s.req, nb |-> s.nb, kind |-> kind]
        /\ UNCHANGED <<freeSlots, jobs, inFlight, tickQueued, recentRids, recentHead, recentCount, mqtt, requests>>
    BY <1>4 DEF JobStart, ringVars
  <2>2. worker.slot \in JobIdx /\ s.req \in 0..MaxRequests /\ s.nb \in 0..MaxNow
    BY <1>0, <2>1 DEF LocalsOK, Slot
  <2>3. kind \in {"CANCELLED", "DEADLINE_EXCEEDED", "RES"}
    BY DEF Verdict
  <2>4. /\ slots' \in [JobIdx -> Slot]
        /\ \A t \in JobIdx : slots'[t].req = slots[t].req
    BY <1>0, <2>1, <2>2 DEF Slot
  <2> HIDE DEF kind, s
  <2>5. /\ worker' \in WorkerState
        /\ worker'.pc = (IF kind = "RES" THEN "acquire" ELSE "free")
        /\ worker'.slot = worker.slot /\ worker'.req = s.req /\ worker'.kind = kind
    BY <2>1, <2>2, <2>3 DEF WorkerState, Kinds
  <2>6. ServerTypeOK'
    BY <2>1, <2>4, <2>5 DEF ServerTypeOK
  <2>7. s.req # 0
    BY <2>1, <2>2 DEF s, JobSlotOneOwner, WorkerSlots, LocalsOK
  <2>8. LocalsOK'
    BY <2>1, <2>2, <2>3, <2>4, <2>5, <2>7 DEF LocalsOK, Answers
  <2> QED BY <2>6, <2>8
<1>5. CASE WorkerBuffer \/ RunHandler
  <2>1. /\ \/ /\ worker.pc \in {"acquire", "replyAcquire"}
              /\ worker' = [worker EXCEPT !.pc = IF worker.pc = "acquire" THEN "run" ELSE "submit"]
              /\ requests' = requests
           \/ /\ worker.pc = "run"
              /\ worker' = [worker EXCEPT !.pc = "free"]
              /\ requests' = Reach(worker.req, "executed")
        /\ UNCHANGED <<freeSlots, jobs, slots, inFlight, tickQueued, recentRids, recentHead, recentCount, mqtt>>
    BY <1>5 DEF WorkerBuffer, RunHandler, ringVars
  <2>2. worker' \in WorkerState /\ worker'.slot = worker.slot /\ worker'.req = worker.req /\ worker'.kind = worker.kind
    BY <1>0, <2>1 DEF WorkerState
  <2>3. \/ worker.pc = "acquire" /\ worker'.pc = "run"
        \/ worker.pc = "replyAcquire" /\ worker'.pc = "submit"
        \/ worker.pc = "run" /\ worker'.pc = "free"
    BY <1>0, <2>1 DEF WorkerState
  <2>4. requests' \in Seq(Request) /\ Len(requests') <= MaxRequests
    <3>1. worker.req \in 0..MaxRequests
      BY <1>0 DEF WorkerState
    <3> QED BY <2>1, <3>1, ReachKeepsType DEF ServerTypeOK
  <2>5. ServerTypeOK'
    BY <2>1, <2>2, <2>4 DEF ServerTypeOK
  <2>6. LocalsOK'
    BY <2>1, <2>2, <2>3 DEF LocalsOK, Answers
  <2> QED BY <2>5, <2>6
<1>6. CASE WorkerNoBuffer \/ WorkerSubmit
  <2>1. /\ \/ worker' = WorkerIdle
           \/ worker.pc = "acquire" /\ worker' = [worker EXCEPT !.pc = "free", !.kind = "DROPPED"]
        /\ requests' = requests \/ requests' = Reach(worker.req, "lost")
        /\ UNCHANGED <<freeSlots, jobs, slots, inFlight, tickQueued, recentRids, recentHead, recentCount, mqtt>>
    BY <1>6 DEF WorkerNoBuffer, WorkerSubmit, ringVars
  <2>2. /\ worker' \in WorkerState
        /\ \/ worker'.pc = "idle"
           \/ /\ worker.pc = "acquire" /\ worker'.pc = "free" /\ worker'.kind = "DROPPED"
              /\ worker'.slot = worker.slot /\ worker'.req = worker.req
    BY <1>0, <2>1, IdleTypes DEF WorkerState
  <2>3. requests' \in Seq(Request) /\ Len(requests') <= MaxRequests
    <3>1. worker.req \in 0..MaxRequests
      BY <1>0 DEF WorkerState
    <3> QED BY <2>1, <3>1, ReachKeepsType DEF ServerTypeOK
  <2>4. ServerTypeOK'
    BY <2>1, <2>2, <2>3 DEF ServerTypeOK
  <2>5. LocalsOK'
    BY <2>1, <2>2 DEF LocalsOK
  <2> QED BY <2>4, <2>5
<1>7. CASE FreeMark
  <2>1. /\ worker.pc = "free"
        /\ slots' = [slots EXCEPT ![worker.slot].state = "free"]
        /\ inFlight' = inFlight - 1
        /\ worker' = [worker EXCEPT !.pc = "return"]
        /\ UNCHANGED <<freeSlots, jobs, tickQueued, recentRids, recentHead, recentCount, mqtt, requests>>
    BY <1>7 DEF FreeMark, ringVars
  <2>2. /\ worker' \in WorkerState /\ worker'.pc = "return" /\ worker'.slot = worker.slot
        /\ worker'.req = worker.req /\ worker'.kind = worker.kind
    BY <1>0, <2>1 DEF WorkerState
  <2>3. worker.slot \in JobIdx
    BY <2>1 DEF LocalsOK
  <2>4. /\ slots' \in [JobIdx -> Slot]
        /\ \A t \in JobIdx : slots'[t].req = slots[t].req
    BY <1>0, <2>1, <2>3 DEF Slot
  <2>5. inFlight' \in Int
    BY <2>1 DEF ServerTypeOK
  <2>6. ServerTypeOK'
    BY <2>1, <2>2, <2>4, <2>5 DEF ServerTypeOK
  <2>7. LocalsOK'
    BY <2>1, <2>2, <2>4 DEF LocalsOK
  <2> QED BY <2>6, <2>7
<1>8. CASE FreeReturn
  <2>1. /\ worker.pc = "return"
        /\ freeSlots' = Send(freeSlots, worker.slot, JobSlots)
        /\ \/ worker.kind = "DROPPED" /\ worker' = WorkerIdle
           \/ /\ worker.kind # "DROPPED"
              /\ worker' = [worker EXCEPT !.slot = NoSlot, !.pc = IF worker.kind = "RES" THEN "submit" ELSE "replyAcquire"]
        /\ UNCHANGED <<jobs, slots, inFlight, tickQueued, recentRids, recentHead, recentCount, mqtt, requests>>
    BY <1>8 DEF FreeReturn, ringVars
  <2>2. worker.slot \in JobIdx /\ worker.kind \in Answers \union {"DROPPED"} /\ worker.req # 0
    BY <2>1 DEF LocalsOK
  <2>3. /\ worker' \in WorkerState
        /\ \/ worker'.pc = "idle"
           \/ /\ worker'.pc \in {"submit", "replyAcquire"} /\ worker'.req = worker.req
              /\ worker'.kind = worker.kind /\ worker.kind # "DROPPED"
    BY <1>0, <2>1, IdleTypes DEF WorkerState
  <2>4. freeSlots' \in Seq(JobIdx) /\ \A t \in ToSet(freeSlots) : t \in ToSet(freeSlots')
    <3>1. freeSlots \in Seq(JobIdx) /\ JobSlots \in Nat
      BY Bounds DEF ServerTypeOK
    <3> QED BY <2>1, <2>2, <3>1, SendElements
  <2>5. ServerTypeOK'
    BY <2>1, <2>3, <2>4 DEF ServerTypeOK
  <2>6. LocalsOK'
    BY <2>1, <2>2, <2>3, <2>4 DEF LocalsOK, Answers
  <2> QED BY <2>5, <2>6
<1> QED BY <1>1, <1>2, <1>3, <1>4, <1>5, <1>6, <1>7, <1>8 DEF Worker

\* net_task and the clock keep the types.
LEMMA NetKeepsTypes ==
    ASSUME UplinkTypeOK, ServerTypeOK, LocalsOK, Net \/ Clock
    PROVE  ServerTypeOK' /\ LocalsOK'
<1>1. UNCHANGED <<freeSlots, jobs, slots, inFlight, tickQueued, recentRids, recentHead, recentCount, mqtt, worker>>
  BY DEF Net, Publish, Clock, serverVars, ringVars
<1>2. requests' \in Seq(Request) /\ Len(requests') <= MaxRequests
  <2>1. CASE UNCHANGED serverVars
    BY <2>1 DEF serverVars, ServerTypeOK
  <2>2. ASSUME NEW sent \in BOOLEAN, Publish(sent)
        PROVE  requests' \in Seq(Request) /\ Len(requests') <= MaxRequests
    <3> DEFINE frame == drawn[1].frame
    <3>1. drawn # <<>> /\ drawn \in Seq(TxItem)
      BY <2>2 DEF Publish, ReleaseDrawn, UplinkTypeOK
    <3>2. drawn[1] \in TxItem
      BY <3>1
    <3>3. frame \in ReplyFrames
      BY <3>2, ServerAssumption DEF TxItem
    <3>4. /\ frame.type \in Kinds /\ frame.req \in 0..MaxRequests
          /\ (frame.type = "OTHER") <=> (frame.req = 0)
      BY <3>3 DEF ReplyFrames
    <3>5. \/ frame.type # "ACK" /\ requests' = Reach(frame.req, IF sent THEN frame.type ELSE "lost")
          \/ requests' = [requests EXCEPT ![frame.req].acked = TRUE]
          \/ requests' = requests
      BY <2>2 DEF Publish
    <3> HIDE DEF frame
    <3>6. CASE frame.req = 0
      BY <3>5, <3>6, RecordKeepsType DEF ServerTypeOK, Reach
    <3>7. CASE frame.req # 0
      <4>1. CASE frame.type # "ACK" /\ requests' = Reach(frame.req, IF sent THEN frame.type ELSE "lost")
        <5>1. frame.type \in Answers
          BY <3>4, <3>7, <4>1 DEF Kinds, Answers
        <5> QED BY <3>4, <4>1, <5>1, ReachKeepsType DEF ServerTypeOK
      <4> QED BY <3>5, <4>1, RecordKeepsType DEF ServerTypeOK
    <3> QED BY <3>6, <3>7
  <2> QED BY <2>1, <2>2 DEF Net, Clock
<1>3. ServerTypeOK'
  BY <1>1, <1>2 DEF ServerTypeOK
<1>4. LocalsOK'
  BY <1>1 DEF LocalsOK
<1> QED BY <1>3, <1>4

-----------------------------------------------------------------------------
(* The server is a legal user of the uplink.                               *)

\* Every step of the server is a step of the uplink or leaves it alone.
LEMMA ServerUsesUplink ==
    ASSUME UplinkTypeOK, ServerTypeOK, LocalsOK, [Next]_vars
    PROVE  [UplinkNext]_uplinkVars
<1>0. mqtt \in MqttState /\ worker \in WorkerState
  BY DEF ServerTypeOK
<1>1. \A p \in Producers : Acquire(p) \/ Release(p) => UplinkNext
  BY DEF UplinkNext, Produce
<1>2. \A p \in Producers, frame \in Frames, nb \in 0..MaxNow : Submit(p, frame, nb) => UplinkNext
  BY DEF UplinkNext, Produce
<1>3. \A kind \in Kinds, n \in 0..MaxRequests : (kind = "OTHER" <=> n = 0) => Frame(kind, n) \in Frames
  BY ServerAssumption DEF Frame, ReplyFrames
<1>4. CASE UNCHANGED uplinkVars
  BY <1>4
<1>5. CASE MqttBuffer \/ WorkerBuffer
  BY <1>1, <1>5, Bounds DEF MqttBuffer, WorkerBuffer
<1>6. CASE MqttSubmit
  <2>1. CASE mqtt.pc = "ackSubmit" /\ Submit("mqtt", Frame("ACK", mqtt.req), mqtt.nb)
    <3>1. mqtt.req \in 0..MaxRequests /\ mqtt.req # 0 /\ mqtt.nb \in 0..MaxNow
      BY <1>0, <2>1 DEF MqttState, LocalsOK
    <3>2. Frame("ACK", mqtt.req) \in Frames
      BY <1>3, <3>1 DEF Kinds
    <3> QED BY <1>2, <2>1, <3>1, <3>2, Bounds
  <2>2. CASE Submit("mqtt", Frame("OTHER", 0), mqtt.nb)
    <3>1. mqtt.nb \in 0..MaxNow /\ 0 \in 0..MaxRequests
      BY <1>0, Bounds DEF MqttState
    <3>2. Frame("OTHER", 0) \in Frames
      BY <1>3, <3>1 DEF Kinds
    <3> QED BY <1>2, <2>2, <3>1, <3>2, Bounds
  <2> QED BY <1>6, <2>1, <2>2 DEF MqttSubmit
<1>7. CASE WorkerSubmit
  <2>1. worker.kind \in Answers \union {"OTHER"} /\ (worker.kind = "OTHER" <=> worker.req = 0)
    BY <1>7 DEF WorkerSubmit, LocalsOK
  <2>2. worker.req \in 0..MaxRequests /\ worker.nb \in 0..MaxNow
    BY <1>0 DEF WorkerState
  <2>3. Frame(worker.kind, worker.req) \in Frames
    BY <1>3, <2>1, <2>2 DEF Kinds, Answers
  <2> QED BY <1>1, <1>2, <1>7, <2>2, <2>3, Bounds DEF WorkerSubmit
<1>8. CASE Net \/ Clock
  BY <1>8 DEF Net, Clock, Publish, UplinkNext, NetTask
<1>9. \A h, nb, rid : OnRejected(nb) \/ OnDuplicate(h, nb) \/ OnBusy(h, nb) \/ OnAccepted(h, nb) \/ CancelLook(rid)
        => UNCHANGED uplinkVars
  BY DEF OnRejected, OnDuplicate, OnBusy, OnAccepted, SendRefusal, CancelLook
<1>10. MqttNoBuffer \/ Enqueue \/ CancelMark \/ PostTick => UNCHANGED uplinkVars
  BY DEF MqttNoBuffer, Enqueue, CancelMark, PostTick
<1>11. WorkerReceive \/ WorkerTick \/ JobStart \/ WorkerNoBuffer \/ RunHandler \/ FreeMark \/ FreeReturn
         => UNCHANGED uplinkVars
  BY DEF WorkerReceive, WorkerTick, JobStart, WorkerNoBuffer, RunHandler, FreeMark, FreeReturn
<1> QED BY <1>4, <1>5, <1>6, <1>7, <1>8, <1>9, <1>10, <1>11 DEF Next, Mqtt, Worker, vars

-----------------------------------------------------------------------------
(* One owner per job slot.                                                 *)

\* Sending to the front of a queue of distinct elements.
LEMMA PrependToInjective ==
    ASSUME NEW S, NEW q \in Seq(S), Injective(q), NEW x \in S, x \notin ToSet(q)
    PROVE  /\ <<x>> \o q \in Seq(S)
           /\ Injective(<<x>> \o q)
           /\ ToSet(<<x>> \o q) = ToSet(q) \union {x}
<1> DEFINE w == <<x>> \o q
<1>1. <<x>> \in Seq(S) /\ Len(<<x>>) = 1 /\ <<x>>[1] = x
  OBVIOUS
<1>2. /\ w \in Seq(S) /\ Len(w) = 1 + Len(q) /\ Len(q) \in Nat
      /\ \A i \in 1..(1 + Len(q)) : w[i] = IF i <= 1 THEN <<x>>[i] ELSE q[i - 1]
  BY <1>1, ConcatProperties, LenProperties
<1> HIDE DEF w
<1>3. /\ w[1] = x /\ 1 \in 1..Len(w)
      /\ \A i \in 1..Len(w) : i # 1 => i - 1 \in 1..Len(q) /\ w[i] = q[i - 1]
      /\ \A i \in 1..Len(q) : i + 1 \in 1..Len(w) /\ w[i + 1] = q[i]
  BY <1>1, <1>2
<1>4. ToSet(q) = {q[i] : i \in 1..Len(q)} /\ ToSet(w) = {w[i] : i \in 1..Len(w)}
  BY <1>2, ToSetOfSeq
<1>5. Injective(w)
  <2> SUFFICES ASSUME NEW i \in 1..Len(w), NEW j \in 1..Len(w), w[i] = w[j] PROVE i = j
    BY DEF Injective
  <2>1. CASE i = 1 \/ j = 1
    BY <1>3, <1>4, <2>1
  <2>2. CASE i # 1 /\ j # 1
    <3>1. i - 1 \in 1..Len(q) /\ j - 1 \in 1..Len(q) /\ q[i - 1] = q[j - 1]
      BY <1>3, <2>2
    <3>2. i - 1 = j - 1
      BY <3>1 DEF Injective
    <3> QED BY <1>2, <3>2
  <2> QED BY <2>1, <2>2
<1>6. ToSet(w) = ToSet(q) \union {x}
  <2>1. ASSUME NEW y \in ToSet(w) PROVE y \in ToSet(q) \union {x}
    <3>1. PICK i \in 1..Len(w) : y = w[i]
      BY <1>4
    <3> QED BY <1>3, <1>4, <3>1
  <2>2. ASSUME NEW y \in ToSet(q) PROVE y \in ToSet(w)
    BY <1>3, <1>4
  <2>3. x \in ToSet(w)
    BY <1>3, <1>4
  <2> QED BY <2>1, <2>2, <2>3
<1> QED BY <1>2, <1>5, <1>6 DEF w

\* There are JobSlots job slots.
LEMMA JobIdxSize ==
    /\ IsFiniteSet(JobIdx) /\ Cardinality(JobIdx) = JobSlots
    /\ IsFiniteSet(JobIdx \union {TickMsg}) /\ Cardinality(JobIdx \union {TickMsg}) = JobSlots + 1
<1>1. IsFiniteSet(JobIdx) /\ Cardinality(JobIdx) = JobSlots
  <2>1. JobIdx = 0..(JobSlots - 1) /\ JobSlots \in Nat \ {0}
    BY Bounds DEF JobIdx
  <2> QED BY <2>1, FS_Interval
<1> QED BY <1>1, Bounds, FS_AddElement

\* The two sends that may not fail find room: the job queue holds every
\* slot but the one that is enqueued, and at most one tick.
LEMMA OwnersGiveRoom ==
    ASSUME ServerTypeOK, LocalsOK, JobSlotOneOwner, TickOnce
    PROVE  JobQueueHasRoom
<1>0. jobs \in Seq(JobIdx \union {TickMsg}) /\ Injective(jobs) /\ Len(jobs) \in Nat
  BY LenProperties DEF ServerTypeOK, JobSlotOneOwner
<1>1. ASSUME NEW x \in JobIdx \union {TickMsg}, x \notin ToSet(jobs)
      PROVE  Len(jobs) < JobSlots + 2
  <2>1. Len(jobs) < JobSlots + 1
    BY <1>0, <1>1, JobIdxSize, InjectiveMisses
  <2> QED BY <1>0, <2>1, Bounds
<1>2. CASE mqtt.pc = "enqueue"
  <2>1. mqtt.slot \in JobIdx /\ mqtt.slot \in ClaimedSlots
    BY <1>2 DEF LocalsOK, ClaimedSlots
  <2>2. mqtt.slot \notin QueuedSlots
    BY <2>1 DEF JobSlotOneOwner
  <2>3. mqtt.slot # TickMsg
    BY <2>1, Bounds
  <2>4. mqtt.slot \notin ToSet(jobs)
    BY <2>2, <2>3 DEF QueuedSlots
  <2>5. mqtt.slot \in JobIdx \union {TickMsg}
    BY <2>1
  <2>6. Len(jobs) < JobSlots + 2
    BY <1>1, <2>4, <2>5
  <2> QED BY <2>6 DEF JobQueueHasRoom
<1>3. CASE ~ tickQueued
  <2>1. TickMsg \notin ToSet(jobs)
    BY <1>3 DEF TickOnce
  <2>2. TickMsg \in JobIdx \union {TickMsg}
    OBVIOUS
  <2>3. Len(jobs) < JobSlots + 2
    BY <1>1, <2>1, <2>2
  <2> QED BY <2>3 DEF JobQueueHasRoom
<1> QED BY <1>2, <1>3 DEF JobQueueHasRoom

\* A step that leaves the two queues and the whereabouts of the slots alone.
LEMMA OwnersStay ==
    ASSUME JobSlotOneOwner, UNCHANGED <<freeSlots, jobs>>, ClaimedSlots' = ClaimedSlots, WorkerSlots' = WorkerSlots
    PROVE  JobSlotOneOwner'
BY DEF JobSlotOneOwner, QueuedSlots, Injective

\* The free slot at the head of the queue goes to the MQTT task ...
LEMMA ClaimMovesSlot ==
    ASSUME ServerTypeOK, JobSlotOneOwner, freeSlots # <<>>, freeSlots' = Tail(freeSlots), jobs' = jobs,
           ClaimedSlots = {}, ClaimedSlots' = {Head(freeSlots)}, WorkerSlots' = WorkerSlots
    PROVE  JobSlotOneOwner'
<1>1. /\ Injective(freeSlots') /\ ToSet(freeSlots') = ToSet(freeSlots) \ {Head(freeSlots)}
      /\ Head(freeSlots) \in ToSet(freeSlots)
  BY TailOfInjective DEF ServerTypeOK, JobSlotOneOwner
<1>2. QueuedSlots' = QueuedSlots /\ (Injective(jobs) => Injective(jobs)')
  BY DEF QueuedSlots, Injective
<1> QED BY <1>1, <1>2 DEF JobSlotOneOwner

\* ... which puts it in the job queue, at either end ...
LEMMA EitherEndKeepsInjective ==
    ASSUME jobs \in Seq(JobIdx \union {TickMsg}), Injective(jobs), NEW s \in JobIdx, s \notin ToSet(jobs),
           NEW w, w = <<s>> \o jobs \/ w = Append(jobs, s)
    PROVE  Injective(w) /\ ToSet(w) = ToSet(jobs) \union {s}
<1> DEFINE S == JobIdx \union {TickMsg}
<1>1. s \in S /\ jobs \in Seq(S)
  OBVIOUS
<1> HIDE DEF S
<1>2. CASE w = <<s>> \o jobs
  BY <1>1, <1>2, PrependToInjective
<1>3. CASE w = Append(jobs, s)
  BY <1>1, <1>3, AppendToInjective
<1> QED BY <1>2, <1>3

\* ... when the claim ends ...
LEMMA EnqueueMovesSlot ==
    ASSUME ServerTypeOK, JobSlotOneOwner, NEW s \in JobIdx, ClaimedSlots = {s}, ClaimedSlots' = {},
           jobs' = <<s>> \o jobs \/ jobs' = Append(jobs, s), freeSlots' = freeSlots, WorkerSlots' = WorkerSlots
    PROVE  JobSlotOneOwner'
<1>1. s \notin ToSet(jobs) /\ s # TickMsg
  <2>1. s \notin QueuedSlots
    BY DEF JobSlotOneOwner
  <2>2. s # TickMsg
    BY Bounds
  <2> QED BY <2>1, <2>2 DEF QueuedSlots
<1>2. jobs \in Seq(JobIdx \union {TickMsg}) /\ Injective(jobs)
  BY DEF ServerTypeOK, JobSlotOneOwner
<1>3. Injective(jobs') /\ ToSet(jobs') = ToSet(jobs) \union {s}
  BY <1>1, <1>2, EitherEndKeepsInjective
<1>4. QueuedSlots' = QueuedSlots \union {s}
  BY <1>1, <1>3 DEF QueuedSlots
<1> QED BY <1>3, <1>4 DEF JobSlotOneOwner

\* ... where the worker takes it, and puts it back among the free ones.
LEMMA ReceiveMovesSlot ==
    ASSUME ServerTypeOK, JobSlotOneOwner, jobs # <<>>, jobs' = Tail(jobs), freeSlots' = freeSlots,
           ClaimedSlots' = ClaimedSlots, WorkerSlots = {}, WorkerSlots' = {Head(jobs)} \ {TickMsg}
    PROVE  /\ JobSlotOneOwner' /\ Head(jobs) \in ToSet(jobs)
           /\ ToSet(jobs') = ToSet(jobs) \ {Head(jobs)}
<1>1. jobs \in Seq(JobIdx \union {TickMsg}) /\ Injective(jobs)
  BY DEF ServerTypeOK, JobSlotOneOwner
<1>2. /\ Injective(jobs') /\ ToSet(jobs') = ToSet(jobs) \ {Head(jobs)}
      /\ Head(jobs) \in ToSet(jobs)
  BY <1>1, TailOfInjective
<1>3. QueuedSlots' = QueuedSlots \ {Head(jobs)} /\ {Head(jobs)} \ {TickMsg} \subseteq QueuedSlots
  BY <1>2 DEF QueuedSlots
<1>4. QueuedSlots \subseteq QueuedSlots' \union WorkerSlots'
  BY <1>2 DEF QueuedSlots
<1> QED BY <1>2, <1>3, <1>4 DEF JobSlotOneOwner

\* freeSlot() hands the worker's slot to the free queue.
LEMMA ReturnMovesSlot ==
    ASSUME ServerTypeOK, JobSlotOneOwner, NEW s \in JobIdx, freeSlots' = Send(freeSlots, s, JobSlots), jobs' = jobs,
           ClaimedSlots' = ClaimedSlots, WorkerSlots = {s}, WorkerSlots' = {}
    PROVE  JobSlotOneOwner'
<1>1. freeSlots \in Seq(JobIdx) /\ Injective(freeSlots) /\ s \notin ToSet(freeSlots)
  BY DEF ServerTypeOK, JobSlotOneOwner
<1>2. Len(freeSlots) < JobSlots
  BY <1>1, JobIdxSize, InjectiveMisses
<1>3. freeSlots' = Append(freeSlots, s)
  BY <1>2 DEF Send
<1>4. Injective(freeSlots') /\ ToSet(freeSlots') = ToSet(freeSlots) \union {s}
  BY <1>1, <1>3, AppendToInjective
<1>5. QueuedSlots' = QueuedSlots /\ (Injective(jobs) => Injective(jobs)')
  BY DEF QueuedSlots, Injective
<1> QED BY <1>4, <1>5 DEF JobSlotOneOwner

\* The steps of the MQTT task keep one owner per job slot.
LEMMA MqttKeepsOwners ==
    ASSUME ServerTypeOK, LocalsOK, JobSlotOneOwner, TickOnce, Mqtt
    PROVE  JobSlotOneOwner' /\ TickOnce'
<1> DEFINE claims == {"ackAcquire", "ackSubmit", "enqueue"}
<1>0. mqtt \in MqttState
  BY DEF ServerTypeOK
<1>1. WorkerSlots' = WorkerSlots /\ UNCHANGED <<tickQueued, worker>>
  BY DEF WorkerSlots, Mqtt, OnRejected, OnDuplicate, OnBusy, OnAccepted, SendRefusal, CancelLook, MqttBuffer,
         MqttNoBuffer, MqttSubmit, Enqueue, CancelMark
<1>2. ASSUME NEW h \in Headers, NEW nb \in NotBefore(h), OnAccepted(h, nb)
      PROVE  JobSlotOneOwner' /\ TickOnce'
  <2>1. /\ freeSlots # <<>> /\ freeSlots' = Tail(freeSlots) /\ jobs' = jobs /\ mqtt.pc = "idle"
        /\ mqtt'.pc \in claims /\ mqtt'.slot = Head(freeSlots)
    BY <1>2 DEF OnAccepted
  <2>2. ClaimedSlots = {} /\ ClaimedSlots' = {Head(freeSlots)}
    BY <2>1 DEF ClaimedSlots
  <2> QED BY <1>1, <2>1, <2>2, ClaimMovesSlot DEF TickOnce
<1>3. CASE Enqueue
  <2>1. Len(jobs) < JobSlots + 2 /\ mqtt.pc = "enqueue" /\ mqtt.slot \in JobIdx
    BY <1>3, OwnersGiveRoom DEF JobQueueHasRoom, Enqueue, LocalsOK
  <2>2. /\ jobs' = <<mqtt.slot>> \o jobs \/ jobs' = Append(jobs, mqtt.slot)
        /\ mqtt'.pc = "idle" /\ freeSlots' = freeSlots
    BY <1>3, <2>1, IdleTypes DEF Enqueue
  <2>3. ClaimedSlots = {mqtt.slot} /\ ClaimedSlots' = {}
    BY <2>1, <2>2 DEF ClaimedSlots
  <2>4. JobSlotOneOwner'
    BY <1>1, <2>1, <2>2, <2>3, EnqueueMovesSlot
  <2>5. TickMsg \in ToSet(jobs') => TickMsg \in ToSet(jobs)
    <3>1. mqtt.slot \notin QueuedSlots
      BY <2>3 DEF JobSlotOneOwner
    <3>2. mqtt.slot # TickMsg
      BY <2>1, Bounds
    <3>3. mqtt.slot \notin ToSet(jobs)
      BY <3>1, <3>2 DEF QueuedSlots
    <3>4. jobs \in Seq(JobIdx \union {TickMsg}) /\ Injective(jobs)
      BY DEF ServerTypeOK, JobSlotOneOwner
    <3>5. ToSet(jobs') = ToSet(jobs) \union {mqtt.slot}
      BY <2>1, <2>2, <3>3, <3>4, EitherEndKeepsInjective
    <3> QED BY <3>2, <3>5
  <2> QED BY <1>1, <2>4, <2>5 DEF TickOnce
<1>4. ASSUME UNCHANGED <<freeSlots, jobs>>,
             \/ mqtt.pc \notin claims /\ mqtt'.pc \notin claims
             \/ mqtt.pc \in claims /\ mqtt'.pc \in claims /\ mqtt'.slot = mqtt.slot
      PROVE  JobSlotOneOwner' /\ TickOnce'
  <2>1. ClaimedSlots' = ClaimedSlots
    BY <1>4 DEF ClaimedSlots
  <2> QED BY <1>1, <1>4, <2>1, OwnersStay DEF TickOnce
<1>5. CASE MqttBuffer
  <2>1. /\ UNCHANGED <<freeSlots, jobs>> /\ mqtt.pc \in {"ackAcquire", "errAcquire"}
        /\ mqtt' = [mqtt EXCEPT !.pc = IF mqtt.pc = "ackAcquire" THEN "ackSubmit" ELSE "errSubmit"]
    BY <1>5 DEF MqttBuffer
  <2>2. mqtt'.slot = mqtt.slot /\ mqtt'.pc = (IF mqtt.pc = "ackAcquire" THEN "ackSubmit" ELSE "errSubmit")
    BY <1>0, <2>1 DEF MqttState
  <2> QED BY <1>4, <2>1, <2>2
<1>6. CASE MqttNoBuffer \/ MqttSubmit
  <2>1. /\ UNCHANGED <<freeSlots, jobs>>
        /\ \/ mqtt.pc \in {"errAcquire", "errSubmit"} /\ mqtt' = MqttIdle
           \/ mqtt.pc \in {"ackAcquire", "ackSubmit"} /\ mqtt' = [mqtt EXCEPT !.pc = "enqueue"]
    BY <1>6 DEF MqttNoBuffer, MqttSubmit
  <2>2. \/ mqtt.pc \in {"errAcquire", "errSubmit"} /\ mqtt'.pc = "idle"
        \/ mqtt.pc \in {"ackAcquire", "ackSubmit"} /\ mqtt'.pc = "enqueue" /\ mqtt'.slot = mqtt.slot
    BY <1>0, <2>1, IdleTypes DEF MqttState
  <2> QED BY <1>4, <2>1, <2>2
<1>7. CASE CancelMark
  <2>1. UNCHANGED <<freeSlots, jobs>> /\ mqtt.pc = "cancel" /\ mqtt'.pc = "idle"
    BY <1>7, IdleTypes DEF CancelMark
  <2> QED BY <1>4, <2>1
<1>8. ASSUME NEW rid \in Rids, CancelLook(rid)
      PROVE  JobSlotOneOwner' /\ TickOnce'
  <2>1. UNCHANGED <<freeSlots, jobs>> /\ mqtt.pc = "idle"
    BY <1>8 DEF CancelLook
  <2>2. PICK s \in JobIdx : mqtt' = [MqttIdle EXCEPT !.pc = "cancel", !.slot = s]
    BY <1>8 DEF CancelLook
  <2>3. mqtt'.pc = "cancel"
    BY <2>2, IdleTypes DEF MqttState
  <2> QED BY <1>4, <2>1, <2>3
<1>9. ASSUME NEW nb, mqtt.pc = "idle", SendRefusal(nb)
      PROVE  JobSlotOneOwner' /\ TickOnce'
  <2>1. UNCHANGED <<freeSlots, jobs>> /\ mqtt' = [MqttIdle EXCEPT !.pc = "errAcquire", !.nb = nb]
    BY <1>9 DEF SendRefusal
  <2>2. mqtt'.pc = "errAcquire"
    BY <2>1, IdleTypes DEF MqttState
  <2> QED BY <1>4, <1>9, <2>1, <2>2
<1> QED BY <1>2, <1>3, <1>5, <1>6, <1>7, <1>8, <1>9 DEF Mqtt, OnRejected, OnDuplicate, OnBusy

\* So do the steps of the worker, the timer, net_task and the clock.
LEMMA OthersKeepOwners ==
    ASSUME ServerTypeOK, LocalsOK, JobSlotOneOwner, TickOnce, PostTick \/ Worker \/ Net \/ Clock
    PROVE  JobSlotOneOwner' /\ TickOnce'
<1> DEFINE owns == {"start", "acquire", "run", "free", "return"}
<1>0. worker \in WorkerState /\ jobs \in Seq(JobIdx \union {TickMsg}) /\ Injective(jobs)
  BY DEF ServerTypeOK, JobSlotOneOwner
<1>1. mqtt' = mqtt /\ ClaimedSlots' = ClaimedSlots
  <2>1. mqtt' = mqtt
    BY DEF PostTick, Worker, WorkerReceive, WorkerTick, JobStart, WorkerBuffer, WorkerNoBuffer, RunHandler, FreeMark,
           FreeReturn, WorkerSubmit, Net, Publish, Clock, serverVars
  <2> QED BY <2>1 DEF ClaimedSlots
<1>2. CASE PostTick
  <2>1. /\ ~ tickQueued /\ UNCHANGED <<freeSlots, worker>>
        /\ (jobs' = Append(jobs, TickMsg) /\ tickQueued' = TRUE) \/ UNCHANGED <<jobs, tickQueued>>
    BY <1>2 DEF PostTick
  <2>2. WorkerSlots' = WorkerSlots
    BY <2>1 DEF WorkerSlots
  <2>3. TickMsg \notin ToSet(jobs)
    BY <2>1 DEF TickOnce
  <2>4. CASE UNCHANGED <<jobs, tickQueued>>
    BY <1>1, <2>1, <2>2, <2>4, OwnersStay DEF TickOnce
  <2>5. CASE jobs' = Append(jobs, TickMsg) /\ tickQueued' = TRUE
    <3>1. Injective(jobs') /\ ToSet(jobs') = ToSet(jobs) \union {TickMsg}
      BY <1>0, <2>3, <2>5, AppendToInjective
    <3>2. QueuedSlots' = QueuedSlots
      BY <3>1 DEF QueuedSlots
    <3>3. JobSlotOneOwner'
      BY <1>1, <2>1, <2>2, <3>1, <3>2 DEF JobSlotOneOwner, Injective
    <3>4. worker.pc # "tick"
      BY <2>1 DEF TickOnce
    <3> QED BY <2>1, <2>5, <3>3, <3>4 DEF TickOnce
  <2> QED BY <2>1, <2>4, <2>5
<1>3. CASE WorkerReceive
  <2>1. /\ worker.pc = "idle" /\ jobs # <<>> /\ jobs' = Tail(jobs) /\ UNCHANGED <<freeSlots, tickQueued>>
        /\ worker' = IF Head(jobs) = TickMsg THEN [WorkerIdle EXCEPT !.pc = "tick"]
                     ELSE [WorkerIdle EXCEPT !.pc = "start", !.slot = Head(jobs)]
    BY <1>3 DEF WorkerReceive
  <2>2. \/ Head(jobs) = TickMsg /\ worker'.pc = "tick"
        \/ Head(jobs) # TickMsg /\ worker'.pc = "start" /\ worker'.slot = Head(jobs)
    BY <2>1, IdleTypes DEF WorkerState
  <2>3. WorkerSlots = {} /\ WorkerSlots' = {Head(jobs)} \ {TickMsg}
    BY <2>1, <2>2 DEF WorkerSlots
  <2>4. JobSlotOneOwner' /\ Head(jobs) \in ToSet(jobs) /\ ToSet(jobs') = ToSet(jobs) \ {Head(jobs)}
    BY <1>1, <2>1, <2>3, ReceiveMovesSlot
  <2>5. TickOnce'
    BY <2>1, <2>2, <2>4 DEF TickOnce
  <2> QED BY <2>4, <2>5
<1>4. ASSUME UNCHANGED <<freeSlots, jobs>>, WorkerSlots' = WorkerSlots, worker'.pc # "tick",
             tickQueued' = tickQueued \/ TickMsg \notin ToSet(jobs)
      PROVE  JobSlotOneOwner' /\ TickOnce'
  BY <1>1, <1>4, OwnersStay DEF TickOnce
<1>5. CASE WorkerTick
  <2>1. /\ worker.pc = "tick" /\ UNCHANGED <<freeSlots, jobs>>
        /\ worker' = WorkerIdle \/ worker' = [WorkerIdle EXCEPT !.pc = "replyAcquire", !.kind = "OTHER"]
    BY <1>5 DEF WorkerTick
  <2>2. worker'.pc \in {"idle", "replyAcquire"}
    BY <2>1, IdleTypes DEF WorkerState
  <2>3. WorkerSlots' = WorkerSlots /\ TickMsg \notin ToSet(jobs)
    BY <2>1, <2>2 DEF WorkerSlots, TickOnce
  <2> QED BY <1>4, <2>1, <2>2, <2>3
<1>6. CASE JobStart \/ RunHandler \/ FreeMark \/ WorkerBuffer \/ WorkerNoBuffer \/ WorkerSubmit
  <2>1. UNCHANGED <<freeSlots, jobs, tickQueued>>
    BY <1>6 DEF JobStart, RunHandler, FreeMark, WorkerBuffer, WorkerNoBuffer, WorkerSubmit
  <2>2. \/ worker.pc \in owns /\ worker'.pc \in owns /\ worker'.slot = worker.slot
        \/ worker.pc \notin owns /\ worker'.pc \in {"idle", "submit"}
    <3>1. CASE JobStart
      BY <3>1 DEF JobStart
    <3>2. CASE RunHandler \/ FreeMark
      BY <1>0, <3>2 DEF RunHandler, FreeMark, WorkerState
    <3>3. CASE WorkerBuffer
      BY <1>0, <3>3 DEF WorkerBuffer, WorkerState
    <3>4. CASE WorkerNoBuffer
      BY <1>0, <3>4, IdleTypes DEF WorkerNoBuffer, WorkerState
    <3>5. CASE WorkerSubmit
      BY <3>5, IdleTypes DEF WorkerSubmit
    <3> QED BY <1>6, <3>1, <3>2, <3>3, <3>4, <3>5
  <2>3. WorkerSlots' = WorkerSlots /\ worker'.pc # "tick"
    BY <2>2 DEF WorkerSlots
  <2> QED BY <1>4, <2>1, <2>3
<1>7. CASE FreeReturn
  <2>1. /\ worker.pc = "return" /\ worker.slot \in JobIdx /\ UNCHANGED <<jobs, tickQueued>>
        /\ freeSlots' = Send(freeSlots, worker.slot, JobSlots)
        /\ \/ worker' = WorkerIdle
           \/ worker' = [worker EXCEPT !.slot = NoSlot, !.pc = IF worker.kind = "RES" THEN "submit" ELSE "replyAcquire"]
    BY <1>7 DEF FreeReturn, LocalsOK
  <2>2. worker'.pc \in {"idle", "submit", "replyAcquire"}
    BY <1>0, <2>1, IdleTypes DEF WorkerState
  <2>3. WorkerSlots = {worker.slot} /\ WorkerSlots' = {}
    BY <2>1, <2>2 DEF WorkerSlots
  <2>4. JobSlotOneOwner'
    BY <1>1, <2>1, <2>3, ReturnMovesSlot
  <2> QED BY <2>1, <2>2, <2>4 DEF TickOnce
<1>8. CASE Net \/ Clock
  <2>1. UNCHANGED <<freeSlots, jobs, tickQueued, worker>>
    BY <1>8 DEF Net, Clock, Publish, serverVars
  <2>2. WorkerSlots' = WorkerSlots
    BY <2>1 DEF WorkerSlots
  <2> QED BY <1>1, <2>1, <2>2, OwnersStay DEF TickOnce
<1> QED BY <1>2, <1>3, <1>5, <1>6, <1>7, <1>8 DEF Worker

-----------------------------------------------------------------------------
(* The theorems.                                                           *)

Inv == UplinkInv /\ ServerTypeOK /\ LocalsOK /\ JobSlotOneOwner /\ TickOnce

\* The server starts in its invariant.
LEMMA InitHasServerInv == Init => Inv
<1> SUFFICES ASSUME Init PROVE Inv
  OBVIOUS
<1>1. UplinkInv /\ ServerTypeOK /\ LocalsOK
  BY InitHasInv, ServerInitTypes DEF Init
<1>2. freeSlots = [i \in 1..JobSlots |-> i - 1] /\ jobs = <<>> /\ JobSlots \in Nat
  BY Bounds DEF Init, ServerInit
<1>3. mqtt.pc = "idle" /\ worker.pc = "idle"
  BY IdleTypes DEF Init, ServerInit
<1>4. ToSet(jobs) = {} /\ Injective(jobs)
  BY <1>2 DEF ToSet, Injective
<1>5. Injective(freeSlots) /\ JobIdx \subseteq ToSet(freeSlots)
  <2>1. freeSlots \in Seq(JobIdx) /\ Len(freeSlots) = JobSlots
    BY <1>1, <1>2 DEF ServerTypeOK
  <2>2. ToSet(freeSlots) = {freeSlots[i] : i \in 1..JobSlots}
    BY <2>1, ToSetOfSeq
  <2>3. \A s \in JobIdx : s + 1 \in 1..JobSlots /\ freeSlots[s + 1] = s
    BY <1>2 DEF JobIdx
  <2>4. \A i, j \in 1..JobSlots : freeSlots[i] = freeSlots[j] => i = j
    BY <1>2
  <2> QED BY <2>1, <2>2, <2>3, <2>4 DEF Injective
<1>6. JobSlotOneOwner
  BY <1>3, <1>4, <1>5 DEF JobSlotOneOwner, ClaimedSlots, QueuedSlots, WorkerSlots
<1>7. TickOnce
  BY <1>3, <1>4 DEF TickOnce
<1> QED BY <1>1, <1>6, <1>7 DEF Inv

\* Every step of the server keeps it.
LEMMA StepKeepsServerInv ==
    ASSUME Inv, [Next]_vars
    PROVE  Inv'
<1>1. UplinkTypeOK /\ UplinkInv /\ ServerTypeOK /\ LocalsOK /\ JobSlotOneOwner /\ TickOnce
  BY DEF Inv, UplinkInv
<1>2. UplinkInv'
  BY <1>1, ServerUsesUplink, StepKeepsInv
<1>3. CASE Mqtt
  BY <1>1, <1>2, <1>3, MqttKeepsTypes, MqttKeepsOwners DEF Inv
<1>4. CASE PostTick \/ Worker
  BY <1>1, <1>2, <1>4, WorkerKeepsTypes, OthersKeepOwners DEF Inv
<1>5. CASE Net \/ Clock
  BY <1>1, <1>2, <1>5, NetKeepsTypes, OthersKeepOwners DEF Inv
<1>6. CASE UNCHANGED vars
  <2>1. UNCHANGED <<freeSlots, jobs, slots, inFlight, tickQueued, recentRids, recentHead, recentCount, mqtt, worker, requests>>
    BY <1>6 DEF vars, serverVars, ringVars
  <2>2. ServerTypeOK'
    BY <1>1, <2>1 DEF ServerTypeOK
  <2>3. LocalsOK'
    BY <1>1, <2>1 DEF LocalsOK
  <2>4. ClaimedSlots' = ClaimedSlots /\ WorkerSlots' = WorkerSlots
    BY <2>1 DEF ClaimedSlots, WorkerSlots
  <2>5. JobSlotOneOwner'
    BY <1>1, <2>1, <2>4, OwnersStay
  <2>6. TickOnce'
    BY <1>1, <2>1 DEF TickOnce
  <2> QED BY <1>2, <2>2, <2>3, <2>5, <2>6 DEF Inv
<1> QED BY <1>3, <1>4, <1>5, <1>6 DEF Next

\* The inductive invariant of the server with its uplink: the ownership of
\* buffers and of job slots, the types, the locals and the single tick.
THEOREM InvAlways == Spec => []Inv
<1>1. Inv /\ [Next]_vars => Inv'
  BY StepKeepsServerInv
<1> QED BY InitHasServerInv, <1>1, PTL DEF Spec

\* Every variable of the server keeps its type, the program counters of the
\* two tasks agree with their locals.
THEOREM ServerTypeCorrect == Spec => []ServerTypeOK
<1>1. Inv => ServerTypeOK
  BY DEF Inv
<1> QED BY <1>1, InvAlways, PTL

\* At any time a job slot is free, being filled, queued or with the worker,
\* and only one of these (MCPServer.cpp:313-352, 393-425).
THEOREM JobSlotsHaveOneOwner == Spec => []JobSlotOneOwner
<1>1. Inv => JobSlotOneOwner
  BY DEF Inv
<1> QED BY <1>1, InvAlways, PTL

\* jobs_ is long enough: the branches for a full queue are dead code
\* (MCPServer.cpp:136-137, 345-352 and 372-382).
THEOREM JobQueueNeverFull == Spec => []JobQueueHasRoom
<1>1. Inv => JobQueueHasRoom
  BY OwnersGiveRoom DEF Inv
<1> QED BY <1>1, InvAlways, PTL

\* The server uses the uplink as the uplink expects, so what is proved of
\* the uplink holds of the node: one owner per buffer, queues with room, and
\* the channel that hands every frame over once.
THEOREM ServerImplementsUplink == Spec => ImplementsUplink
<1>1. Inv /\ [Next]_vars => [UplinkNext]_uplinkVars
  <2> SUFFICES ASSUME Inv, [Next]_vars PROVE [UplinkNext]_uplinkVars
    OBVIOUS
  <2> QED BY ServerUsesUplink DEF Inv, UplinkInv
<1>2. Init => UplinkInit
  BY DEF Init
<1> QED BY <1>1, <1>2, InvAlways, PTL DEF Spec, ImplementsUplink, UplinkSpec

\* The uplink buffers of a running server: the two layers composed.
THEOREM ServerBuffersHaveOneOwner == Spec => []OneOwner /\ []NeverFull /\ ImplementsChannel
BY ServerImplementsUplink, BuffersHaveOneOwner, QueuesNeverFull, UplinkImplementsChannel, PTL DEF ImplementsUplink

-----------------------------------------------------------------------------
(* What the updates of one field leave.                                    *)

\* The two fields of a slot that are written after it was claimed.
LEMMA SlotFields ==
    ASSUME NEW f \in [JobIdx -> Slot], NEW w \in JobIdx, NEW state
    PROVE  /\ LET g == [f EXCEPT ![w].state = state] IN
              /\ g[w].state = state /\ g[w].req = f[w].req /\ g[w].nb = f[w].nb
              /\ g[w].cancelled = f[w].cancelled
              /\ \A t \in JobIdx \ {w} : g[t] = f[t]
           /\ LET g == [f EXCEPT ![w].cancelled = TRUE] IN
              /\ g[w].cancelled /\ g[w].state = f[w].state /\ g[w].req = f[w].req /\ g[w].nb = f[w].nb
              /\ \A t \in JobIdx \ {w} : g[t] = f[t]
<1>1. f[w] \in Slot
  OBVIOUS
<1>2. LET g == [f EXCEPT ![w].state = state] IN
      /\ g[w].state = state /\ g[w].req = f[w].req /\ g[w].nb = f[w].nb
      /\ g[w].cancelled = f[w].cancelled
      /\ \A t \in JobIdx \ {w} : g[t] = f[t]
  BY <1>1 DEF Slot
<1>3. LET g == [f EXCEPT ![w].cancelled = TRUE] IN
      /\ g[w].cancelled /\ g[w].state = f[w].state /\ g[w].req = f[w].req /\ g[w].nb = f[w].nb
      /\ \A t \in JobIdx \ {w} : g[t] = f[t]
  BY <1>1 DEF Slot
<1> QED BY <1>2, <1>3

\* The fields of a record of the history, one at a time.
LEMMA RecordFields ==
    ASSUME requests \in Seq(Request), NEW n \in 1..Len(requests), NEW x
    PROVE  /\ LET r == [requests EXCEPT ![n].stage = x] IN
              /\ Len(r) = Len(requests) /\ \A m \in 1..Len(requests) \ {n} : r[m] = requests[m]
              /\ r[n].stage = x /\ r[n].cancel = requests[n].cancel
              /\ r[n].acked = requests[n].acked /\ r[n].rid = requests[n].rid
           /\ LET r == [requests EXCEPT ![n].cancel = x] IN
              /\ Len(r) = Len(requests) /\ \A m \in 1..Len(requests) \ {n} : r[m] = requests[m]
              /\ r[n].cancel = x /\ r[n].stage = requests[n].stage
              /\ r[n].acked = requests[n].acked /\ r[n].rid = requests[n].rid
           /\ LET r == [requests EXCEPT ![n].acked = TRUE] IN
              /\ Len(r) = Len(requests) /\ \A m \in 1..Len(requests) \ {n} : r[m] = requests[m]
              /\ r[n].acked /\ r[n].stage = requests[n].stage
              /\ r[n].cancel = requests[n].cancel /\ r[n].rid = requests[n].rid
<1>1. Len(requests) \in Nat /\ requests \in [1..Len(requests) -> Request] /\ requests[n] \in Request
  BY LenProperties
<1>2. LET r == [requests EXCEPT ![n].stage = x] IN
      /\ Len(r) = Len(requests) /\ \A m \in 1..Len(requests) \ {n} : r[m] = requests[m]
      /\ r[n].stage = x /\ r[n].cancel = requests[n].cancel
      /\ r[n].acked = requests[n].acked /\ r[n].rid = requests[n].rid
  BY <1>1 DEF Request
<1>3. LET r == [requests EXCEPT ![n].cancel = x] IN
      /\ Len(r) = Len(requests) /\ \A m \in 1..Len(requests) \ {n} : r[m] = requests[m]
      /\ r[n].cancel = x /\ r[n].stage = requests[n].stage
      /\ r[n].acked = requests[n].acked /\ r[n].rid = requests[n].rid
  BY <1>1 DEF Request
<1>4. LET r == [requests EXCEPT ![n].acked = TRUE] IN
      /\ Len(r) = Len(requests) /\ \A m \in 1..Len(requests) \ {n} : r[m] = requests[m]
      /\ r[n].acked /\ r[n].stage = requests[n].stage
      /\ r[n].cancel = requests[n].cancel /\ r[n].rid = requests[n].rid
  BY <1>1 DEF Request
<1> QED BY <1>2, <1>3, <1>4

-----------------------------------------------------------------------------
(* The state of a slot and inFlight_.                                      *)

RunSlots == IF worker.pc \in {"acquire", "run", "free"} THEN {worker.slot} ELSE {}
ReturnSlots == IF worker.pc = "return" THEN {worker.slot} ELSE {}
LiveSlots == {s \in JobIdx : Live(s)}

\* SlotStateTellsOwner in terms of these sets.
LEMMA StateSets ==
    SlotStateTellsOwner <=>
      /\ \A s \in JobIdx : /\ slots[s].state = "free" <=> s \in ToSet(freeSlots) \union ReturnSlots
                           /\ slots[s].state = "running" <=> s \in RunSlots
      /\ inFlight = Cardinality(LiveSlots)
BY DEF SlotStateTellsOwner, RunSlots, ReturnSlots, LiveSlots

\* A slot is live or it is free.
LEMMA LiveOrFree ==
    ASSUME ServerTypeOK
    PROVE  \A s \in JobIdx : (s \in LiveSlots) <=> (slots[s].state # "free")
BY DEF ServerTypeOK, Slot, LiveSlots, Live

\* A step that leaves the states and the whereabouts of the slots alone.
LEMMA StatesStay ==
    ASSUME SlotStateTellsOwner, ToSet(freeSlots') = ToSet(freeSlots), inFlight' = inFlight,
           RunSlots' = RunSlots, ReturnSlots' = ReturnSlots,
           \A s \in JobIdx : slots'[s].state = slots[s].state
    PROVE  SlotStateTellsOwner'
<1>1. LiveSlots' = LiveSlots
  BY DEF LiveSlots, Live
<1>2. SlotStateTellsOwner' <=>
      /\ \A s \in JobIdx : /\ slots'[s].state = "free" <=> s \in ToSet(freeSlots') \union ReturnSlots'
                           /\ slots'[s].state = "running" <=> s \in RunSlots'
      /\ inFlight' = Cardinality(LiveSlots')
  BY DEF SlotStateTellsOwner, RunSlots, ReturnSlots, LiveSlots
<1> QED BY <1>1, <1>2, StateSets

\* A step that changes the state of one slot.
LEMMA StateMoves ==
    ASSUME ServerTypeOK, ServerTypeOK', SlotStateTellsOwner, NEW w \in JobIdx,
           \A s \in JobIdx \ {w} : slots'[s].state = slots[s].state,
           \A s \in JobIdx \ {w} : (s \in ToSet(freeSlots') \union ReturnSlots') <=> (s \in ToSet(freeSlots) \union ReturnSlots),
           \A s \in JobIdx \ {w} : (s \in RunSlots') <=> (s \in RunSlots),
           slots'[w].state = "free" <=> w \in ToSet(freeSlots') \union ReturnSlots',
           slots'[w].state = "running" <=> w \in RunSlots',
           inFlight' = IF slots[w].state = "free" /\ slots'[w].state # "free" THEN inFlight + 1
                       ELSE IF slots[w].state # "free" /\ slots'[w].state = "free" THEN inFlight - 1
                       ELSE inFlight
    PROVE  SlotStateTellsOwner'
<1>1. IsFiniteSet(LiveSlots)
  <2>1. LiveSlots \in SUBSET JobIdx
    BY DEF LiveSlots
  <2> QED BY <2>1, JobIdxSize, FS_Subset
<1>2. /\ \A s \in JobIdx : (s \in LiveSlots) <=> (slots[s].state # "free")
      /\ \A s \in JobIdx : (s \in LiveSlots') <=> (slots'[s].state # "free")
      /\ LiveSlots \subseteq JobIdx /\ LiveSlots' \subseteq JobIdx
  <2>1. \A s \in JobIdx : (s \in LiveSlots') <=> (slots'[s].state # "free")
    BY DEF ServerTypeOK, Slot, LiveSlots, Live
  <2> QED BY <2>1, LiveOrFree DEF LiveSlots
<1>3. /\ \A s \in JobIdx : /\ slots[s].state = "free" <=> s \in ToSet(freeSlots) \union ReturnSlots
                           /\ slots[s].state = "running" <=> s \in RunSlots
      /\ inFlight = Cardinality(LiveSlots)
  BY StateSets
<1>4. inFlight' = Cardinality(LiveSlots')
  <2>1. CASE slots[w].state = "free" /\ slots'[w].state # "free"
    <3>1. LiveSlots' = LiveSlots \union {w} /\ w \notin LiveSlots
      BY <1>2, <2>1
    <3> QED BY <1>1, <1>3, <2>1, <3>1, FS_AddElement
  <2>2. CASE slots[w].state # "free" /\ slots'[w].state = "free"
    <3>1. LiveSlots' = LiveSlots \ {w} /\ w \in LiveSlots
      BY <1>2, <2>2
    <3> QED BY <1>1, <1>3, <2>2, <3>1, FS_RemoveElement
  <2>3. CASE slots[w].state = "free" <=> slots'[w].state = "free"
    <3>1. LiveSlots' = LiveSlots
      BY <1>2, <2>3
    <3> QED BY <1>3, <2>3, <3>1
  <2> QED BY <2>1, <2>2, <2>3
<1>5. \A s \in JobIdx : /\ slots'[s].state = "free" <=> s \in ToSet(freeSlots') \union ReturnSlots'
                        /\ slots'[s].state = "running" <=> s \in RunSlots'
  BY <1>3
<1>6. SlotStateTellsOwner' <=>
      /\ \A s \in JobIdx : /\ slots'[s].state = "free" <=> s \in ToSet(freeSlots') \union ReturnSlots'
                           /\ slots'[s].state = "running" <=> s \in RunSlots'
      /\ inFlight' = Cardinality(LiveSlots')
  BY DEF SlotStateTellsOwner, RunSlots, ReturnSlots, LiveSlots
<1> QED BY <1>4, <1>5, <1>6

\* begin(): every slot is free.
LEMMA InitHasStates == Init => SlotStateTellsOwner
<1> SUFFICES ASSUME Init PROVE SlotStateTellsOwner
  OBVIOUS
<1>1. ServerTypeOK /\ JobIdx \subseteq ToSet(freeSlots)
  <2>1. Inv /\ mqtt.pc = "idle" /\ worker.pc = "idle" /\ jobs = <<>>
    BY InitHasServerInv, IdleTypes DEF Init, ServerInit
  <2>2. ToSet(jobs) = {}
    BY <2>1 DEF ToSet
  <2> QED BY <2>1, <2>2 DEF Inv, JobSlotOneOwner, ClaimedSlots, QueuedSlots, WorkerSlots
<1>2. /\ \A s \in JobIdx : slots[s].state = "free"
      /\ inFlight = 0 /\ worker.pc = "idle"
  BY IdleTypes DEF Init, ServerInit
<1>3. LiveSlots = {}
  BY <1>2 DEF LiveSlots, Live
<1>4. RunSlots = {} /\ Cardinality({}) = 0
  BY <1>2, FS_EmptySet DEF RunSlots
<1> QED BY <1>1, <1>2, <1>3, <1>4, StateSets

\* handleReq() claims a slot (MCPServer.cpp:313-343).
LEMMA ClaimKeepsStates ==
    ASSUME Inv, ServerTypeOK', SlotStateTellsOwner, NEW h, NEW nb, OnAccepted(h, nb)
    PROVE  SlotStateTellsOwner'
<1> DEFINE w == Head(freeSlots)
<1>0. freeSlots \in Seq(JobIdx) /\ Injective(freeSlots) /\ freeSlots # <<>> /\ slots \in [JobIdx -> Slot]
  BY DEF Inv, ServerTypeOK, JobSlotOneOwner, OnAccepted
<1>1. /\ freeSlots' = Tail(freeSlots) /\ slots' = [slots EXCEPT ![w] = Claimed(h, nb)]
      /\ inFlight' = inFlight + 1 /\ worker' = worker
  BY DEF OnAccepted
<1>2. w \in JobIdx /\ w \in ToSet(freeSlots) /\ ToSet(freeSlots') = ToSet(freeSlots) \ {w}
  BY <1>0, <1>1, TailOfInjective
<1> HIDE DEF w
<1>3. RunSlots' = RunSlots /\ ReturnSlots' = ReturnSlots
  BY <1>1 DEF RunSlots, ReturnSlots
<1>4. w \notin RunSlots /\ w \notin ReturnSlots
  BY <1>2 DEF Inv, JobSlotOneOwner, WorkerSlots, RunSlots, ReturnSlots
<1>5. slots[w].state = "free" /\ slots'[w].state = "queued" /\ \A s \in JobIdx \ {w} : slots'[s].state = slots[s].state
  BY <1>0, <1>1, <1>2, StateSets DEF Claimed
<1> QED BY <1>1, <1>2, <1>3, <1>4, <1>5, StateMoves DEF Inv

\* runJob() and freeSlot() (MCPServer.cpp:393-495).
LEMMA JobKeepsStates ==
    ASSUME Inv, ServerTypeOK', SlotStateTellsOwner, JobStart \/ FreeMark \/ FreeReturn
    PROVE  SlotStateTellsOwner'
<1> DEFINE w == worker.slot
<1>0. /\ worker.pc \in {"start", "free", "return"} /\ w \in JobIdx /\ worker \in WorkerState
      /\ freeSlots \in Seq(JobIdx) /\ Injective(freeSlots) /\ slots \in [JobIdx -> Slot]
  BY DEF Inv, LocalsOK, ServerTypeOK, JobSlotOneOwner, JobStart, FreeMark, FreeReturn
<1>1. w \notin ToSet(freeSlots) /\ WorkerSlots = {w}
  BY <1>0 DEF Inv, JobSlotOneOwner, WorkerSlots
<1>2. CASE JobStart
  <2>1. /\ worker.pc = "start" /\ slots' = [slots EXCEPT ![w].state = "running"]
        /\ worker'.pc \in {"acquire", "free"} /\ worker'.slot = w
        /\ UNCHANGED <<freeSlots, inFlight>>
    BY <1>2 DEF JobStart
  <2>2. RunSlots = {} /\ ReturnSlots = {} /\ RunSlots' = {w} /\ ReturnSlots' = {}
    BY <2>1 DEF RunSlots, ReturnSlots
  <2>3. slots'[w].state = "running" /\ \A s \in JobIdx \ {w} : slots'[s].state = slots[s].state
    BY <1>0, <2>1, SlotFields
  <2>4. slots[w].state # "free"
    BY <1>0, <1>1, <2>2, StateSets
  <2> QED BY <1>0, <1>1, <2>1, <2>2, <2>3, <2>4, StateMoves DEF Inv
<1>3. CASE FreeMark
  <2>1. /\ worker.pc = "free" /\ slots' = [slots EXCEPT ![w].state = "free"]
        /\ worker' = [worker EXCEPT !.pc = "return"]
        /\ freeSlots' = freeSlots /\ inFlight' = inFlight - 1
    BY <1>3 DEF FreeMark
  <2>2. RunSlots = {w} /\ ReturnSlots = {} /\ RunSlots' = {} /\ ReturnSlots' = {w}
    BY <1>0, <2>1 DEF RunSlots, ReturnSlots, WorkerState
  <2>3. slots'[w].state = "free" /\ \A s \in JobIdx \ {w} : slots'[s].state = slots[s].state
    BY <1>0, <2>1, SlotFields
  <2>4. slots[w].state = "running"
    BY <1>0, <2>2, StateSets
  <2> QED BY <1>0, <1>1, <2>1, <2>2, <2>3, <2>4, StateMoves DEF Inv
<1>4. CASE FreeReturn
  <2>1. /\ worker.pc = "return" /\ UNCHANGED <<slots, inFlight>>
        /\ freeSlots' = Send(freeSlots, w, JobSlots)
        /\ \/ worker' = WorkerIdle
           \/ worker' = [worker EXCEPT !.slot = NoSlot, !.pc = IF worker.kind = "RES" THEN "submit" ELSE "replyAcquire"]
    BY <1>4 DEF FreeReturn
  <2>2. worker'.pc \in {"idle", "submit", "replyAcquire"}
    BY <1>0, <2>1, IdleTypes DEF WorkerState
  <2>3. RunSlots = {} /\ ReturnSlots = {w} /\ RunSlots' = {} /\ ReturnSlots' = {}
    BY <2>1, <2>2 DEF RunSlots, ReturnSlots
  <2>4. ToSet(freeSlots') = ToSet(freeSlots) \union {w}
    <3>1. Len(freeSlots) < JobSlots
      BY <1>0, <1>1, JobIdxSize, InjectiveMisses
    <3>2. freeSlots' = Append(freeSlots, w)
      BY <2>1, <3>1 DEF Send
    <3> QED BY <1>0, <1>1, <3>2, AppendToInjective
  <2>5. slots[w].state = "free"
    BY <1>0, <2>3, StateSets
  <2> HIDE DEF w
  <2> QED BY <1>0, <1>1, <2>1, <2>3, <2>4, <2>5, StateMoves DEF Inv
<1> QED BY <1>2, <1>3, <1>4

\* Every other step leaves the states, the free queue and the slot of the
\* worker alone; the branch of Enqueue that frees the slot is never taken.
LEMMA OthersKeepStates ==
    ASSUME Inv, SlotStateTellsOwner, [Next]_vars,
           \A h, nb : ~ OnAccepted(h, nb), ~ JobStart, ~ FreeMark, ~ FreeReturn
    PROVE  SlotStateTellsOwner'
<1> DEFINE runs == {"acquire", "run", "free"}
<1>0. worker \in WorkerState /\ slots \in [JobIdx -> Slot]
  BY DEF Inv, ServerTypeOK
<1>1. UNCHANGED <<freeSlots, inFlight>> /\ \A s \in JobIdx : slots'[s].state = slots[s].state
  <2>1. CASE Enqueue
    <3>1. Len(jobs) < JobSlots + 2
      BY <2>1, OwnersGiveRoom DEF Inv, JobQueueHasRoom, Enqueue
    <3> QED BY <2>1, <3>1 DEF Enqueue
  <2>2. CASE CancelMark
    <3>1. mqtt.slot \in JobIdx /\ slots' = [slots EXCEPT ![mqtt.slot].cancelled = TRUE] /\ UNCHANGED <<freeSlots, inFlight>>
      BY <2>2 DEF Inv, LocalsOK, CancelMark
    <3> QED BY <1>0, <3>1, SlotFields
  <2>3. ASSUME NEW nb, SendRefusal(nb) PROVE UNCHANGED <<freeSlots, inFlight, slots>>
    BY <2>3 DEF SendRefusal
  <2>4. ASSUME NEW rid, CancelLook(rid) PROVE UNCHANGED <<freeSlots, inFlight, slots>>
    BY <2>4 DEF CancelLook
  <2>5. CASE MqttBuffer \/ MqttNoBuffer \/ MqttSubmit \/ PostTick
    BY <2>5 DEF MqttBuffer, MqttNoBuffer, MqttSubmit, PostTick
  <2>6. CASE WorkerReceive \/ WorkerTick \/ WorkerBuffer \/ WorkerNoBuffer \/ RunHandler \/ WorkerSubmit
    BY <2>6 DEF WorkerReceive, WorkerTick, WorkerBuffer, WorkerNoBuffer, RunHandler, WorkerSubmit
  <2>7. CASE Net \/ Clock
    BY <2>7 DEF Net, Publish, Clock, serverVars
  <2>8. CASE UNCHANGED vars
    BY <2>8 DEF vars, serverVars
  <2> QED BY <2>1, <2>2, <2>3, <2>4, <2>5, <2>6, <2>7, <2>8
          DEF Next, Mqtt, Worker, OnRejected, OnDuplicate, OnBusy
<1>2. \/ worker' = worker
      \/ /\ worker.pc \in runs /\ worker'.pc \in runs /\ worker'.slot = worker.slot
      \/ /\ worker.pc \notin runs \union {"return"} /\ worker'.pc \notin runs \union {"return"}
  <2>1. CASE WorkerReceive \/ WorkerTick
    <3>1. worker.pc \in {"idle", "tick"}
      BY <2>1 DEF WorkerReceive, WorkerTick
    <3>2. \/ worker' = WorkerIdle \/ worker' = [WorkerIdle EXCEPT !.pc = "tick"]
          \/ worker' = [WorkerIdle EXCEPT !.pc = "start", !.slot = Head(jobs)]
          \/ worker' = [WorkerIdle EXCEPT !.pc = "replyAcquire", !.kind = "OTHER"]
      BY <2>1 DEF WorkerReceive, WorkerTick
    <3>3. worker'.pc \in {"idle", "tick", "start", "replyAcquire"}
      BY <3>2, IdleTypes DEF WorkerState
    <3> QED BY <3>1, <3>3
  <2>2. CASE WorkerBuffer \/ RunHandler
    BY <1>0, <2>2 DEF WorkerBuffer, RunHandler, WorkerState
  <2>3. CASE WorkerNoBuffer
    <3>1. CASE worker.pc = "acquire"
      BY <1>0, <2>3, <3>1 DEF WorkerNoBuffer, WorkerState
    <3>2. CASE worker.pc = "replyAcquire"
      BY <2>3, <3>2, IdleTypes DEF WorkerNoBuffer
    <3> QED BY <2>3, <3>1, <3>2 DEF WorkerNoBuffer
  <2>4. CASE WorkerSubmit
    BY <2>4, IdleTypes DEF WorkerSubmit
  <2>5. CASE Mqtt \/ PostTick \/ Net \/ Clock \/ UNCHANGED vars
    BY <2>5 DEF Mqtt, OnRejected, OnDuplicate, OnBusy, OnAccepted, SendRefusal, CancelLook, MqttBuffer, MqttNoBuffer,
                MqttSubmit, Enqueue, CancelMark, PostTick, Net, Publish, Clock, vars, serverVars
  <2> QED BY <2>1, <2>2, <2>3, <2>4, <2>5 DEF Next, Worker
<1>3. RunSlots' = RunSlots /\ ReturnSlots' = ReturnSlots
  BY <1>2 DEF RunSlots, ReturnSlots
<1> QED BY <1>1, <1>3, StatesStay

LEMMA StepKeepsStates ==
    ASSUME Inv, SlotStateTellsOwner, [Next]_vars
    PROVE  SlotStateTellsOwner'
<1>1. ServerTypeOK'
  BY StepKeepsServerInv DEF Inv
<1>2. CASE \E h, nb : OnAccepted(h, nb)
  BY <1>1, <1>2, ClaimKeepsStates
<1>3. CASE JobStart \/ FreeMark \/ FreeReturn
  BY <1>1, <1>3, JobKeepsStates
<1> QED BY <1>2, <1>3, OthersKeepStates

-----------------------------------------------------------------------------
(* The flag cancelled and the history of CANCELs.                          *)

\* What no step takes back from the history.
Recorded(n) ==
    /\ requests'[n].rid = requests[n].rid
    /\ requests[n].acked => requests'[n].acked
    /\ requests[n].cancel # "no" => requests'[n].cancel # "no"

\* The steps that may touch the history, whatever request they name.
LEMMA UpdateRecords ==
    ASSUME requests \in Seq(Request), NEW n, NEW x,
           \/ requests' = [requests EXCEPT ![n].stage = x]
           \/ x # "no" /\ requests' = [requests EXCEPT ![n].cancel = x]
           \/ requests' = [requests EXCEPT ![n].acked = TRUE]
    PROVE  Len(requests') = Len(requests) /\ \A m \in 1..Len(requests) : Recorded(m)
<1>1. CASE n \in 1..Len(requests)
  <2>1. CASE requests' = [requests EXCEPT ![n].stage = x]
    <3>1. /\ Len(requests') = Len(requests) /\ \A m \in 1..Len(requests) \ {n} : requests'[m] = requests[m]
          /\ requests'[n].cancel = requests[n].cancel
          /\ requests'[n].acked = requests[n].acked /\ requests'[n].rid = requests[n].rid
      BY <1>1, <2>1, RecordFields
    <3> QED BY <3>1 DEF Recorded
  <2>2. CASE x # "no" /\ requests' = [requests EXCEPT ![n].cancel = x]
    <3>1. /\ Len(requests') = Len(requests) /\ \A m \in 1..Len(requests) \ {n} : requests'[m] = requests[m]
          /\ requests'[n].cancel = x
          /\ requests'[n].acked = requests[n].acked /\ requests'[n].rid = requests[n].rid
      BY <1>1, <2>2, RecordFields
    <3> QED BY <2>2, <3>1 DEF Recorded
  <2>3. CASE requests' = [requests EXCEPT ![n].acked = TRUE]
    <3>1. /\ Len(requests') = Len(requests) /\ \A m \in 1..Len(requests) \ {n} : requests'[m] = requests[m]
          /\ requests'[n].cancel = requests[n].cancel
          /\ requests'[n].acked /\ requests'[n].rid = requests[n].rid
      BY <1>1, <2>3, RecordFields
    <3>3. Recorded(n)
      BY <3>1 DEF Recorded
    <3>4. \A m \in 1..Len(requests) \ {n} : Recorded(m)
      BY <3>1 DEF Recorded
    <3> QED BY <3>1, <3>3, <3>4
  <2> QED BY <2>1, <2>2, <2>3
<1>2. CASE n \notin 1..Len(requests)
  <2>1. Len(requests) \in Nat /\ requests \in [1..Len(requests) -> Request]
    BY LenProperties
  <2>2. requests' = requests
    BY <1>2, <2>1
  <2> QED BY <2>2 DEF Recorded
<1> QED BY <1>1, <1>2

\* The history only grows, and a CANCEL or an ACK is not forgotten.
LEMMA HistoryGrows ==
    ASSUME Inv, [Next]_vars
    PROVE  /\ \A m \in 1..Len(requests) : Recorded(m)
           /\ \/ Len(requests') = Len(requests)
              \/ /\ Len(requests') = Len(requests) + 1
                 /\ \E h \in Headers : \E nb \in NotBefore(h) : OnAccepted(h, nb)
<1>0. requests \in Seq(Request)
  BY DEF Inv, ServerTypeOK
<1>1. ASSUME requests' = requests
      PROVE  Len(requests') = Len(requests) /\ \A m \in 1..Len(requests) : Recorded(m)
  BY <1>1 DEF Recorded
<1>2. ASSUME NEW n, NEW x, requests' = Reach(n, x)
      PROVE  Len(requests') = Len(requests) /\ \A m \in 1..Len(requests) : Recorded(m)
  BY <1>0, <1>1, <1>2, UpdateRecords DEF Reach
<1>3. ASSUME NEW h \in Headers, NEW nb \in NotBefore(h), OnAccepted(h, nb)
      PROVE  Len(requests') = Len(requests) + 1 /\ \A m \in 1..Len(requests) : Recorded(m)
  <2> DEFINE entry == [rid |-> h.rid, acked |-> FALSE, stage |-> "accepted", cancel |-> "no"]
  <2>1. requests' = Append(requests, entry) /\ entry \in Request
    BY <1>3, ServerAssumption DEF OnAccepted, Request
  <2> HIDE DEF entry
  <2>2. Len(requests') = Len(requests) + 1 /\ \A m \in 1..Len(requests) : requests'[m] = requests[m]
    BY <1>0, <2>1, AppendProperties
  <2> QED BY <2>2 DEF Recorded
<1>4. CASE Enqueue
  BY <1>1, <1>2, <1>4 DEF Enqueue
<1>5. ASSUME NEW rid \in Rids, CancelLook(rid)
      PROVE  Len(requests') = Len(requests) /\ \A m \in 1..Len(requests) : Recorded(m)
  <2>1. PICK s \in JobIdx : requests' = [requests EXCEPT ![slots[s].req].cancel = IF @ = "no" THEN "asked" ELSE @]
    BY <1>5 DEF CancelLook
  <2> DEFINE n == slots[s].req
             x == IF requests[n].cancel = "no" THEN "asked" ELSE requests[n].cancel
  <2>2. requests' = [requests EXCEPT ![n].cancel = x] /\ x # "no"
    BY <2>1
  <2> HIDE DEF n, x
  <2> QED BY <1>0, <2>2, UpdateRecords
<1>6. CASE CancelMark
  <2>1. \/ requests' = requests
        \/ requests' = [requests EXCEPT ![slots[mqtt.slot].req].cancel = "doomed"]
    BY <1>6 DEF CancelMark
  <2> QED BY <1>0, <1>1, <2>1, UpdateRecords
<1>7. CASE WorkerNoBuffer \/ RunHandler \/ WorkerSubmit
  <2>1. requests' = requests \/ requests' = Reach(worker.req, "lost") \/ requests' = Reach(worker.req, "executed")
    BY <1>7 DEF WorkerNoBuffer, RunHandler, WorkerSubmit
  <2> QED BY <1>1, <1>2, <2>1
<1>8. ASSUME NEW sent \in BOOLEAN, Publish(sent)
      PROVE  Len(requests') = Len(requests) /\ \A m \in 1..Len(requests) : Recorded(m)
  <2> DEFINE frame == drawn[1].frame
  <2>1. \/ requests' = Reach(frame.req, IF sent THEN frame.type ELSE "lost")
        \/ requests' = [requests EXCEPT ![frame.req].acked = TRUE]
        \/ requests' = requests
    BY <1>8 DEF Publish
  <2> HIDE DEF frame
  <2> QED BY <1>0, <1>1, <1>2, <2>1, UpdateRecords
<1>9. CASE \/ MqttBuffer \/ MqttNoBuffer \/ MqttSubmit \/ PostTick \/ WorkerReceive \/ WorkerTick \/ JobStart
           \/ WorkerBuffer \/ FreeMark \/ FreeReturn \/ Clock \/ UNCHANGED vars
  <2>1. requests' = requests
    BY <1>9 DEF MqttBuffer, MqttNoBuffer, MqttSubmit, PostTick, WorkerReceive, WorkerTick, JobStart, WorkerBuffer,
                FreeMark, FreeReturn, Clock, vars, serverVars
  <2> QED BY <1>1, <2>1
<1>10. CASE Net
  <2>1. CASE UNCHANGED serverVars
    BY <1>1, <2>1 DEF serverVars
  <2> QED BY <1>8, <1>10, <2>1 DEF Net
<1>11. ASSUME NEW nb, SendRefusal(nb)
       PROVE  Len(requests') = Len(requests) /\ \A m \in 1..Len(requests) : Recorded(m)
  BY <1>1, <1>11 DEF SendRefusal
<1> QED BY <1>3, <1>4, <1>5, <1>6, <1>7, <1>9, <1>10, <1>11 DEF Next, Mqtt, Worker, OnRejected, OnDuplicate, OnBusy

\* The slots and the two tasks name requests that were accepted.
Known ==
    /\ \A s \in JobIdx : slots[s].req <= Len(requests)
    /\ mqtt.req <= Len(requests) /\ worker.req <= Len(requests)

\* handleCancel() looked at a slot and has not marked it yet.
CancelPending == mqtt.pc = "cancel" /\ Live(mqtt.slot) => requests[slots[mqtt.slot].req].cancel # "no"

\* The invariant about the fields of the slots.
SlotInv == Inv /\ SlotStateTellsOwner /\ Known /\ CancelPending /\ CancelFlagFresh

\* A live slot is one whose request is in the history.
LEMMA LiveIsKnown ==
    ASSUME Inv, SlotStateTellsOwner, Known
    PROVE  \A s \in JobIdx : Live(s) => slots[s].req \in 1..Len(requests)
<1> SUFFICES ASSUME NEW s \in JobIdx, Live(s) PROVE slots[s].req \in 1..Len(requests)
  OBVIOUS
<1>1. s \notin ToSet(freeSlots)
  BY DEF SlotStateTellsOwner, Live
<1>2. slots[s].req # 0 /\ slots[s].req \in Nat
  BY <1>1 DEF Inv, LocalsOK, ServerTypeOK, Slot
<1>3. slots[s].req <= Len(requests) /\ Len(requests) \in Nat
  BY LenProperties DEF Known, Inv, ServerTypeOK
<1> QED BY <1>2, <1>3

\* handleReq() in full: the slot at the head of the free queue gets the next
\* request.
LEMMA ClaimFacts ==
    ASSUME Inv, NEW h \in Headers, NEW nb \in NotBefore(h), OnAccepted(h, nb)
    PROVE  LET w == Head(freeSlots)
               n == Len(requests) + 1
           IN  /\ w \in JobIdx /\ w \in ToSet(freeSlots)
               /\ slots'[w] = Claimed(h, nb) /\ \A t \in JobIdx \ {w} : slots'[t] = slots[t]
               /\ n \in 1..MaxRequests /\ Len(requests') = n
               /\ \A m \in 1..Len(requests) : requests'[m] = requests[m]
               /\ requests'[n] = [rid |-> h.rid, acked |-> FALSE, stage |-> "accepted", cancel |-> "no"]
               /\ mqtt'.pc \in {"ackAcquire", "enqueue"} /\ mqtt'.slot = w /\ mqtt'.req = n /\ mqtt'.nb = nb
               /\ UNCHANGED <<worker, txQ, parked, drawn>>
<1> DEFINE w == Head(freeSlots)
           n == Len(requests) + 1
           entry == [rid |-> h.rid, acked |-> FALSE, stage |-> "accepted", cancel |-> "no"]
<1>0. /\ freeSlots \in Seq(JobIdx) /\ Injective(freeSlots) /\ freeSlots # <<>> /\ slots \in [JobIdx -> Slot]
      /\ requests \in Seq(Request) /\ Len(requests) \in Nat
  BY LenProperties DEF Inv, ServerTypeOK, JobSlotOneOwner, OnAccepted
<1>1. w \in JobIdx /\ w \in ToSet(freeSlots)
  BY <1>0, TailOfInjective
<1>2. slots' = [slots EXCEPT ![w] = Claimed(h, nb)] /\ requests' = Append(requests, entry) /\ n <= MaxRequests
  BY DEF OnAccepted
<1>3. slots'[w] = Claimed(h, nb) /\ \A t \in JobIdx \ {w} : slots'[t] = slots[t]
  BY <1>0, <1>1, <1>2
<1>4. entry \in Request
  BY ServerAssumption DEF Request
<1>5. /\ Len(requests') = n /\ requests'[n] = entry
      /\ \A m \in 1..Len(requests) : requests'[m] = requests[m]
  <2> HIDE DEF entry
  <2> QED BY <1>0, <1>2, <1>4, AppendProperties
<1>6. n \in 1..MaxRequests
  BY <1>0, <1>2, Bounds
<1>7. /\ mqtt'.pc \in {"ackAcquire", "enqueue"} /\ mqtt'.slot = w /\ mqtt'.req = n /\ mqtt'.nb = nb
      /\ UNCHANGED <<worker, txQ, parked, drawn>>
  BY DEF OnAccepted, uplinkVars
<1> QED BY <1>1, <1>3, <1>5, <1>6, <1>7

\* Every other step leaves a slot with the job it has; it does not bring one
\* back to life, and only CancelMark sets a flag.
LEMMA SlotsKeepJobs ==
    ASSUME Inv, SlotStateTellsOwner, [Next]_vars, \A h, nb : ~ OnAccepted(h, nb), NEW s \in JobIdx
    PROVE  /\ slots'[s].req = slots[s].req /\ slots'[s].nb = slots[s].nb
           /\ slots'[s].state # "free" => slots[s].state # "free"
           /\ slots'[s].state = "queued" => slots[s].state = "queued"
           /\ slots[s].cancelled => slots'[s].cancelled
           /\ slots'[s].cancelled => slots[s].cancelled \/ (CancelMark /\ s = mqtt.slot)
<1>0. slots \in [JobIdx -> Slot] /\ slots[s] \in Slot
  BY DEF Inv, ServerTypeOK
<1>1. CASE slots' = slots
  BY <1>1
<1>2. CASE JobStart
  <2>1. worker.slot \in JobIdx /\ slots' = [slots EXCEPT ![worker.slot].state = "running"]
    BY <1>2 DEF JobStart, Inv, LocalsOK
  <2>2. slots[worker.slot].state = "queued"
    <3>1. worker.slot \notin ToSet(freeSlots) /\ worker.pc = "start"
      BY <1>2, <2>1 DEF JobStart, Inv, JobSlotOneOwner, WorkerSlots
    <3>2. slots[worker.slot] \in Slot
      BY <1>0, <2>1
    <3> QED BY <2>1, <3>1, <3>2 DEF SlotStateTellsOwner, Slot
  <2>3. slots'[worker.slot].state = "running"
    BY <1>0, <2>1, SlotFields
  <2> QED BY <1>0, <2>1, <2>2, <2>3, SlotFields
<1>3. CASE FreeMark
  <2>1. worker.slot \in JobIdx /\ slots' = [slots EXCEPT ![worker.slot].state = "free"]
    BY <1>3 DEF FreeMark, Inv, LocalsOK
  <2> QED BY <1>0, <2>1, SlotFields
<1>4. CASE CancelMark
  <2>1. mqtt.slot \in JobIdx /\ slots' = [slots EXCEPT ![mqtt.slot].cancelled = TRUE]
    BY <1>4 DEF CancelMark, Inv, LocalsOK
  <2> QED BY <1>0, <1>4, <2>1, SlotFields
<1>5. CASE Enqueue
  <2>1. Len(jobs) < JobSlots + 2
    BY <1>5, OwnersGiveRoom DEF Inv, JobQueueHasRoom, Enqueue
  <2> QED BY <1>1, <1>5, <2>1 DEF Enqueue
<1>6. ASSUME NEW rid, CancelLook(rid) PROVE slots' = slots
  BY <1>6 DEF CancelLook
<1>7. ASSUME NEW nb, SendRefusal(nb) PROVE slots' = slots
  BY <1>7 DEF SendRefusal
<1>8. CASE MqttBuffer \/ MqttNoBuffer \/ MqttSubmit \/ PostTick \/ FreeReturn \/ Net \/ Clock \/ UNCHANGED vars
  BY <1>1, <1>8 DEF MqttBuffer, MqttNoBuffer, MqttSubmit, PostTick, FreeReturn, Net, Publish, Clock, vars, serverVars
<1>9. CASE WorkerReceive \/ WorkerTick \/ WorkerBuffer \/ WorkerNoBuffer \/ RunHandler \/ WorkerSubmit
  BY <1>1, <1>9 DEF WorkerReceive, WorkerTick, WorkerBuffer, WorkerNoBuffer, RunHandler, WorkerSubmit
<1> QED BY <1>1, <1>2, <1>3, <1>4, <1>5, <1>6, <1>7, <1>8, <1>9
        DEF Next, Mqtt, Worker, OnRejected, OnDuplicate, OnBusy

\* Where the requests come from that the two tasks name.
LEMMA TasksKeepRequests ==
    ASSUME Inv, [Next]_vars, \A h, nb : ~ OnAccepted(h, nb)
    PROVE  /\ mqtt'.req \in {0, mqtt.req}
           /\ \/ worker'.req \in {0, worker.req}
              \/ JobStart /\ worker'.req = slots[worker.slot].req
<1>0. mqtt \in MqttState /\ worker \in WorkerState /\ MqttIdle.req = 0 /\ WorkerIdle.req = 0
  BY DEF Inv, ServerTypeOK, MqttIdle, WorkerIdle
<1>1. mqtt'.req \in {0, mqtt.req}
  <2>1. ASSUME NEW nb, SendRefusal(nb) PROVE mqtt'.req = 0
    BY <1>0, <2>1, IdleTypes DEF SendRefusal, MqttState
  <2>2. ASSUME NEW rid, CancelLook(rid) PROVE mqtt'.req = 0
    BY <1>0, <2>2, IdleTypes DEF CancelLook, MqttState
  <2>3. CASE MqttBuffer \/ MqttNoBuffer \/ MqttSubmit
    BY <1>0, <2>3 DEF MqttBuffer, MqttNoBuffer, MqttSubmit, MqttState
  <2>4. CASE Enqueue
    <3>1. mqtt' = MqttIdle
      BY <2>4, OwnersGiveRoom DEF Inv, JobQueueHasRoom, Enqueue
    <3> QED BY <1>0, <3>1
  <2>5. CASE CancelMark
    BY <1>0, <2>5 DEF CancelMark
  <2>6. CASE PostTick \/ Worker \/ Net \/ Clock \/ UNCHANGED vars
    BY <2>6 DEF PostTick, Worker, WorkerReceive, WorkerTick, JobStart, WorkerBuffer, WorkerNoBuffer, RunHandler, FreeMark,
                FreeReturn, WorkerSubmit, Net, Publish, Clock, vars, serverVars
  <2> QED BY <2>1, <2>2, <2>3, <2>4, <2>5, <2>6 DEF Next, Mqtt, OnRejected, OnDuplicate, OnBusy
<1>2. worker'.req \in {0, worker.req} \/ (JobStart /\ worker'.req = slots[worker.slot].req)
  <2>1. CASE JobStart
    BY <2>1 DEF JobStart
  <2>2. CASE WorkerReceive \/ WorkerTick
    <3>1. \/ worker' = WorkerIdle \/ worker' = [WorkerIdle EXCEPT !.pc = "tick"]
          \/ worker' = [WorkerIdle EXCEPT !.pc = "start", !.slot = Head(jobs)]
          \/ worker' = [WorkerIdle EXCEPT !.pc = "replyAcquire", !.kind = "OTHER"]
      BY <2>2 DEF WorkerReceive, WorkerTick
    <3> QED BY <1>0, <3>1, IdleTypes DEF WorkerState
  <2>3. CASE WorkerBuffer \/ RunHandler \/ FreeMark
    BY <1>0, <2>3 DEF WorkerBuffer, RunHandler, FreeMark, WorkerState
  <2>4. CASE WorkerNoBuffer \/ FreeReturn \/ WorkerSubmit
    <3>1. \/ worker' = WorkerIdle
          \/ worker' = [worker EXCEPT !.pc = "free", !.kind = "DROPPED"]
          \/ worker' = [worker EXCEPT !.slot = NoSlot, !.pc = IF worker.kind = "RES" THEN "submit" ELSE "replyAcquire"]
      BY <2>4 DEF WorkerNoBuffer, FreeReturn, WorkerSubmit
    <3> QED BY <1>0, <3>1 DEF WorkerState
  <2>5. CASE Mqtt \/ PostTick \/ Net \/ Clock \/ UNCHANGED vars
    BY <2>5 DEF Mqtt, OnRejected, OnDuplicate, OnBusy, OnAccepted, SendRefusal, CancelLook, MqttBuffer, MqttNoBuffer,
                MqttSubmit, Enqueue, CancelMark, PostTick, Net, Publish, Clock, vars, serverVars
  <2> QED BY <2>1, <2>2, <2>3, <2>4, <2>5 DEF Next, Worker
<1> QED BY <1>1, <1>2

\* Nobody has asked anything yet.
LEMMA InitHasSlotInv == Init => SlotInv
<1> SUFFICES ASSUME Init PROVE SlotInv
  OBVIOUS
<1>1. Inv /\ SlotStateTellsOwner
  BY InitHasServerInv, InitHasStates
<1>2. /\ \A s \in JobIdx : slots[s].req = 0 /\ slots[s].state = "free"
      /\ mqtt.pc = "idle" /\ mqtt.req = 0 /\ worker.req = 0 /\ Len(requests) = 0
  BY DEF Init, ServerInit, MqttIdle, WorkerIdle
<1>3. Known /\ CancelPending /\ CancelFlagFresh
  BY <1>2 DEF Known, CancelPending, CancelFlagFresh, Live
<1> QED BY <1>1, <1>3 DEF SlotInv

\* A step that ends in handleCancel() is its first half or left it there.
LEMMA OnlyLookLeadsToMark ==
    ASSUME Inv, [Next]_vars, mqtt'.pc = "cancel"
    PROVE  mqtt' = mqtt \/ \E rid \in Rids : CancelLook(rid)
<1>0. mqtt \in MqttState
  BY DEF Inv, ServerTypeOK
<1>1. ASSUME NEW nb, SendRefusal(nb) PROVE FALSE
  BY <1>0, <1>1, IdleTypes DEF SendRefusal, MqttState
<1>2. CASE MqttBuffer \/ MqttNoBuffer \/ MqttSubmit
  <2>1. /\ mqtt.pc # "cancel"
        /\ \/ mqtt' = MqttIdle \/ mqtt' = [mqtt EXCEPT !.pc = "enqueue"]
           \/ mqtt' = [mqtt EXCEPT !.pc = IF mqtt.pc = "ackAcquire" THEN "ackSubmit" ELSE "errSubmit"]
    BY <1>2 DEF MqttBuffer, MqttNoBuffer, MqttSubmit
  <2>2. mqtt'.pc \in {"idle", "enqueue", "ackSubmit", "errSubmit"}
    BY <1>0, <2>1, IdleTypes DEF MqttState
  <2> QED BY <2>2
<1>3. CASE Enqueue \/ CancelMark
  <2>1. mqtt' = MqttIdle
    BY <1>3, OwnersGiveRoom DEF Inv, JobQueueHasRoom, Enqueue, CancelMark
  <2> QED BY <2>1, IdleTypes
<1>4. ASSUME NEW h, NEW nb, OnAccepted(h, nb) PROVE FALSE
  <2>1. mqtt'.pc = IF h.ack THEN "ackAcquire" ELSE "enqueue"
    BY <1>4 DEF OnAccepted
  <2> QED BY <2>1
<1>5. CASE PostTick \/ Worker \/ Net \/ Clock \/ UNCHANGED vars
  BY <1>5 DEF PostTick, Worker, WorkerReceive, WorkerTick, JobStart, WorkerBuffer, WorkerNoBuffer, RunHandler, FreeMark,
              FreeReturn, WorkerSubmit, Net, Publish, Clock, vars, serverVars
<1> QED BY <1>1, <1>2, <1>3, <1>4, <1>5 DEF Next, Mqtt, OnRejected, OnDuplicate, OnBusy

\* Every step keeps the invariant about the slots.
LEMMA StepKeepsSlotInv ==
    ASSUME SlotInv, [Next]_vars
    PROVE  SlotInv'
<1>0. Inv /\ SlotStateTellsOwner /\ Known /\ CancelPending /\ CancelFlagFresh
  BY DEF SlotInv
<1>1. Inv' /\ SlotStateTellsOwner'
  BY <1>0, StepKeepsServerInv, StepKeepsStates
<1>2. /\ mqtt \in MqttState /\ worker \in WorkerState /\ slots \in [JobIdx -> Slot] /\ Len(requests) \in Nat
      /\ Len(requests') \in Nat /\ requests \in Seq(Request)
  BY <1>0, <1>1, LenProperties DEF Inv, ServerTypeOK
<1>3. \A m \in 1..Len(requests) : Recorded(m)
  BY <1>0, HistoryGrows
<1>4. \A s \in JobIdx : Live(s) => slots[s].req \in 1..Len(requests)
  BY <1>0, LiveIsKnown
<1>5. ASSUME NEW h \in Headers, NEW nb \in NotBefore(h), OnAccepted(h, nb)
      PROVE  Known' /\ CancelPending' /\ CancelFlagFresh'
  <2> DEFINE w == Head(freeSlots)
             n == Len(requests) + 1
  <2>1. /\ w \in JobIdx
        /\ slots'[w] = Claimed(h, nb) /\ \A t \in JobIdx \ {w} : slots'[t] = slots[t]
        /\ Len(requests') = n /\ \A m \in 1..Len(requests) : requests'[m] = requests[m]
        /\ mqtt'.pc \in {"ackAcquire", "enqueue"} /\ mqtt'.req = n /\ worker' = worker
    BY <1>0, <1>5, ClaimFacts
  <2>2. slots'[w].req = n /\ slots'[w].cancelled = FALSE
    BY <2>1 DEF Claimed
  <2> HIDE DEF w
  <2>3. Known'
    <3>1. \A s \in JobIdx : slots[s].req <= Len(requests)
      BY <1>0 DEF Known
    <3>2. \A s \in JobIdx : slots'[s].req <= n
      <4>1. \A s \in JobIdx : slots[s].req \in Nat
        BY <1>2 DEF Slot
      <4> QED BY <1>2, <2>1, <2>2, <3>1, <4>1
    <3>3. worker.req <= n
      <4>1. worker.req \in Nat /\ worker.req <= Len(requests)
        BY <1>0, <1>2 DEF WorkerState, Known
      <4> QED BY <1>2, <4>1
    <3> QED BY <1>2, <2>1, <3>2, <3>3 DEF Known
  <2>4. CancelPending'
    BY <2>1 DEF CancelPending
  <2>5. CancelFlagFresh'
    <3> SUFFICES ASSUME NEW s \in JobIdx, Live(s)', slots'[s].cancelled
                 PROVE  requests'[slots'[s].req].cancel # "no"
      BY DEF CancelFlagFresh
    <3>1. s # w
      BY <2>2
    <3>2. slots'[s] = slots[s]
      BY <2>1, <3>1
    <3>3. Live(s) /\ slots[s].cancelled
      BY <3>2 DEF Live
    <3>4. requests[slots[s].req].cancel # "no" /\ slots[s].req \in 1..Len(requests)
      BY <1>0, <1>4, <3>3 DEF CancelFlagFresh
    <3> QED BY <2>1, <3>2, <3>4
  <2> QED BY <2>3, <2>4, <2>5
<1>6. ASSUME \A h, nb : ~ OnAccepted(h, nb)
      PROVE  Known' /\ CancelPending' /\ CancelFlagFresh'
  <2>1. Len(requests') = Len(requests)
    BY <1>0, <1>6, HistoryGrows
  <2>2. \A s \in JobIdx : /\ slots'[s].req = slots[s].req
                          /\ slots'[s].state # "free" => slots[s].state # "free"
                          /\ slots'[s].cancelled => slots[s].cancelled \/ (CancelMark /\ s = mqtt.slot)
    BY <1>0, <1>6, SlotsKeepJobs
  <2>3. /\ mqtt'.req \in {0, mqtt.req}
        /\ worker'.req \in {0, worker.req} \/ (JobStart /\ worker'.req = slots[worker.slot].req)
    BY <1>0, <1>6, TasksKeepRequests
  <2>4. Known'
    <3>1. 0 <= Len(requests) /\ mqtt.req <= Len(requests) /\ worker.req <= Len(requests)
          /\ \A s \in JobIdx : slots[s].req <= Len(requests)
      BY <1>0, <1>2 DEF Known
    <3>2. worker'.req <= Len(requests)
      <4>1. CASE worker'.req \in {0, worker.req}
        BY <3>1, <4>1
      <4>2. CASE JobStart /\ worker'.req = slots[worker.slot].req
        BY <1>0, <3>1, <4>2 DEF JobStart, Inv, LocalsOK
      <4> QED BY <2>3, <4>1, <4>2
    <3> QED BY <2>1, <2>2, <2>3, <3>1, <3>2 DEF Known
  <2>5. \A s \in JobIdx : Live(s)' => Live(s)
    <3>1. \A s \in JobIdx : slots[s].state \in {"free", "queued", "running"}
      BY <1>2 DEF Slot
    <3> QED BY <2>2, <3>1 DEF Live
  <2>6. CancelFlagFresh'
    <3> SUFFICES ASSUME NEW s \in JobIdx, Live(s)', slots'[s].cancelled
                 PROVE  requests'[slots[s].req].cancel # "no"
      BY <2>2 DEF CancelFlagFresh
    <3>1. Live(s) /\ slots[s].req \in 1..Len(requests)
      BY <1>4, <2>5
    <3>2. requests[slots[s].req].cancel # "no"
      <4>1. CASE slots[s].cancelled
        BY <1>0, <3>1, <4>1 DEF CancelFlagFresh
      <4>2. CASE CancelMark /\ s = mqtt.slot
        BY <1>0, <3>1, <4>2 DEF CancelPending, CancelMark
      <4> QED BY <2>2, <4>1, <4>2
    <3> QED BY <1>3, <3>1, <3>2 DEF Recorded
  <2>7. CancelPending'
    <3> SUFFICES ASSUME mqtt'.pc = "cancel", Live(mqtt.slot)'
                 PROVE  requests'[slots'[mqtt'.slot].req].cancel # "no"
      BY DEF CancelPending
    <3>1. CASE mqtt' = mqtt
      <4>1. mqtt.slot \in JobIdx
        BY <1>0, <3>1 DEF Inv, LocalsOK
      <4>2. Live(mqtt.slot) /\ slots'[mqtt.slot].req = slots[mqtt.slot].req
        BY <2>2, <2>5, <3>1, <4>1
      <4>3. slots[mqtt.slot].req \in 1..Len(requests) /\ requests[slots[mqtt.slot].req].cancel # "no"
        BY <1>0, <1>4, <3>1, <4>1, <4>2 DEF CancelPending
      <4> QED BY <1>3, <3>1, <4>2, <4>3 DEF Recorded
    <3>2. ASSUME NEW rid \in Rids, CancelLook(rid)
          PROVE  requests'[slots'[mqtt'.slot].req].cancel # "no"
      <4>1. PICK s \in JobIdx :
              /\ Matches(s, rid)
              /\ mqtt' = [MqttIdle EXCEPT !.pc = "cancel", !.slot = s]
              /\ requests' = [requests EXCEPT ![slots[s].req].cancel = IF @ = "no" THEN "asked" ELSE @]
        BY <3>2 DEF CancelLook
      <4> DEFINE n == slots[s].req
                 x == IF requests[n].cancel = "no" THEN "asked" ELSE requests[n].cancel
      <4>2. mqtt'.slot = s
        BY <4>1, IdleTypes DEF MqttState
      <4>3. n \in 1..Len(requests) /\ slots'[s].req = n
        BY <1>4, <2>2, <4>1 DEF Matches
      <4>4. requests' = [requests EXCEPT ![n].cancel = x] /\ x # "no"
        BY <4>1
      <4> HIDE DEF n, x
      <4>5. requests'[n].cancel = x
        BY <1>2, <4>3, <4>4, RecordFields
      <4> QED BY <4>2, <4>3, <4>4, <4>5
    <3> QED BY <1>0, <3>1, <3>2, OnlyLookLeadsToMark
  <2> QED BY <2>4, <2>6, <2>7
<1>7. (\A h, nb : ~ OnAccepted(h, nb)) \/ \E h \in Headers : \E nb \in NotBefore(h) : OnAccepted(h, nb)
  <2>1. \A h, nb : OnAccepted(h, nb) => Len(requests') = Len(requests) + 1
    BY <1>2 DEF OnAccepted
  <2> QED BY <1>0, <1>2, <2>1, HistoryGrows
<1> QED BY <1>1, <1>5, <1>6, <1>7 DEF SlotInv

\* The inductive invariant of the job slots: who owns them, what their state
\* says of it, which request they name, and the two halves of handleCancel().
THEOREM SlotInvAlways == Spec => []SlotInv
<1>1. SlotInv /\ [Next]_vars => SlotInv'
  BY StepKeepsSlotInv
<1> QED BY InitHasSlotInv, <1>1, PTL DEF Spec

\* The state of a slot says where it is, so handleCancel() may trust it, and
\* inFlight_ is the number of live slots at every interleaving of freeSlot()
\* with a new claim (MCPServer.cpp:313-343, 393-425).
THEOREM StateTellsOwner == Spec => []SlotStateTellsOwner
<1>1. SlotInv => SlotStateTellsOwner
  BY DEF SlotInv
<1> QED BY <1>1, SlotInvAlways, PTL

\* A flag that handleCancel() leaves on a slot that was freed in the
\* meantime never cancels the next request of the slot.
THEOREM CancelFlagIsFresh == Spec => []CancelFlagFresh
<1>1. SlotInv => CancelFlagFresh
  BY DEF SlotInv
<1> QED BY <1>1, SlotInvAlways, PTL

-----------------------------------------------------------------------------
(* The ring of the rids seen last.                                         *)

\* Where the ring keeps the request that is d-th from the end.
RingIdx(d) == IF d <= recentHead THEN recentHead - d ELSE recentHead + Window - d

\* The ring read from its head backwards is the history read from its end.
RingOK ==
    /\ recentCount = IF Len(requests) < Window THEN Len(requests) ELSE Window
    /\ Len(requests) < Window => recentHead = Len(requests)
    /\ \A d \in 1..recentCount : recentRids[RingIdx(d)] = requests[Len(requests) - d + 1].rid
    /\ \A d, e \in 1..recentCount :
         requests[Len(requests) - d + 1].rid = requests[Len(requests) - e + 1].rid => d = e

\* The head of the ring moves on or wraps.
LEMMA WrapAround == \A i \in 0..(Window - 1) : (i + 1) % Window = IF i + 1 = Window THEN 0 ELSE i + 1
<1> SUFFICES ASSUME NEW i \in 0..(Window - 1)
             PROVE  (i + 1) % Window = IF i + 1 = Window THEN 0 ELSE i + 1
  OBVIOUS
<1>1. i \in Nat /\ Window \in Nat \ {0} /\ i + 1 <= Window
  BY Bounds
<1>2. CASE i + 1 = Window
  BY <1>1, <1>2
<1>3. CASE i + 1 < Window
  BY <1>1, <1>3
<1> QED BY <1>1, <1>2, <1>3

\* The places of the ring that are in use are those of the last requests.
LEMMA RingPlaces ==
    ASSUME ServerTypeOK, RingOK
    PROVE  /\ \A d \in 1..recentCount : RingIdx(d) \in 0..(Window - 1) /\ RingIdx(d) < recentCount
           /\ \A i \in 0..(Window - 1) : i < recentCount => \E d \in 1..recentCount : RingIdx(d) = i
<1>1. recentHead \in 0..(Window - 1) /\ recentCount \in Nat /\ Len(requests) \in Nat /\ Window \in Nat
  BY Bounds, LenProperties DEF ServerTypeOK
<1>2. /\ recentCount = IF Len(requests) < Window THEN Len(requests) ELSE Window
      /\ Len(requests) < Window => recentHead = Len(requests)
  BY DEF RingOK
<1>3. \A d \in 1..recentCount : RingIdx(d) \in 0..(Window - 1) /\ RingIdx(d) < recentCount
  BY <1>1, <1>2 DEF RingIdx
<1>4. ASSUME NEW i \in 0..(Window - 1), i < recentCount
      PROVE  \E d \in 1..recentCount : RingIdx(d) = i
  <2>1. CASE i < recentHead
    <3>1. recentHead - i \in 1..recentCount /\ RingIdx(recentHead - i) = i
      BY <1>1, <1>2, <1>4, <2>1 DEF RingIdx
    <3> QED BY <3>1
  <2>2. CASE i >= recentHead
    <3>1. recentHead + Window - i \in 1..recentCount /\ RingIdx(recentHead + Window - i) = i
      BY <1>1, <1>2, <1>4, <2>2 DEF RingIdx
    <3> QED BY <3>1
  <2> QED BY <1>1, <2>1, <2>2
<1> QED BY <1>3, <1>4

\* rememberRid() of a rid that ridSeen() did not find (MCPServer.cpp:78-95).
LEMMA RememberKeepsRing ==
    ASSUME ServerTypeOK, RingOK, NEW rid, ~ RidSeen(rid), RememberRid(rid), Len(requests') = Len(requests) + 1,
           \A m \in 1..Len(requests) : requests'[m].rid = requests[m].rid,
           requests'[Len(requests) + 1].rid = rid
    PROVE  RingOK'
<1> DEFINE N == Len(requests)
           place(d) == IF d <= recentHead' THEN recentHead' - d ELSE recentHead' + Window - d
<1>1. /\ recentHead \in 0..(Window - 1) /\ recentCount \in Nat /\ N \in Nat /\ Window \in Nat \ {0}
      /\ recentRids \in [0..(Window - 1) -> Rids \union {NoRid}]
  BY Bounds, LenProperties DEF ServerTypeOK
<1>2. /\ recentCount = IF N < Window THEN N ELSE Window
      /\ N < Window => recentHead = N
      /\ \A d \in 1..recentCount : recentRids[RingIdx(d)] = requests[N - d + 1].rid
      /\ \A d, e \in 1..recentCount : requests[N - d + 1].rid = requests[N - e + 1].rid => d = e
  BY DEF RingOK
<1>3. /\ recentRids' = [recentRids EXCEPT ![recentHead] = rid]
      /\ recentHead' = IF recentHead + 1 = Window THEN 0 ELSE recentHead + 1
      /\ recentCount' = IF recentCount < Window THEN recentCount + 1 ELSE recentCount
  BY <1>1, WrapAround DEF RememberRid
<1>4. recentCount' = IF N + 1 < Window THEN N + 1 ELSE Window
  BY <1>1, <1>2, <1>3
<1>5. N + 1 < Window => recentHead' = N + 1
  BY <1>1, <1>2, <1>3
<1>6. \A d \in 1..recentCount : RingIdx(d) \in 0..(Window - 1) /\ RingIdx(d) < recentCount
  BY RingPlaces
<1>7. \A d \in 1..recentCount : requests[N - d + 1].rid # rid
  <2> SUFFICES ASSUME NEW d \in 1..recentCount PROVE requests[N - d + 1].rid # rid
    OBVIOUS
  <2>1. RingIdx(d) \in 0..(Window - 1) /\ RingIdx(d) < recentCount /\ recentRids[RingIdx(d)] = requests[N - d + 1].rid
    BY <1>2, <1>6
  <2> QED BY <2>1 DEF RidSeen
<1>8. place(1) = recentHead
  BY <1>1, <1>3
<1>9. \A d \in 2..recentCount' : d - 1 \in 1..recentCount /\ place(d) = RingIdx(d - 1) /\ RingIdx(d - 1) # recentHead
  BY <1>1, <1>2, <1>3 DEF RingIdx
<1>10. \A d \in 2..recentCount' : N + 1 - d + 1 = N - (d - 1) + 1 /\ N - (d - 1) + 1 \in 1..N
  BY <1>1, <1>2, <1>4
<1> HIDE DEF place, N
<1>11. recentRids'[recentHead] = rid /\ \A i \in 0..(Window - 1) : i # recentHead => recentRids'[i] = recentRids[i]
  BY <1>1, <1>3
<1>12. requests'[N + 1 - 1 + 1].rid = rid
  <2>1. N + 1 - 1 + 1 = N + 1
    BY <1>1
  <2> QED BY <2>1 DEF N
<1>13. \A d \in 2..recentCount' : requests'[N + 1 - d + 1].rid = requests[N - (d - 1) + 1].rid
  BY <1>10 DEF N
<1>14. \A d \in 1..recentCount' : d = 1 \/ d \in 2..recentCount'
  BY <1>1, <1>4
<1>15. \A d \in 1..recentCount' : recentRids'[place(d)] = requests'[N + 1 - d + 1].rid
  <2>1. ASSUME NEW d \in 2..recentCount' PROVE recentRids'[place(d)] = requests'[N + 1 - d + 1].rid
    <3>1. d - 1 \in 1..recentCount /\ place(d) = RingIdx(d - 1) /\ RingIdx(d - 1) # recentHead
      BY <1>9
    <3>2. recentRids'[place(d)] = recentRids[RingIdx(d - 1)]
      BY <1>6, <1>11, <3>1
    <3> QED BY <1>2, <1>13, <3>1, <3>2
  <2> QED BY <1>8, <1>11, <1>12, <1>14, <2>1
<1>16. \A d, e \in 1..recentCount' : requests'[N + 1 - d + 1].rid = requests'[N + 1 - e + 1].rid => d = e
  <2> SUFFICES ASSUME NEW d \in 1..recentCount', NEW e \in 1..recentCount',
                      requests'[N + 1 - d + 1].rid = requests'[N + 1 - e + 1].rid
               PROVE  d = e
    OBVIOUS
  <2>1. ASSUME NEW x \in 2..recentCount' PROVE requests'[N + 1 - x + 1].rid # rid
    BY <1>7, <1>9, <1>13
  <2>2. CASE d = 1 \/ e = 1
    BY <1>12, <1>14, <2>1, <2>2
  <2>3. CASE d # 1 /\ e # 1
    <3>1. d \in 2..recentCount' /\ e \in 2..recentCount'
      BY <1>14, <2>3
    <3>2. d - 1 = e - 1
      BY <1>2, <1>9, <1>13, <3>1
    <3> QED BY <1>1, <1>4, <3>2
  <2> QED BY <2>2, <2>3
<1>17. Len(requests') = N + 1
  BY DEF N
<1>18. /\ recentCount' = IF Len(requests') < Window THEN Len(requests') ELSE Window
       /\ Len(requests') < Window => recentHead' = Len(requests')
  BY <1>4, <1>5, <1>17
<1>19. \A d \in 1..recentCount' : recentRids'[place(d)] = requests'[Len(requests') - d + 1].rid
  BY <1>1, <1>15, <1>17
<1>20. \A d, e \in 1..recentCount' :
         requests'[Len(requests') - d + 1].rid = requests'[Len(requests') - e + 1].rid => d = e
  BY <1>1, <1>16, <1>17
<1> QED BY <1>18, <1>19, <1>20 DEF RingOK, RingIdx, place

\* The ring follows the history at every step.
LEMMA StepKeepsRing ==
    ASSUME Inv, RingOK, [Next]_vars
    PROVE  RingOK'
<1>0. ServerTypeOK /\ Len(requests) \in Nat
  BY LenProperties DEF Inv, ServerTypeOK
<1>1. ASSUME NEW h \in Headers, NEW nb \in NotBefore(h), OnAccepted(h, nb)
      PROVE  RingOK'
  <2>1. /\ Len(requests') = Len(requests) + 1
        /\ \A m \in 1..Len(requests) : requests'[m] = requests[m]
        /\ requests'[Len(requests) + 1] = [rid |-> h.rid, acked |-> FALSE, stage |-> "accepted", cancel |-> "no"]
    BY <1>1, ClaimFacts
  <2>2. ~ RidSeen(h.rid) /\ RememberRid(h.rid)
    BY <1>1 DEF OnAccepted
  <2> QED BY <1>0, <2>1, <2>2, RememberKeepsRing
<1>2. CASE Len(requests') = Len(requests)
  <2>1. \A m \in 1..Len(requests) : requests'[m].rid = requests[m].rid
    BY HistoryGrows DEF Recorded
  <2>2. \A h, nb : ~ OnAccepted(h, nb)
    BY <1>0, <1>2 DEF OnAccepted
  <2>3. UNCHANGED <<recentRids, recentHead, recentCount>>
    BY <2>2 DEF Next, Mqtt, OnRejected, OnDuplicate, OnBusy, SendRefusal, CancelLook, MqttBuffer, MqttNoBuffer, MqttSubmit,
                Enqueue, CancelMark, PostTick, Worker, WorkerReceive, WorkerTick, JobStart, WorkerBuffer, WorkerNoBuffer,
                RunHandler, FreeMark, FreeReturn, WorkerSubmit, Net, Publish, Clock, vars, serverVars, ringVars
  <2>4. recentCount \in Nat /\ recentCount <= Len(requests)
    BY <1>0, Bounds DEF RingOK, ServerTypeOK
  <2>5. \A d \in 1..recentCount : Len(requests) - d + 1 \in 1..Len(requests)
    BY <1>0, <2>4
  <2>6. \A d \in 1..recentCount : requests'[Len(requests) - d + 1].rid = requests[Len(requests) - d + 1].rid
    BY <2>1, <2>5
  <2>7. /\ recentCount' = IF Len(requests') < Window THEN Len(requests') ELSE Window
        /\ Len(requests') < Window => recentHead' = Len(requests')
    BY <1>2, <2>3 DEF RingOK
  <2>8. \A d \in 1..recentCount' : recentRids'[RingIdx(d)'] = requests'[Len(requests') - d + 1].rid
    <3>1. \A d : RingIdx(d)' = RingIdx(d)
      BY <2>3 DEF RingIdx
    <3>2. \A d \in 1..recentCount : recentRids[RingIdx(d)] = requests'[Len(requests) - d + 1].rid
      BY <2>6 DEF RingOK
    <3>3. \A d \in 1..recentCount : recentRids[RingIdx(d)'] = requests'[Len(requests) - d + 1].rid
      BY <3>1, <3>2
    <3>4. recentCount' = recentCount /\ recentRids' = recentRids
      BY <2>3
    <3>5. \A d \in 1..recentCount : recentRids'[RingIdx(d)'] = requests'[Len(requests') - d + 1].rid
      BY <1>2, <3>3, <3>4
    <3> QED BY <3>4, <3>5
  <2>9. \A d, e \in 1..recentCount' :
          requests'[Len(requests') - d + 1].rid = requests'[Len(requests') - e + 1].rid => d = e
    <3>1. \A d, e \in 1..recentCount :
            requests'[Len(requests) - d + 1].rid = requests'[Len(requests) - e + 1].rid => d = e
      BY <2>6 DEF RingOK
    <3>2. \A d, e \in 1..recentCount :
            requests'[Len(requests') - d + 1].rid = requests'[Len(requests') - e + 1].rid => d = e
      BY <1>2, <3>1
    <3> QED BY <2>3, <3>2
  <2> QED BY <2>7, <2>8, <2>9 DEF RingOK
<1> QED BY <1>1, <1>2, HistoryGrows

\* What the ring looks like gives what the gateway sees of it.
LEMMA RingGivesDedupe ==
    ASSUME ServerTypeOK, RingOK
    PROVE  DedupeRing
<1> DEFINE N == Len(requests)
           recent == {n \in 1..N : n > N - Window}
<1>1. recentCount \in Nat /\ N \in Nat /\ Window \in Nat \ {0} /\ recentCount = IF N < Window THEN N ELSE Window
  BY Bounds, LenProperties DEF ServerTypeOK, RingOK
<1>2. \A d \in 1..recentCount : N - d + 1 \in recent
  BY <1>1
<1>3. \A n \in recent : N - n + 1 \in 1..recentCount /\ N - (N - n + 1) + 1 = n
  BY <1>1
<1>4. \A d \in 1..recentCount : recentRids[RingIdx(d)] = requests[N - d + 1].rid
  BY DEF RingOK
<1>5. \A d, e \in 1..recentCount : requests[N - d + 1].rid = requests[N - e + 1].rid => d = e
  BY DEF RingOK
<1> HIDE DEF recent, N
<1>6. {recentRids[i] : i \in {j \in 0..(Window - 1) : j < recentCount}} = {requests[n].rid : n \in recent}
  <2>1. ASSUME NEW i \in 0..(Window - 1), i < recentCount
        PROVE  \E n \in recent : recentRids[i] = requests[n].rid
    <3>1. PICK d \in 1..recentCount : RingIdx(d) = i
      BY <2>1, RingPlaces
    <3> QED BY <1>2, <1>4, <3>1
  <2>2. ASSUME NEW n \in recent
        PROVE  \E i \in 0..(Window - 1) : i < recentCount /\ recentRids[i] = requests[n].rid
    <3> DEFINE d == N - n + 1
    <3>1. d \in 1..recentCount /\ N - d + 1 = n
      BY <1>3
    <3> HIDE DEF d
    <3>2. RingIdx(d) \in 0..(Window - 1) /\ RingIdx(d) < recentCount
      BY <3>1, RingPlaces
    <3> QED BY <1>4, <3>1, <3>2
  <2> QED BY <2>1, <2>2
<1>7. \A m, n \in recent : requests[m].rid = requests[n].rid => m = n
  <2> SUFFICES ASSUME NEW m \in recent, NEW n \in recent, requests[m].rid = requests[n].rid PROVE m = n
    OBVIOUS
  <2> DEFINE d == N - m + 1
             e == N - n + 1
  <2>1. d \in 1..recentCount /\ e \in 1..recentCount /\ N - d + 1 = m /\ N - e + 1 = n
    BY <1>3
  <2> HIDE DEF d, e
  <2>2. d = e
    BY <1>5, <2>1
  <2> QED BY <2>1, <2>2
<1> QED BY <1>6, <1>7 DEF DedupeRing, recent, N

\* The ring holds the rids of the last Window accepted requests, each of
\* them once: a REQ that the broker delivers again is not executed again
\* while its rid is in the window (MCPServer.cpp:78-95, 286-293).
THEOREM RingHoldsRecent == Spec => []DedupeRing
<1>1. Init => RingOK
  <2> SUFFICES ASSUME Init PROVE RingOK
    OBVIOUS
  <2>1. recentHead = 0 /\ recentCount = 0 /\ Len(requests) = 0 /\ Window \in Nat \ {0}
    BY Bounds DEF Init, ServerInit
  <2> QED BY <2>1 DEF RingOK
<1>2. Inv /\ RingOK /\ [Next]_vars => RingOK'
  BY StepKeepsRing
<1>3. Inv /\ RingOK => DedupeRing
  BY RingGivesDedupe DEF Inv
<1> QED BY <1>1, <1>2, <1>3, InvAlways, PTL DEF Spec

=============================================================================
