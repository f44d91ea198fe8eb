--------------------------- MODULE McpLedgerProofs ---------------------------
(***************************************************************************)
(* Proofs about the requests of mcp::MCPServer: each one has exactly one   *)
(* place its answer can still come from, and the history of the server is  *)
(* a history of module RequestLedger.                                      *)
(***************************************************************************)
EXTENDS McpServerProofs

-----------------------------------------------------------------------------
(* Frames on their way.                                                    *)

Pend == parked \o txQ
Way == ToSet(Pend) \union ToSet(drawn)

IsAnswer(x) == x.frame.type \in Answers
IsAck(x) == x.frame.type = "ACK"

\* The ACK of a request leaves before its answer.
AckFirst ==
    /\ \A i, j \in 1..Len(Pend) :
         IsAnswer(Pend[i]) /\ IsAck(Pend[j]) /\ Pend[i].frame.req = Pend[j].frame.req => j < i
    /\ \A x \in ToSet(drawn), y \in ToSet(Pend) : IsAnswer(x) /\ IsAck(y) => y.frame.req # x.frame.req

\* The frames that are on their way, by position; each has a buffer of its own.
LEMMA WayPlaces ==
    ASSUME UplinkInv
    PROVE  /\ Pend \in Seq(TxItem) /\ drawn \in Seq(TxItem) /\ Len(Pend) \in Nat /\ Len(drawn) \in Nat /\ Len(drawn) <= 1
           /\ ToSet(Pend) = {Pend[i] : i \in 1..Len(Pend)} /\ ToSet(drawn) = {drawn[i] : i \in 1..Len(drawn)}
           /\ \A i, j \in 1..Len(Pend) : Pend[i].slot = Pend[j].slot => i = j
           /\ \A x \in ToSet(drawn) : x \notin ToSet(Pend)
           /\ Way \subseteq TxItem
<1>0. /\ txQ \in Seq(TxItem) /\ parked \in Seq(TxItem) /\ drawn \in Seq(TxItem) /\ Len(drawn) <= 1
      /\ Distinct(txQ) /\ Distinct(parked)
      /\ SlotsOf(txQ) \intersect SlotsOf(parked) = {}
      /\ (SlotsOf(txQ) \union SlotsOf(parked)) \intersect SlotsOf(drawn) = {}
  BY DEF UplinkInv, UplinkTypeOK, OneOwner, NoSharing
<1>1. /\ Pend \in Seq(TxItem) /\ Len(Pend) = Len(parked) + Len(txQ) /\ Len(parked) \in Nat /\ Len(txQ) \in Nat
      /\ \A i \in 1..(Len(parked) + Len(txQ)) : Pend[i] = IF i <= Len(parked) THEN parked[i] ELSE txQ[i - Len(parked)]
  BY <1>0, ConcatProperties, LenProperties DEF Pend
<1>2. Len(drawn) \in Nat /\ Len(drawn) <= 1 /\ Len(Pend) \in Nat
  <2>1. Len(drawn) \in Nat /\ Len(drawn) <= 1
    BY <1>0, LenProperties
  <2>2. Len(Pend) \in Nat
    BY <1>1
  <2> QED BY <2>1, <2>2
<1>3. ToSet(Pend) = {Pend[i] : i \in 1..Len(Pend)} /\ ToSet(drawn) = {drawn[i] : i \in 1..Len(drawn)}
  BY <1>0, <1>1, ToSetOfSeq
<1>4. ASSUME NEW i \in 1..Len(Pend)
      PROVE  \/ i \in 1..Len(parked) /\ Pend[i] = parked[i] /\ Pend[i].slot \in SlotsOf(parked)
             \/ i - Len(parked) \in 1..Len(txQ) /\ Pend[i] = txQ[i - Len(parked)] /\ Pend[i].slot \in SlotsOf(txQ)
  <2>1. CASE i <= Len(parked)
    <3>1. i \in 1..Len(parked) /\ Pend[i] = parked[i]
      BY <1>1, <2>1
    <3> QED BY <3>1 DEF SlotsOf
  <2>2. CASE ~ (i <= Len(parked))
    <3>1. i - Len(parked) \in 1..Len(txQ) /\ Pend[i] = txQ[i - Len(parked)]
      BY <1>1, <2>2
    <3> QED BY <3>1 DEF SlotsOf
  <2> QED BY <2>1, <2>2
<1>5. ASSUME NEW i \in 1..Len(Pend), NEW j \in 1..Len(Pend), Pend[i].slot = Pend[j].slot
      PROVE  i = j
  <2>1. CASE i \in 1..Len(parked) /\ Pend[i] = parked[i] /\ Pend[i].slot \in SlotsOf(parked)
    <3>1. j \in 1..Len(parked) /\ Pend[j] = parked[j]
      BY <1>0, <1>4, <1>5, <2>1
    <3> QED BY <1>0, <1>5, <2>1, <3>1 DEF Distinct
  <2>2. CASE i - Len(parked) \in 1..Len(txQ) /\ Pend[i] = txQ[i - Len(parked)] /\ Pend[i].slot \in SlotsOf(txQ)
    <3>1. j - Len(parked) \in 1..Len(txQ) /\ Pend[j] = txQ[j - Len(parked)]
      BY <1>0, <1>4, <1>5, <2>2
    <3>2. i - Len(parked) = j - Len(parked)
      BY <1>0, <1>5, <2>2, <3>1 DEF Distinct
    <3> QED BY <1>1, <3>2
  <2> QED BY <1>4, <2>1, <2>2
<1>6. ASSUME NEW x \in ToSet(drawn), x \in ToSet(Pend)
      PROVE  FALSE
  <2>1. x.slot \in SlotsOf(drawn)
    BY <1>3 DEF SlotsOf
  <2>2. PICK i \in 1..Len(Pend) : x = Pend[i]
    BY <1>3, <1>6
  <2> QED BY <1>0, <1>4, <2>1, <2>2
<1>7. Way \subseteq TxItem
  BY <1>0, <1>1, <1>3 DEF Way
<1> QED BY <1>0, <1>1, <1>2, <1>3, <1>5, <1>6, <1>7

\* A frame that submit() accepts.
LEMMA WayAfterSubmit ==
    ASSUME UplinkInv, NEW p \in Producers, NEW frame \in Frames, NEW nb \in Nat, Submit(p, frame, nb),
           frame \in SaneFrames, Len(txQ) < UplinkSlots
    PROVE  \E x : /\ x.frame = frame /\ x.nb = nb
                  /\ Way' = Way \union {x}
                  /\ AckFirst /\ (IsAck(x) => \A y \in Way : IsAnswer(y) => y.frame.req # x.frame.req) => AckFirst'
<1> DEFINE x == [slot |-> held[p], nb |-> nb, frame |-> frame]
<1>1. x \in TxItem /\ parked' \o txQ' = Append(parked \o txQ, x) /\ drawn' = drawn
  BY SubmitQueues
<1>2. /\ Pend \in Seq(TxItem) /\ Len(Pend) \in Nat /\ Pend' = Append(Pend, x)
      /\ ToSet(Pend) = {Pend[i] : i \in 1..Len(Pend)}
  BY <1>1, WayPlaces DEF Pend
<1>3. x.frame = frame /\ x.nb = nb
  OBVIOUS
<1> HIDE DEF x
<1>4. /\ Len(Pend') = Len(Pend) + 1 /\ Pend'[Len(Pend) + 1] = x
      /\ \A i \in 1..Len(Pend) : Pend'[i] = Pend[i]
      /\ Pend' \in Seq(TxItem)
  BY <1>1, <1>2, AppendProperties
<1>5. ToSet(Pend') = ToSet(Pend) \union {x}
  <2>1. ToSet(Pend') = {Pend'[i] : i \in 1..(Len(Pend) + 1)}
    BY <1>4, ToSetOfSeq
  <2>2. 1..(Len(Pend) + 1) = 1..Len(Pend) \union {Len(Pend) + 1}
    BY <1>2
  <2> QED BY <1>2, <1>4, <2>1, <2>2
<1>6. Way' = Way \union {x}
  <2>1. Way' = ToSet(Pend') \union ToSet(drawn')
    BY DEF Way
  <2> QED BY <1>1, <1>5, <2>1 DEF Way
<1>7. ASSUME AckFirst, IsAck(x) => \A y \in Way : IsAnswer(y) => y.frame.req # x.frame.req
      PROVE  AckFirst'
  <2>0. IsAck(x) => ~ IsAnswer(x)
    BY DEF IsAck, IsAnswer, Answers
  <2>1. ASSUME NEW i \in 1..Len(Pend'), NEW j \in 1..Len(Pend'),
               IsAnswer(Pend'[i]), IsAck(Pend'[j]), Pend'[i].frame.req = Pend'[j].frame.req
        PROVE  j < i
    <3>1. CASE i \in 1..Len(Pend) /\ j \in 1..Len(Pend)
      BY <1>4, <1>7, <2>1, <3>1 DEF AckFirst
    <3>2. CASE i \in 1..Len(Pend) /\ j = Len(Pend) + 1
      <4>1. Pend[i] \in Way
        BY <1>2, <3>2 DEF Way
      <4> QED BY <1>4, <1>7, <2>1, <3>2, <4>1
    <3>3. CASE i = Len(Pend) + 1 /\ j \in 1..Len(Pend)
      BY <1>2, <3>3
    <3>4. CASE i = Len(Pend) + 1 /\ j = Len(Pend) + 1
      BY <1>4, <2>0, <2>1, <3>4
    <3> QED BY <1>2, <1>4, <3>1, <3>2, <3>3, <3>4
  <2>2. ASSUME NEW z \in ToSet(drawn), NEW y \in ToSet(Pend'), IsAnswer(z), IsAck(y)
        PROVE  y.frame.req # z.frame.req
    <3>1. z \in Way
      BY DEF Way
    <3> QED BY <1>5, <1>7, <2>2, <3>1 DEF AckFirst
  <2>3. /\ \A i, j \in 1..Len(Pend') :
             IsAnswer(Pend'[i]) /\ IsAck(Pend'[j]) /\ Pend'[i].frame.req = Pend'[j].frame.req => j < i
        /\ \A z \in ToSet(drawn'), y \in ToSet(Pend') : IsAnswer(z) /\ IsAck(y) => y.frame.req # z.frame.req
    BY <1>1, <2>1, <2>2
  <2> QED BY <2>3 DEF AckFirst, IsAck, IsAnswer
<1> QED BY <1>3, <1>6, <1>7

\* A frame that nextDue() hands to net_task.
LEMMA WayAfterHandOver ==
    ASSUME UplinkInv, drawn = <<>>, NEW k \in 1..Len(Pend), Channel!HandOver(k)
    PROVE  /\ Way' = Way
           /\ AckFirst /\ (\A x, y \in Way : IsAnswer(x) /\ IsAck(y) /\ x.frame.req = y.frame.req => x.nb = y.nb) => AckFirst'
<1> DEFINE left == RemoveAt(Pend, k)
           item == Pend[k]
           n == Len(Pend)
<1>0. Pend \in Seq(TxItem) /\ n \in Nat /\ ToSet(Pend) = {Pend[i] : i \in 1..n} /\ item \in TxItem
  BY WayPlaces
<1>1. Pend' = left /\ drawn' = <<item>> /\ \A j \in 1..(k - 1) : Pend[j].nb # item.nb
  <2>1. Channel!RemoveAt(Pend, k) = left
    BY DEF Channel!RemoveAt, RemoveAt
  <2> QED BY <2>1 DEF Channel!HandOver, Pend
<1>2. /\ left \in Seq(TxItem) /\ Len(left) = n - 1
      /\ \A j \in 1..(n - 1) : left[j] = IF j < k THEN Pend[j] ELSE Pend[j + 1]
  BY <1>0, RemoveAtElements
<1> HIDE DEF left
<1> DEFINE at(j) == IF j < k THEN j ELSE j + 1
<1>3. \A j \in 1..(n - 1) : at(j) \in 1..n /\ at(j) # k /\ left[j] = Pend[at(j)]
  <2> SUFFICES ASSUME NEW j \in 1..(n - 1) PROVE at(j) \in 1..n /\ at(j) # k /\ left[j] = Pend[at(j)]
    OBVIOUS
  <2>1. CASE j < k
    BY <1>0, <1>2, <2>1
  <2>2. CASE ~ (j < k)
    BY <1>0, <1>2, <2>2
  <2> QED BY <2>1, <2>2
<1>4. \A i, j \in 1..(n - 1) : at(j) < at(i) => j < i
  BY <1>0
<1>5. ToSet(left) = {left[j] : j \in 1..(n - 1)} /\ ToSet(drawn') = {item}
  <2>1. ToSet(left) = {left[j] : j \in 1..(n - 1)}
    BY <1>2, ToSetOfSeq
  <2>2. <<item>> \in Seq(TxItem) /\ Len(<<item>>) = 1 /\ <<item>>[1] = item
    BY <1>0
  <2>3. ToSet(<<item>>) = {<<item>>[i] : i \in 1..1}
    BY <2>2, ToSetOfSeq
  <2> QED BY <1>1, <2>1, <2>2, <2>3
<1>6. ToSet(Pend) = ToSet(left) \union {item}
  <2>1. ASSUME NEW i \in 1..n, i # k PROVE Pend[i] \in ToSet(left)
    <3>1. CASE i < k
      <4>1. i \in 1..(n - 1) /\ left[i] = Pend[i]
        BY <1>0, <1>2, <3>1
      <4> QED BY <1>5, <4>1
    <3>2. CASE i > k
      <4>1. i - 1 \in 1..(n - 1) /\ ~ (i - 1 < k) /\ (i - 1) + 1 = i
        BY <1>0, <3>2
      <4>2. left[i - 1] = Pend[(i - 1) + 1]
        BY <1>2, <4>1
      <4> QED BY <1>5, <4>1, <4>2
    <3> QED BY <2>1, <3>1, <3>2
  <2>2. \A j \in 1..(n - 1) : left[j] \in ToSet(Pend)
    <3> HIDE DEF at
    <3> QED BY <1>0, <1>3
  <2> QED BY <1>0, <1>5, <2>1, <2>2
<1>7. Way' = Way
  <2>1. ToSet(drawn) = {} /\ Way' = ToSet(Pend') \union ToSet(drawn')
    BY DEF ToSet, Way
  <2> QED BY <1>1, <1>5, <1>6, <2>1 DEF Way
<1>8. ASSUME AckFirst, \A x, y \in Way : IsAnswer(x) /\ IsAck(y) /\ x.frame.req = y.frame.req => x.nb = y.nb
      PROVE  AckFirst'
  <2>1. ASSUME NEW i \in 1..Len(left), NEW j \in 1..Len(left),
               IsAnswer(left[i]), IsAck(left[j]), left[i].frame.req = left[j].frame.req
        PROVE  j < i
    <3>1. i \in 1..(n - 1) /\ j \in 1..(n - 1)
      BY <1>2
    <3>2. at(j) < at(i)
      <4> HIDE DEF at
      <4> QED BY <1>3, <1>8, <2>1, <3>1 DEF AckFirst
    <3> QED BY <1>4, <3>1, <3>2
  <2>2. ASSUME NEW y \in ToSet(left), IsAnswer(item), IsAck(y), y.frame.req = item.frame.req
        PROVE  FALSE
    <3>1. PICK j \in 1..(n - 1) : y = left[j]
      BY <1>5
    <3>2. at(j) \in 1..n /\ at(j) # k /\ y = Pend[at(j)]
      BY <1>3, <3>1
    <3> HIDE DEF at
    <3>3. at(j) < k
      BY <1>8, <2>2, <3>2 DEF AckFirst
    <3>4. at(j) \in 1..(k - 1)
      BY <3>2, <3>3
    <3>5. y.nb # item.nb
      BY <1>1, <3>2, <3>4
    <3>6. y \in Way /\ item \in Way
      BY <1>0, <3>2 DEF Way
    <3> QED BY <1>8, <2>2, <3>5, <3>6
  <2>3. /\ \A i, j \in 1..Len(left) : IsAnswer(left[i]) /\ IsAck(left[j]) /\ left[i].frame.req = left[j].frame.req => j < i
        /\ \A z \in ToSet(drawn'), y \in ToSet(left) : IsAnswer(z) /\ IsAck(y) => y.frame.req # z.frame.req
    BY <1>5, <2>1, <2>2
  <2> QED BY <1>1, <2>3 DEF AckFirst, IsAck, IsAnswer
<1> QED BY <1>7, <1>8

\* The frame that net_task is done with.
LEMMA WayAfterRelease ==
    ASSUME UplinkInv, ReleaseDrawn
    PROVE  /\ drawn[1] \in Way /\ ToSet(drawn) = {drawn[1]} /\ Way' = Way \ {drawn[1]}
           /\ AckFirst => AckFirst'
<1>1. drawn \in Seq(TxItem) /\ drawn # <<>> /\ drawn' = <<>> /\ UNCHANGED <<parked, txQ>>
  BY DEF UplinkInv, UplinkTypeOK, ReleaseDrawn
<1>2. Len(drawn) = 1
  <2>1. Len(drawn) \in Nat /\ Len(drawn) <= 1
    BY WayPlaces
  <2>2. Len(drawn) # 0
    BY <1>1, EmptySeq
  <2>3. \A n \in Nat : n <= 1 /\ n # 0 => n = 1
    OBVIOUS
  <2> QED BY <2>1, <2>2, <2>3
<1>3. ToSet(drawn) = {drawn[1]} /\ Pend' = Pend /\ ToSet(drawn') = {} /\ drawn[1] \notin ToSet(Pend)
  <2>1. ToSet(drawn) = {drawn[i] : i \in 1..1}
    BY <1>2, WayPlaces
  <2>2. ToSet(drawn) = {drawn[1]}
    BY <2>1
  <2>3. ToSet(<<>>) = {}
    BY DEF ToSet
  <2> QED BY <1>1, <2>2, <2>3, WayPlaces DEF Pend
<1>4. Way' = ToSet(Pend') \union ToSet(drawn')
  BY DEF Way
<1>5. Way' = Way \ {drawn[1]} /\ drawn[1] \in Way
  BY <1>3, <1>4 DEF Way
<1>6. AckFirst => AckFirst'
  BY <1>3 DEF AckFirst, IsAck, IsAnswer
<1> QED BY <1>3, <1>5, <1>6

-----------------------------------------------------------------------------
(* Where the answer to a request is, and what became of the request.       *)

Unanswered == {"accepted", "executed", "lost"}

\* The request is in a state that an answer of this kind is the answer to.
Fits(n, kind) ==
    \/ kind = "RES" /\ requests[n].stage = "executed"
    \/ kind = "CANCELLED" /\ requests[n].stage = "accepted" /\ requests[n].cancel # "no"
    \/ kind = "DEADLINE_EXCEEDED" /\ requests[n].stage = "accepted" /\ requests[n].cancel # "doomed"

InSlot(s, n) == Live(s) /\ slots[s].req = n

\* The worker has an answer that is in no slot any more and in no frame yet.
Holds == worker.kind \in Answers /\ worker.pc \in {"return", "replyAcquire", "submit"}
WithWorker(n) == Holds /\ worker.req = n

FramesKnown == \A x \in Way : IsAnswer(x) \/ IsAck(x) => x.frame.req \in 1..Len(requests)

\* A request has at most one live slot; while it is queued it was not touched.
SlotStory ==
    /\ \A s, t \in JobIdx : Live(s) /\ Live(t) /\ slots[s].req = slots[t].req => s = t
    /\ \A s \in JobIdx : slots[s].state = "queued" =>
         /\ requests[slots[s].req].stage = "accepted"
         /\ requests[slots[s].req].cancel = "doomed" => slots[s].cancelled
    /\ mqtt.pc \in {"ackAcquire", "ackSubmit", "enqueue"} =>
         slots[mqtt.slot].req = mqtt.req /\ slots[mqtt.slot].nb = mqtt.nb

\* The worker's locals are those of its slot; its verdict fits the request.
RunStory ==
    /\ worker.pc \in {"acquire", "run", "free"} =>
         slots[worker.slot].req = worker.req /\ slots[worker.slot].nb = worker.nb
    /\ worker.pc \in {"acquire", "run"} =>
         requests[worker.req].stage = "accepted" /\ requests[worker.req].cancel # "doomed"
    /\ worker.pc = "free" =>
         IF worker.kind = "DROPPED" THEN requests[worker.req].stage = "lost" ELSE Fits(worker.req, worker.kind)
HoldStory == Holds => Fits(worker.req, worker.kind) /\ \A s \in JobIdx : ~ InSlot(s, worker.req)
WorkerStory == RunStory /\ HoldStory

\* An answer on its way is the only one, and nothing else can become one.
FrameStory ==
    \A x \in Way : IsAnswer(x) =>
      /\ Fits(x.frame.req, x.frame.type)
      /\ ~ WithWorker(x.frame.req)
      /\ \A s \in JobIdx : ~ InSlot(s, x.frame.req)
      /\ \A y \in Way : IsAnswer(y) /\ y.frame.req = x.frame.req => y = x

\* A request that is pending is somewhere.
Carried ==
    \A n \in 1..Len(requests) : Pending(n) =>
      \/ \E s \in JobIdx : InSlot(s, n)
      \/ WithWorker(n)
      \/ \E x \in Way : IsAnswer(x) /\ x.frame.req = n

\* An ACK on its way is the only one, its request has no answer yet, and the
\* answer will wait for the same instant as the ACK.
AckStory ==
    /\ mqtt.pc \in {"ackAcquire", "ackSubmit"} =>
         ~ requests[mqtt.req].acked /\ \A x \in Way : IsAck(x) => x.frame.req # mqtt.req
    /\ \A x \in Way : IsAck(x) =>
         /\ ~ requests[x.frame.req].acked
         /\ requests[x.frame.req].stage \in Unanswered
         /\ \A y \in Way : IsAck(y) /\ y.frame.req = x.frame.req => y = x
         /\ \A s \in JobIdx : InSlot(s, x.frame.req) => slots[s].nb = x.nb
         /\ WithWorker(x.frame.req) => worker.nb = x.nb
         /\ \A y \in Way : IsAnswer(y) /\ y.frame.req = x.frame.req => y.nb = x.nb
    /\ AckFirst

Stories == FramesKnown /\ SlotStory /\ WorkerStory /\ FrameStory /\ Carried /\ AckStory

\* The invariant about the requests.
LedgerInv == SlotInv /\ Stories

\* What the program counters say about slots and requests.
LEMMA LedgerFacts ==
    ASSUME SlotInv
    PROVE  /\ mqtt \in MqttState /\ worker \in WorkerState /\ requests \in Seq(Request) /\ Len(requests) \in Nat
           /\ slots \in [JobIdx -> Slot]
           /\ \A s \in JobIdx : Live(s) => slots[s].req \in 1..Len(requests)
           /\ mqtt.pc \in {"ackAcquire", "ackSubmit", "enqueue"} =>
                /\ mqtt.slot \in JobIdx /\ slots[mqtt.slot].state = "queued" /\ mqtt.req \in 1..Len(requests)
           /\ worker.pc \in {"acquire", "run", "free"} =>
                /\ worker.slot \in JobIdx /\ slots[worker.slot].state = "running" /\ worker.req \in 1..Len(requests)
           /\ worker.pc \in {"acquire", "run"} => worker.kind = "RES"
           /\ worker.pc = "free" => worker.kind \in Answers \union {"DROPPED"}
           /\ worker.pc = "start" => worker.slot \in JobIdx /\ slots[worker.slot].state = "queued"
           /\ Holds => worker.req \in 1..Len(requests)
           /\ \A x \in Way : x.frame.type = "OTHER" \/ IsAnswer(x) \/ IsAck(x)
<1>0. /\ mqtt \in MqttState /\ worker \in WorkerState /\ requests \in Seq(Request) /\ slots \in [JobIdx -> Slot]
      /\ Inv /\ LocalsOK /\ JobSlotOneOwner /\ SlotStateTellsOwner /\ Known /\ UplinkInv
  BY DEF SlotInv, Inv, ServerTypeOK
<1>1. Len(requests) \in Nat
  BY <1>0, LenProperties
<1>2. \A s \in JobIdx : Live(s) => slots[s].req \in 1..Len(requests)
  BY <1>0, LiveIsKnown
<1>3. ASSUME mqtt.pc \in {"ackAcquire", "ackSubmit", "enqueue"}
      PROVE  mqtt.slot \in JobIdx /\ slots[mqtt.slot].state = "queued" /\ mqtt.req \in 1..Len(requests)
  <2>1. mqtt.slot \in JobIdx /\ mqtt.req # 0
    BY <1>0, <1>3 DEF LocalsOK
  <2>2. mqtt.slot \notin ToSet(freeSlots) /\ mqtt.slot \notin WorkerSlots
    BY <1>0, <1>3, <2>1 DEF JobSlotOneOwner, ClaimedSlots
  <2>3. slots[mqtt.slot].state = "queued"
    BY <1>0, <2>1, <2>2 DEF SlotStateTellsOwner, WorkerSlots, Slot
  <2>4. mqtt.req \in Nat /\ mqtt.req <= Len(requests)
    BY <1>0 DEF MqttState, Known
  <2> QED BY <1>1, <2>1, <2>3, <2>4
<1>4. ASSUME worker.pc \in {"acquire", "run", "free"}
      PROVE  worker.slot \in JobIdx /\ slots[worker.slot].state = "running" /\ worker.req \in 1..Len(requests)
  <2>1. worker.slot \in JobIdx /\ worker.req # 0
    BY <1>0, <1>4 DEF LocalsOK
  <2>2. slots[worker.slot].state = "running"
    BY <1>0, <1>4, <2>1 DEF SlotStateTellsOwner
  <2>3. worker.req \in Nat /\ worker.req <= Len(requests)
    BY <1>0 DEF WorkerState, Known
  <2> QED BY <1>1, <2>1, <2>2, <2>3
<1>5. /\ worker.pc \in {"acquire", "run"} => worker.kind = "RES"
      /\ worker.pc = "free" => worker.kind \in Answers \union {"DROPPED"}
  BY <1>0 DEF LocalsOK
<1>6. ASSUME worker.pc = "start" PROVE worker.slot \in JobIdx /\ slots[worker.slot].state = "queued"
  <2>1. worker.slot \in JobIdx /\ worker.slot \notin ToSet(freeSlots)
    BY <1>0, <1>6 DEF LocalsOK, JobSlotOneOwner, WorkerSlots
  <2> QED BY <1>0, <1>6, <2>1 DEF SlotStateTellsOwner, Slot
<1>7. ASSUME Holds PROVE worker.req \in 1..Len(requests)
  <2>1. worker.req # 0
    BY <1>0, <1>7 DEF LocalsOK, Holds, Answers
  <2>2. worker.req \in Nat /\ worker.req <= Len(requests)
    BY <1>0 DEF WorkerState, Known
  <2> QED BY <1>1, <2>1, <2>2
<1>8. ASSUME NEW x \in Way PROVE x.frame.type = "OTHER" \/ IsAnswer(x) \/ IsAck(x)
  <2>1. x.frame \in ReplyFrames
    BY <1>0, WayPlaces, ServerAssumption DEF TxItem
  <2> QED BY <2>1 DEF ReplyFrames, Kinds, IsAnswer, IsAck, Answers
<1> QED BY <1>0, <1>1, <1>2, <1>3, <1>4, <1>5, <1>6, <1>7, <1>8

-----------------------------------------------------------------------------
(* Steps that leave things where they are.                                 *)

\* What a step leaves alone: the jobs in the slots, ...
SlotsSame ==
    \A s \in JobIdx : /\ Live(s)' <=> Live(s)
                      /\ slots'[s].state = "queued" => slots[s].state = "queued"
                      /\ slots'[s].req = slots[s].req /\ slots'[s].nb = slots[s].nb
                      /\ slots[s].cancelled => slots'[s].cancelled

\* ... the job the worker runs and the answer it holds, ...
RunsSame ==
    /\ worker'.pc \in {"acquire", "run"} => worker.pc \in {"acquire", "run"}
    /\ worker'.pc = "free" => worker.pc = "free"
    /\ worker'.pc \in {"acquire", "run", "free"} =>
         /\ worker'.slot = worker.slot /\ worker'.req = worker.req
         /\ worker'.nb = worker.nb /\ worker'.kind = worker.kind
HoldSame ==
    /\ Holds' <=> Holds
    /\ Holds => worker'.req = worker.req /\ worker'.nb = worker.nb /\ worker'.kind = worker.kind

\* ... and the request that the MQTT task works on.
MqttSame ==
    /\ mqtt'.pc \in {"ackAcquire", "ackSubmit"} => mqtt.pc \in {"ackAcquire", "ackSubmit"}
    /\ mqtt'.pc \in {"ackAcquire", "ackSubmit", "enqueue"} =>
         /\ mqtt.pc \in {"ackAcquire", "ackSubmit", "enqueue"}
         /\ mqtt'.slot = mqtt.slot /\ mqtt'.req = mqtt.req /\ mqtt'.nb = mqtt.nb

\* A step that moves no answer and starts no ACK; it may add to the record of
\* a CANCEL, and it may deliver or lose an ACK.
LEMMA QuietKeepsLedger ==
    ASSUME LedgerInv, SlotInv', SlotsSame, HoldSame, MqttSame, AckFirst',
           Len(requests') = Len(requests),
           \A m \in 1..Len(requests) :
             /\ requests'[m].stage = requests[m].stage
             /\ requests[m].cancel # "no" => requests'[m].cancel # "no"
             /\ requests'[m].cancel = "doomed" =>
                  \/ requests[m].cancel = "doomed"
                  \/ \E s \in JobIdx : slots[s].state = "queued" /\ slots[s].req = m /\ slots'[s].cancelled
             /\ requests'[m].acked =>
                  \/ requests[m].acked
                  \/ /\ \A y \in Way' : IsAck(y) => y.frame.req # m
                     /\ mqtt'.pc \in {"ackAcquire", "ackSubmit"} => mqtt'.req # m,
           \A x \in Way' : IsAnswer(x) \/ IsAck(x) => x \in Way,
           \A x \in Way : IsAnswer(x) => x \in Way'
    PROVE  /\ FramesKnown' /\ SlotStory' /\ HoldStory' /\ FrameStory' /\ Carried' /\ AckStory'
           /\ RunsSame => RunStory'
<1>0. /\ SlotInv /\ Stories /\ FramesKnown /\ SlotStory /\ WorkerStory /\ FrameStory /\ Carried /\ AckStory
  BY DEF LedgerInv, Stories
<1>1. /\ Len(requests) \in Nat
      /\ \A s \in JobIdx : Live(s) => slots[s].req \in 1..Len(requests)
      /\ mqtt.pc \in {"ackAcquire", "ackSubmit", "enqueue"} =>
           /\ mqtt.slot \in JobIdx /\ slots[mqtt.slot].state = "queued" /\ mqtt.req \in 1..Len(requests)
      /\ worker.pc \in {"acquire", "run", "free"} =>
           /\ worker.slot \in JobIdx /\ slots[worker.slot].state = "running" /\ worker.req \in 1..Len(requests)
      /\ Holds => worker.req \in 1..Len(requests)
  BY <1>0, LedgerFacts
<1>2. /\ \A s \in JobIdx : Live(s)' <=> Live(s)
      /\ \A s \in JobIdx, n \in Nat : InSlot(s, n)' <=> InSlot(s, n)
      /\ \A n \in Nat : WithWorker(n)' <=> WithWorker(n)
      /\ \A x : (IsAnswer(x)' <=> IsAnswer(x)) /\ (IsAck(x)' <=> IsAck(x))
  BY DEF SlotsSame, HoldSame, InSlot, WithWorker, IsAnswer, IsAck
<1>3. ASSUME NEW n \in 1..Len(requests), NEW kind, Fits(n, kind),
             \A s \in JobIdx : slots[s].state = "queued" => slots[s].req # n
      PROVE  Fits(n, kind)'
  BY <1>3 DEF Fits
<1>4. FramesKnown'
  BY <1>0, <1>2 DEF FramesKnown
<1>5. SlotStory'
  <2>1. \A s, t \in JobIdx : Live(s)' /\ Live(t)' /\ slots'[s].req = slots'[t].req => s = t
    BY <1>0, <1>2 DEF SlotStory, SlotsSame
  <2>2. ASSUME NEW s \in JobIdx, slots'[s].state = "queued"
        PROVE  /\ requests'[slots'[s].req].stage = "accepted"
               /\ requests'[slots'[s].req].cancel = "doomed" => slots'[s].cancelled
    <3>1. slots[s].state = "queued" /\ slots'[s].req = slots[s].req /\ Live(s)
      BY <2>2 DEF SlotsSame, Live
    <3>2. slots[s].req \in 1..Len(requests)
      BY <1>1, <3>1
    <3>3. \A t \in JobIdx : slots[t].state = "queued" /\ slots[t].req = slots[s].req => t = s
      BY <1>0, <3>1 DEF SlotStory, Live
    <3>4. requests[slots[s].req].stage = "accepted" /\ (requests[slots[s].req].cancel = "doomed" => slots[s].cancelled)
      BY <1>0, <3>1 DEF SlotStory
    <3>5. slots[s].cancelled => slots'[s].cancelled
      BY DEF SlotsSame
    <3> QED BY <3>1, <3>2, <3>3, <3>4, <3>5
  <2>3. mqtt'.pc \in {"ackAcquire", "ackSubmit", "enqueue"} =>
          slots'[mqtt'.slot].req = mqtt'.req /\ slots'[mqtt'.slot].nb = mqtt'.nb
    BY <1>0, <1>1 DEF SlotStory, SlotsSame, MqttSame
  <2> QED BY <2>1, <2>2, <2>3 DEF SlotStory
<1>6. ASSUME RunsSame PROVE RunStory'
  <2>0. ASSUME worker.pc \in {"acquire", "run", "free"}
        PROVE  /\ slots[worker.slot].req = worker.req /\ slots[worker.slot].nb = worker.nb
               /\ \A s \in JobIdx : slots[s].state = "queued" => slots[s].req # worker.req
    <3>1. slots[worker.slot].req = worker.req /\ slots[worker.slot].nb = worker.nb
      BY <1>0, <2>0 DEF WorkerStory, RunStory, HoldStory
    <3>2. Live(worker.slot) /\ worker.slot \in JobIdx /\ slots[worker.slot].state # "queued"
      BY <1>1, <2>0 DEF Live
    <3> QED BY <1>0, <3>1, <3>2 DEF SlotStory, Live
  <2>1. ASSUME worker'.pc \in {"acquire", "run", "free"}
        PROVE  slots'[worker'.slot].req = worker'.req /\ slots'[worker'.slot].nb = worker'.nb
    BY <1>1, <1>6, <2>0, <2>1 DEF RunsSame, SlotsSame
  <2>2. ASSUME worker'.pc \in {"acquire", "run"}
        PROVE  requests'[worker'.req].stage = "accepted" /\ requests'[worker'.req].cancel # "doomed"
    <3>1. worker.pc \in {"acquire", "run"} /\ worker'.req = worker.req
      BY <1>6, <2>2 DEF RunsSame
    <3>2. worker.req \in 1..Len(requests) /\ \A s \in JobIdx : slots[s].state = "queued" => slots[s].req # worker.req
      BY <1>1, <2>0, <3>1
    <3>3. requests[worker.req].stage = "accepted" /\ requests[worker.req].cancel # "doomed"
      BY <1>0, <3>1 DEF WorkerStory, RunStory, HoldStory
    <3> QED BY <3>1, <3>2, <3>3
  <2>3. ASSUME worker'.pc = "free", NEW n, n = worker'.req, NEW kind, kind = worker'.kind
        PROVE  IF kind = "DROPPED" THEN requests'[n].stage = "lost" ELSE Fits(n, kind)'
    <3>1. worker.pc = "free" /\ n = worker.req /\ kind = worker.kind
      BY <1>6, <2>3 DEF RunsSame
    <3>2. n \in 1..Len(requests) /\ \A s \in JobIdx : slots[s].state = "queued" => slots[s].req # n
      BY <1>1, <2>0, <3>1
    <3>3. IF kind = "DROPPED" THEN requests[n].stage = "lost" ELSE Fits(n, kind)
      BY <1>0, <3>1 DEF WorkerStory, RunStory, HoldStory
    <3> QED BY <1>3, <3>2, <3>3
  <2> QED BY <2>1, <2>2, <2>3 DEF RunStory, Fits
<1>7. FrameStory'
  <2> SUFFICES ASSUME NEW x \in Way', IsAnswer(x)'
               PROVE  /\ Fits(x.frame.req, x.frame.type)'
                      /\ ~ WithWorker(x.frame.req)'
                      /\ \A s \in JobIdx : ~ InSlot(s, x.frame.req)'
                      /\ \A y \in Way' : IsAnswer(y)' /\ y.frame.req = x.frame.req => y = x
    BY DEF FrameStory
  <2>1. x \in Way /\ IsAnswer(x) /\ x.frame.req \in 1..Len(requests)
    BY <1>0, <1>2 DEF FramesKnown
  <2>2. /\ Fits(x.frame.req, x.frame.type) /\ ~ WithWorker(x.frame.req)
        /\ \A s \in JobIdx : ~ InSlot(s, x.frame.req)
        /\ \A y \in Way : IsAnswer(y) /\ y.frame.req = x.frame.req => y = x
    BY <1>0, <2>1 DEF FrameStory
  <2>3. \A s \in JobIdx : slots[s].state = "queued" => slots[s].req # x.frame.req
    BY <2>2 DEF InSlot, Live
  <2>4. Fits(x.frame.req, x.frame.type)'
    BY <1>3, <2>1, <2>2, <2>3
  <2>5. ~ WithWorker(x.frame.req)' /\ \A s \in JobIdx : ~ InSlot(s, x.frame.req)'
    BY <1>1, <1>2, <2>1, <2>2
  <2> QED BY <1>2, <2>2, <2>4, <2>5
<1>8. Carried'
  <2> SUFFICES ASSUME NEW n \in 1..Len(requests), Pending(n)'
               PROVE  \/ \E s \in JobIdx : InSlot(s, n)'
                      \/ WithWorker(n)'
                      \/ \E x \in Way' : IsAnswer(x)' /\ x.frame.req = n
    BY DEF Carried
  <2>1. Pending(n)
    BY DEF Pending
  <2>2. (\E s \in JobIdx : InSlot(s, n)) \/ WithWorker(n) \/ \E x \in Way : IsAnswer(x) /\ x.frame.req = n
    BY <1>0, <2>1 DEF Carried
  <2> QED BY <1>1, <1>2, <2>2
<1>9. AckStory'
  <2>1. mqtt'.pc \in {"ackAcquire", "ackSubmit"} =>
          ~ requests'[mqtt'.req].acked /\ \A x \in Way' : IsAck(x)' => x.frame.req # mqtt'.req
    BY <1>0, <1>1, <1>2 DEF AckStory, MqttSame
  <2>2. ASSUME NEW x \in Way', IsAck(x)'
        PROVE  /\ ~ requests'[x.frame.req].acked
               /\ requests'[x.frame.req].stage \in Unanswered
               /\ \A y \in Way' : IsAck(y)' /\ y.frame.req = x.frame.req => y = x
               /\ \A s \in JobIdx : InSlot(s, x.frame.req)' => slots'[s].nb = x.nb
               /\ WithWorker(x.frame.req)' => worker'.nb = x.nb
               /\ \A y \in Way' : IsAnswer(y)' /\ y.frame.req = x.frame.req => y.nb = x.nb
    <3>1. x \in Way /\ IsAck(x) /\ x.frame.req \in 1..Len(requests) /\ x.frame.req \in Nat
      BY <1>0, <1>1, <1>2, <2>2 DEF FramesKnown
    <3>2. /\ ~ requests[x.frame.req].acked
          /\ requests[x.frame.req].stage \in Unanswered
          /\ \A y \in Way : IsAck(y) /\ y.frame.req = x.frame.req => y = x
          /\ \A s \in JobIdx : InSlot(s, x.frame.req) => slots[s].nb = x.nb
          /\ WithWorker(x.frame.req) => worker.nb = x.nb
          /\ \A y \in Way : IsAnswer(y) /\ y.frame.req = x.frame.req => y.nb = x.nb
      BY <1>0, <3>1 DEF AckStory
    <3>3. ~ requests'[x.frame.req].acked /\ requests'[x.frame.req].stage \in Unanswered
      BY <2>2, <3>1, <3>2
    <3>4. \A s \in JobIdx : InSlot(s, x.frame.req)' => slots'[s].nb = x.nb
      BY <1>2, <3>1, <3>2 DEF SlotsSame
    <3>5. WithWorker(x.frame.req)' => worker'.nb = x.nb
      BY <1>2, <3>1, <3>2 DEF HoldSame, WithWorker
    <3> QED BY <1>2, <3>2, <3>3, <3>4, <3>5
  <2> QED BY <2>1, <2>2 DEF AckStory, Unanswered
<1>10. HoldStory'
  <2>1. ASSUME Holds', NEW n, n = worker'.req, NEW kind, kind = worker'.kind
        PROVE  Fits(n, kind)' /\ \A s \in JobIdx : ~ InSlot(s, n)'
    <3>1. Holds /\ n = worker.req /\ kind = worker.kind
      BY <2>1 DEF HoldSame
    <3>2. Fits(n, kind) /\ n \in 1..Len(requests) /\ n \in Nat /\ \A s \in JobIdx : ~ InSlot(s, n)
      BY <1>0, <1>1, <3>1 DEF WorkerStory, RunStory, HoldStory
    <3>3. \A s \in JobIdx : slots[s].state = "queued" => slots[s].req # n
      BY <3>2 DEF InSlot, Live
    <3>4. Fits(n, kind)'
      BY <1>3, <3>2, <3>3
    <3> QED BY <1>2, <3>2, <3>4
  <2> QED BY <2>1 DEF HoldStory, Fits, InSlot
<1> QED BY <1>4, <1>5, <1>6, <1>7, <1>8, <1>9, <1>10

-----------------------------------------------------------------------------
(* Steps that take a request further.                                      *)

\* handleReq() accepts a request: it gets a slot and nothing else.
LEMMA ClaimKeepsLedger ==
    ASSUME LedgerInv, SlotInv', NEW h \in Headers, NEW nb \in NotBefore(h), OnAccepted(h, nb)
    PROVE  Stories'
<1> DEFINE w == Head(freeSlots)
           n == Len(requests) + 1
<1>0. /\ SlotInv /\ Inv /\ FramesKnown /\ SlotStory /\ WorkerStory /\ FrameStory /\ Carried /\ AckStory
  BY DEF LedgerInv, Stories, SlotInv
<1>1. /\ Len(requests) \in Nat
      /\ \A s \in JobIdx : Live(s) => slots[s].req \in 1..Len(requests)
      /\ worker.pc \in {"acquire", "run", "free"} =>
           /\ worker.slot \in JobIdx /\ slots[worker.slot].state = "running" /\ worker.req \in 1..Len(requests)
      /\ Holds => worker.req \in 1..Len(requests)
  BY <1>0, LedgerFacts
<1>2. /\ w \in JobIdx /\ w \in ToSet(freeSlots)
      /\ slots'[w] = Claimed(h, nb) /\ \A t \in JobIdx \ {w} : slots'[t] = slots[t]
      /\ Len(requests') = n
      /\ \A m \in 1..Len(requests) : requests'[m] = requests[m]
      /\ requests'[n] = [rid |-> h.rid, acked |-> FALSE, stage |-> "accepted", cancel |-> "no"]
      /\ mqtt'.slot = w /\ mqtt'.req = n /\ mqtt'.nb = nb
      /\ UNCHANGED <<worker, txQ, parked, drawn>>
  BY <1>0, ClaimFacts
<1> HIDE DEF w, n
<1>3. n \notin 1..Len(requests) /\ n \in Nat /\ \A m \in 1..n : m \in 1..Len(requests) \/ m = n
  BY <1>1 DEF n
<1>4. slots[w].state = "free" /\ ~ Live(w)
  BY <1>0, <1>2 DEF SlotInv, SlotStateTellsOwner, Live
<1>5. /\ slots'[w].state = "queued" /\ slots'[w].req = n /\ slots'[w].nb = nb
      /\ requests'[n].stage = "accepted" /\ requests'[n].cancel = "no" /\ ~ requests'[n].acked
  BY <1>2 DEF Claimed, n
<1>6. /\ \A s \in JobIdx : Live(s)' <=> s = w \/ Live(s)
      /\ \A s \in JobIdx, m \in Nat : InSlot(s, m)' <=> IF s = w THEN m = n ELSE InSlot(s, m)
  <2>1. \A s \in JobIdx : Live(s)' <=> s = w \/ Live(s)
    BY <1>2, <1>5 DEF Live
  <2>2. ASSUME NEW s \in JobIdx, NEW m \in Nat
        PROVE  InSlot(s, m)' <=> IF s = w THEN m = n ELSE InSlot(s, m)
    <3>1. CASE s = w
      BY <1>5, <2>1, <3>1 DEF InSlot
    <3>2. CASE s # w
      BY <1>2, <2>1, <3>2 DEF InSlot
    <3> QED BY <3>1, <3>2
  <2> QED BY <2>1, <2>2
<1>7. Way' = Way /\ Pend' = Pend /\ AckFirst' = AckFirst
  BY <1>2 DEF Way, Pend, AckFirst, IsAnswer, IsAck
<1>8. /\ \A x : (IsAnswer(x)' <=> IsAnswer(x)) /\ (IsAck(x)' <=> IsAck(x))
      /\ \A m : WithWorker(m)' <=> WithWorker(m)
      /\ Holds' <=> Holds
      /\ \A m \in 1..Len(requests) : \A kind : Fits(m, kind)' <=> Fits(m, kind)
  BY <1>2 DEF IsAnswer, IsAck, WithWorker, Holds, Fits
<1>9. FramesKnown'
  BY <1>0, <1>1, <1>2, <1>7, <1>8 DEF FramesKnown, n
<1>10. SlotStory'
  <2>1. \A s, t \in JobIdx : Live(s)' /\ Live(t)' /\ slots'[s].req = slots'[t].req => s = t
    BY <1>0, <1>1, <1>2, <1>3, <1>5, <1>6 DEF SlotStory
  <2>2. ASSUME NEW s \in JobIdx, slots'[s].state = "queued"
        PROVE  /\ requests'[slots'[s].req].stage = "accepted"
               /\ requests'[slots'[s].req].cancel = "doomed" => slots'[s].cancelled
    <3>1. CASE s = w
      BY <1>5, <3>1
    <3>2. CASE s # w
      <4>1. slots'[s] = slots[s] /\ slots[s].req \in 1..Len(requests)
        BY <1>1, <1>2, <2>2, <3>2 DEF Live
      <4> QED BY <1>0, <1>2, <2>2, <4>1 DEF SlotStory
    <3> QED BY <3>1, <3>2
  <2> QED BY <1>2, <1>5, <2>1, <2>2 DEF SlotStory
<1>11. WorkerStory'
  <2>1. worker.pc \in {"acquire", "run", "free"} => slots'[worker.slot] = slots[worker.slot]
    BY <1>1, <1>2, <1>4
  <2>2. worker.pc \in {"acquire", "run", "free"} => requests'[worker.req] = requests[worker.req]
    BY <1>1, <1>2
  <2>3. ASSUME Holds, NEW m, m = worker.req
        PROVE  Fits(m, worker.kind) /\ m \in 1..Len(requests) /\ \A s \in JobIdx : ~ InSlot(s, m)'
    <3>1. Fits(m, worker.kind) /\ m \in 1..Len(requests) /\ \A s \in JobIdx : ~ InSlot(s, m)
      BY <1>0, <1>1, <2>3 DEF WorkerStory, RunStory, HoldStory
    <3> QED BY <1>3, <1>6, <3>1
  <2> QED BY <1>0, <1>2, <1>8, <2>1, <2>2, <2>3 DEF WorkerStory, RunStory, HoldStory, Fits, InSlot
<1>12. FrameStory'
  <2>1. ASSUME NEW x \in Way, IsAnswer(x)
        PROVE  /\ Fits(x.frame.req, x.frame.type)' /\ ~ WithWorker(x.frame.req)'
               /\ \A s \in JobIdx : ~ InSlot(s, x.frame.req)'
               /\ \A y \in Way : IsAnswer(y) /\ y.frame.req = x.frame.req => y = x
    <3>1. x.frame.req \in 1..Len(requests) /\ x.frame.req \in Nat /\ x.frame.req # n
      BY <1>0, <1>3, <2>1 DEF FramesKnown
    <3>2. /\ Fits(x.frame.req, x.frame.type) /\ ~ WithWorker(x.frame.req)
          /\ \A s \in JobIdx : ~ InSlot(s, x.frame.req)
          /\ \A y \in Way : IsAnswer(y) /\ y.frame.req = x.frame.req => y = x
      BY <1>0, <2>1 DEF FrameStory
    <3> QED BY <1>6, <1>8, <3>1, <3>2
  <2> QED BY <1>7, <1>8, <2>1 DEF FrameStory
<1>13. Carried'
  <2> SUFFICES ASSUME NEW m \in 1..n, Pending(m)'
               PROVE  \/ \E s \in JobIdx : InSlot(s, m)'
                      \/ WithWorker(m)'
                      \/ \E x \in Way' : IsAnswer(x)' /\ x.frame.req = m
    BY <1>2 DEF Carried
  <2>1. CASE m = n
    BY <1>2, <1>3, <1>6, <2>1
  <2>2. CASE m \in 1..Len(requests)
    <3>1. Pending(m)
      BY <1>2, <2>2 DEF Pending
    <3>2. (\E s \in JobIdx : InSlot(s, m)) \/ WithWorker(m) \/ \E x \in Way : IsAnswer(x) /\ x.frame.req = m
      BY <1>0, <2>2, <3>1 DEF Carried
    <3>3. ~ InSlot(w, m) /\ m \in Nat
      BY <1>4, <2>2 DEF InSlot
    <3> QED BY <1>6, <1>7, <1>8, <3>2, <3>3
  <2> QED BY <1>3, <2>1, <2>2
<1>14. AckStory'
  <2>1. ~ requests'[n].acked /\ \A x \in Way' : IsAck(x)' => x.frame.req # n
    BY <1>0, <1>3, <1>5, <1>7, <1>8 DEF FramesKnown
  <2>2. ASSUME NEW x \in Way, IsAck(x)
        PROVE  /\ ~ requests'[x.frame.req].acked
               /\ requests'[x.frame.req].stage \in Unanswered
               /\ \A s \in JobIdx : InSlot(s, x.frame.req)' => slots'[s].nb = x.nb
    <3>1. x.frame.req \in 1..Len(requests) /\ x.frame.req \in Nat /\ x.frame.req # n
      BY <1>0, <1>3, <2>2 DEF FramesKnown
    <3>2. /\ ~ requests[x.frame.req].acked /\ requests[x.frame.req].stage \in Unanswered
          /\ \A s \in JobIdx : InSlot(s, x.frame.req) => slots[s].nb = x.nb
      BY <1>0, <2>2 DEF AckStory
    <3>3. requests'[x.frame.req] = requests[x.frame.req]
      BY <1>2, <3>1
    <3>4. ASSUME NEW s \in JobIdx, InSlot(s, x.frame.req)' PROVE slots'[s].nb = x.nb
      BY <1>2, <1>6, <3>1, <3>2, <3>4
    <3> QED BY <3>2, <3>3, <3>4
  <2>3. ASSUME NEW x \in Way, IsAck(x)
        PROVE  /\ \A y \in Way' : IsAck(y)' /\ y.frame.req = x.frame.req => y = x
               /\ WithWorker(x.frame.req)' => worker'.nb = x.nb
               /\ \A y \in Way' : IsAnswer(y)' /\ y.frame.req = x.frame.req => y.nb = x.nb
    BY <1>0, <1>2, <1>7, <1>8, <2>3 DEF AckStory
  <2> QED BY <1>0, <1>2, <1>7, <1>8, <2>1, <2>2, <2>3 DEF AckStory, Unanswered
<1> QED BY <1>9, <1>10, <1>11, <1>12, <1>13, <1>14 DEF Stories

\* sendAck() got its frame into the uplink.
LEMMA AckKeepsLedger ==
    ASSUME LedgerInv, SlotInv', UNCHANGED <<slots, requests, worker>>, mqtt.pc = "ackSubmit",
           mqtt' = [mqtt EXCEPT !.pc = "enqueue"],
           NEW x, IsAck(x), x.frame.req = mqtt.req, x.nb = mqtt.nb, Way' = Way \union {x},
           AckFirst /\ (IsAck(x) => \A y \in Way : IsAnswer(y) => y.frame.req # x.frame.req) => AckFirst'
    PROVE  Stories'
<1>0. /\ SlotInv /\ FramesKnown /\ SlotStory /\ WorkerStory /\ FrameStory /\ Carried /\ AckStory
  BY DEF LedgerInv, Stories
<1>1. /\ mqtt \in MqttState /\ Len(requests) \in Nat
      /\ mqtt.slot \in JobIdx /\ slots[mqtt.slot].state = "queued" /\ mqtt.req \in 1..Len(requests)
  BY <1>0, LedgerFacts
<1>2. mqtt'.pc = "enqueue" /\ mqtt'.slot = mqtt.slot /\ mqtt'.req = mqtt.req /\ mqtt'.nb = mqtt.nb
  BY <1>1 DEF MqttState
<1>3. /\ InSlot(mqtt.slot, mqtt.req) /\ slots[mqtt.slot].nb = mqtt.nb
      /\ requests[mqtt.req].stage = "accepted" /\ ~ requests[mqtt.req].acked
      /\ \A y \in Way : IsAck(y) => y.frame.req # mqtt.req
  BY <1>0, <1>1 DEF SlotStory, AckStory, InSlot, Live
<1>4. /\ ~ WithWorker(mqtt.req)
      /\ \A y \in Way : IsAnswer(y) => y.frame.req # mqtt.req
  BY <1>0, <1>1, <1>3 DEF WorkerStory, RunStory, HoldStory, FrameStory, WithWorker
<1>5. ~ IsAnswer(x)
  BY DEF IsAck, IsAnswer, Answers
<1>6. /\ \A s, m : InSlot(s, m)' <=> InSlot(s, m)
      /\ \A m : WithWorker(m)' <=> WithWorker(m)
      /\ \A m, kind : Fits(m, kind)' <=> Fits(m, kind)
      /\ \A y : (IsAnswer(y)' <=> IsAnswer(y)) /\ (IsAck(y)' <=> IsAck(y))
      /\ \A m : Pending(m)' <=> Pending(m)
  BY DEF InSlot, Live, WithWorker, Holds, Fits, IsAnswer, IsAck, Pending
<1>7. FramesKnown'
  BY <1>0, <1>1, <1>6 DEF FramesKnown
<1>8. SlotStory'
  <2>1. slots' = slots /\ requests' = requests
    OBVIOUS
  <2> QED BY <1>0, <1>2, <2>1 DEF SlotStory, Live
<1>9. WorkerStory'
  BY <1>0 DEF WorkerStory, RunStory, HoldStory, Fits, InSlot, Live, Holds
<1>10. FrameStory'
  BY <1>0, <1>5, <1>6 DEF FrameStory
<1>11. Carried'
  BY <1>0, <1>6 DEF Carried
<1>12. AckStory'
  <2>1. AckFirst'
    BY <1>0, <1>4 DEF AckStory
  <2>2. ASSUME NEW z \in Way', IsAck(z)
        PROVE  /\ ~ requests[z.frame.req].acked
               /\ requests[z.frame.req].stage \in Unanswered
               /\ \A y \in Way' : IsAck(y) /\ y.frame.req = z.frame.req => y = z
               /\ \A s \in JobIdx : InSlot(s, z.frame.req) => slots[s].nb = z.nb
               /\ WithWorker(z.frame.req) => worker.nb = z.nb
               /\ \A y \in Way' : IsAnswer(y) /\ y.frame.req = z.frame.req => y.nb = z.nb
    <3>1. CASE z = x
      <4>1. \A s \in JobIdx : InSlot(s, mqtt.req) => s = mqtt.slot
        BY <1>0, <1>1, <1>3 DEF SlotStory, InSlot
      <4> QED BY <1>3, <1>4, <1>5, <3>1, <4>1 DEF Unanswered
    <3>2. CASE z # x
      <4>1. z \in Way /\ z.frame.req # mqtt.req
        BY <1>3, <2>2, <3>2
      <4> QED BY <1>0, <1>5, <2>2, <4>1 DEF AckStory
    <3> QED BY <3>1, <3>2
  <2> QED BY <1>2, <1>6, <2>1, <2>2 DEF AckStory, Unanswered
<1> QED BY <1>7, <1>8, <1>9, <1>10, <1>11, <1>12 DEF Stories

\* The worker takes up a job that was queued.
LEMMA StartKeepsLedger ==
    ASSUME LedgerInv, SlotInv', JobStart
    PROVE  Stories'
<1> DEFINE w == worker.slot
           n == slots[w].req
           kind == Verdict(slots[w])
<1>0. /\ SlotInv /\ FramesKnown /\ SlotStory /\ WorkerStory /\ FrameStory /\ Carried /\ AckStory
  BY DEF LedgerInv, Stories
<1>1. /\ worker.pc = "start" /\ w \in JobIdx /\ slots[w].state = "queued" /\ Live(w) /\ slots \in [JobIdx -> Slot]
      /\ n \in 1..Len(requests)
  BY <1>0, LedgerFacts DEF JobStart, Live
<1>2. /\ slots'[w].state = "running" /\ slots'[w].req = n /\ slots'[w].nb = slots[w].nb
      /\ slots'[w].cancelled = slots[w].cancelled
      /\ \A t \in JobIdx \ {w} : slots'[t] = slots[t]
  BY <1>1, SlotFields DEF JobStart
<1>3. /\ worker' = [pc |-> IF kind = "RES" THEN "acquire" ELSE "free", slot |-> w, req |-> n, nb |-> slots[w].nb, kind |-> kind]
      /\ UNCHANGED <<requests, mqtt, parked, txQ, drawn>>
  BY DEF JobStart, uplinkVars
<1>4. /\ worker'.pc \in {"acquire", "free"} /\ (worker'.pc = "acquire" <=> kind = "RES")
      /\ worker'.slot = w /\ worker'.req = n /\ worker'.nb = slots[w].nb /\ worker'.kind = kind
  BY <1>3
<1>5. \/ kind = "CANCELLED" /\ slots[w].cancelled
      \/ kind \in {"DEADLINE_EXCEEDED", "RES"} /\ ~ slots[w].cancelled
  BY DEF Verdict
<1>6. /\ requests[n].stage = "accepted" /\ (requests[n].cancel = "doomed" => slots[w].cancelled)
      /\ slots[w].cancelled => requests[n].cancel # "no"
  BY <1>0, <1>1 DEF SlotStory, SlotInv, CancelFlagFresh
<1> HIDE DEF w, n, kind
<1>7. SlotsSame
  <2> SUFFICES ASSUME NEW s \in JobIdx
               PROVE  /\ Live(s)' <=> Live(s)
                      /\ slots'[s].state = "queued" => slots[s].state = "queued"
                      /\ slots'[s].req = slots[s].req /\ slots'[s].nb = slots[s].nb
                      /\ slots[s].cancelled => slots'[s].cancelled
    BY DEF SlotsSame
  <2>1. CASE s = w
    BY <1>1, <1>2, <2>1 DEF Live, n
  <2>2. CASE s # w
    BY <1>2, <2>2 DEF Live
  <2> QED BY <2>1, <2>2
<1>8. /\ HoldSame /\ MqttSame /\ AckFirst' /\ Way' = Way
  <2>1. HoldSame
    BY <1>1, <1>4 DEF HoldSame, Holds
  <2>2. MqttSame
    BY <1>3 DEF MqttSame
  <2>3. AckFirst' /\ Way' = Way
    BY <1>0, <1>3 DEF AckStory, AckFirst, Way, Pend, IsAnswer, IsAck
  <2> QED BY <2>1, <2>2, <2>3
<1>9. FramesKnown' /\ SlotStory' /\ HoldStory' /\ FrameStory' /\ Carried' /\ AckStory'
  BY <1>3, <1>7, <1>8, QuietKeepsLedger
<1>10. RunStory'
  <2>1. slots'[worker'.slot].req = worker'.req /\ slots'[worker'.slot].nb = worker'.nb
    BY <1>2, <1>4
  <2>2. worker'.pc = "acquire" => requests'[worker'.req].stage = "accepted" /\ requests'[worker'.req].cancel # "doomed"
    BY <1>3, <1>4, <1>5, <1>6
  <2>3. worker'.pc = "free" =>
          \/ worker'.kind = "CANCELLED" /\ requests'[worker'.req].stage = "accepted" /\ requests'[worker'.req].cancel # "no"
          \/ worker'.kind = "DEADLINE_EXCEEDED" /\ requests'[worker'.req].stage = "accepted"
             /\ requests'[worker'.req].cancel # "doomed"
    BY <1>3, <1>4, <1>5, <1>6
  <2> QED BY <1>4, <2>1, <2>2, <2>3 DEF RunStory, Fits
<1> QED BY <1>9, <1>10 DEF Stories, WorkerStory

\* The job of the worker ends: the handler ran, or it got no buffer.
LEMMA RunEndKeepsLedger ==
    ASSUME LedgerInv, SlotInv', worker.pc \in {"acquire", "run"},
           worker'.pc = "free", worker'.slot = worker.slot, worker'.req = worker.req, worker'.nb = worker.nb,
           NEW stage, requests' = [requests EXCEPT ![worker.req].stage = stage],
           \/ stage = "executed" /\ worker'.kind = "RES"
           \/ stage = "lost" /\ worker'.kind = "DROPPED",
           UNCHANGED <<slots, mqtt, parked, txQ, drawn>>
    PROVE  Stories'
<1> DEFINE n == worker.req
           w == worker.slot
<1>0. /\ SlotInv /\ FramesKnown /\ SlotStory /\ WorkerStory /\ FrameStory /\ Carried /\ AckStory
  BY DEF LedgerInv, Stories
<1>1. /\ Len(requests) \in Nat /\ requests \in Seq(Request)
      /\ \A s \in JobIdx : Live(s) => slots[s].req \in 1..Len(requests)
      /\ mqtt.pc \in {"ackAcquire", "ackSubmit", "enqueue"} =>
           /\ mqtt.slot \in JobIdx /\ slots[mqtt.slot].state = "queued" /\ mqtt.req \in 1..Len(requests)
      /\ w \in JobIdx /\ slots[w].state = "running" /\ n \in 1..Len(requests)
  BY <1>0, LedgerFacts
<1>2. slots[w].req = n /\ slots[w].nb = worker.nb /\ Live(w) /\ requests[n].stage = "accepted"
  BY <1>0, <1>1 DEF WorkerStory, RunStory, Live
<1>3. /\ Len(requests') = Len(requests) /\ \A m \in 1..Len(requests) \ {n} : requests'[m] = requests[m]
      /\ requests'[n].stage = stage /\ requests'[n].cancel = requests[n].cancel
      /\ requests'[n].acked = requests[n].acked
  BY <1>1, RecordFields
<1>4. ~ Holds /\ ~ Holds'
  BY DEF Holds
<1> HIDE DEF n, w
<1>5. \A s \in JobIdx : InSlot(s, n) => s = w
  BY <1>0, <1>1, <1>2 DEF SlotStory, InSlot
<1>6. InSlot(w, n) /\ \A x \in Way : IsAnswer(x) => x.frame.req # n
  BY <1>0, <1>1, <1>2 DEF FrameStory, InSlot
<1>7. Way' = Way /\ AckFirst'
  BY <1>0 DEF AckStory, AckFirst, Way, Pend, IsAnswer, IsAck
<1>8. /\ \A s, m : InSlot(s, m)' <=> InSlot(s, m)
      /\ \A m : ~ WithWorker(m)' /\ ~ WithWorker(m)
      /\ \A m \in 1..Len(requests) : \A kind : m # n => (Fits(m, kind)' <=> Fits(m, kind))
      /\ \A y : (IsAnswer(y)' <=> IsAnswer(y)) /\ (IsAck(y)' <=> IsAck(y))
  BY <1>3, <1>4 DEF InSlot, Live, WithWorker, Fits, IsAnswer, IsAck
<1>9. FramesKnown'
  BY <1>0, <1>3, <1>7, <1>8 DEF FramesKnown
<1>10. SlotStory'
  <2>1. ASSUME NEW s \in JobIdx, slots[s].state = "queued"
        PROVE  /\ requests'[slots[s].req].stage = "accepted"
               /\ requests'[slots[s].req].cancel = "doomed" => slots[s].cancelled
    <3>1. slots[s].req \in 1..Len(requests) /\ s # w
      BY <1>1, <2>1 DEF Live
    <3>2. slots[s].req # n
      BY <1>5, <2>1, <3>1 DEF InSlot, Live
    <3>3. requests'[slots[s].req] = requests[slots[s].req]
      BY <1>3, <3>1, <3>2
    <3>4. requests[slots[s].req].stage = "accepted" /\ (requests[slots[s].req].cancel = "doomed" => slots[s].cancelled)
      BY <1>0, <2>1 DEF SlotStory
    <3> QED BY <3>3, <3>4
  <2> QED BY <1>0, <2>1 DEF SlotStory, Live
<1>11. RunStory'
  BY <1>2, <1>3 DEF RunStory, Fits, n, w
<1>12. HoldStory'
  BY <1>4 DEF HoldStory
<1>13. FrameStory'
  BY <1>0, <1>6, <1>7, <1>8 DEF FrameStory, FramesKnown
<1>14. Carried'
  <2> SUFFICES ASSUME NEW m \in 1..Len(requests), Pending(m)'
               PROVE  (\E s \in JobIdx : InSlot(s, m)') \/ \E x \in Way' : IsAnswer(x)' /\ x.frame.req = m
    BY <1>3 DEF Carried
  <2>1. CASE m = n
    BY <1>1, <1>6, <1>8, <2>1
  <2>2. CASE m # n
    <3>1. Pending(m)
      BY <1>3, <2>2 DEF Pending
    <3> QED BY <1>0, <1>7, <1>8, <3>1 DEF Carried
  <2> QED BY <2>1, <2>2
<1>15. AckStory'
  <2>1. \A m \in 1..Len(requests) :
          /\ ~ requests[m].acked => ~ requests'[m].acked
          /\ requests[m].stage \in Unanswered => requests'[m].stage \in Unanswered
    BY <1>3 DEF Unanswered
  <2>2. mqtt.pc \in {"ackAcquire", "ackSubmit"} =>
          ~ requests'[mqtt.req].acked /\ \A x \in Way : IsAck(x) => x.frame.req # mqtt.req
    BY <1>0, <1>1, <2>1 DEF AckStory
  <2>3. ASSUME NEW x \in Way, IsAck(x)
        PROVE  /\ ~ requests'[x.frame.req].acked /\ requests'[x.frame.req].stage \in Unanswered
               /\ \A y \in Way : IsAck(y) /\ y.frame.req = x.frame.req => y = x
               /\ \A s \in JobIdx : InSlot(s, x.frame.req) => slots[s].nb = x.nb
               /\ \A y \in Way : IsAnswer(y) /\ y.frame.req = x.frame.req => y.nb = x.nb
    BY <1>0, <2>1, <2>3 DEF AckStory, FramesKnown
  <2> QED BY <1>7, <1>8, <2>2, <2>3 DEF AckStory, Unanswered
<1> QED BY <1>9, <1>10, <1>11, <1>12, <1>13, <1>14, <1>15 DEF Stories, WorkerStory

\* The slot is marked free; its answer stays with the worker.
LEMMA FreeKeepsLedger ==
    ASSUME LedgerInv, SlotInv', FreeMark
    PROVE  Stories'
<1> DEFINE n == worker.req
           w == worker.slot
<1>0. /\ SlotInv /\ FramesKnown /\ SlotStory /\ WorkerStory /\ FrameStory /\ Carried /\ AckStory
  BY DEF LedgerInv, Stories
<1>1. /\ worker.pc = "free" /\ worker \in WorkerState /\ slots \in [JobIdx -> Slot]
      /\ \A s \in JobIdx : Live(s) => slots[s].req \in 1..Len(requests)
      /\ mqtt.pc \in {"ackAcquire", "ackSubmit", "enqueue"} =>
           mqtt.slot \in JobIdx /\ slots[mqtt.slot].state = "queued"
      /\ w \in JobIdx /\ slots[w].state = "running" /\ n \in 1..Len(requests)
      /\ worker.kind \in Answers \union {"DROPPED"}
  BY <1>0, LedgerFacts DEF FreeMark
<1>2. /\ slots[w].req = n /\ slots[w].nb = worker.nb /\ Live(w)
      /\ IF worker.kind = "DROPPED" THEN requests[n].stage = "lost" ELSE Fits(n, worker.kind)
  BY <1>0, <1>1 DEF WorkerStory, RunStory, Live
<1>3. /\ slots'[w].state = "free" /\ \A t \in JobIdx \ {w} : slots'[t] = slots[t]
      /\ UNCHANGED <<requests, mqtt, parked, txQ, drawn>>
  BY <1>1, SlotFields DEF FreeMark, uplinkVars
<1>4. worker'.pc = "return" /\ worker'.req = n /\ worker'.nb = worker.nb /\ worker'.kind = worker.kind
  BY <1>1 DEF FreeMark, WorkerState
<1> HIDE DEF n, w
<1>5. /\ \A s \in JobIdx : Live(s)' <=> Live(s) /\ s # w
      /\ \A s \in JobIdx, m \in Nat : InSlot(s, m)' <=> InSlot(s, m) /\ s # w
  BY <1>3 DEF Live, InSlot
<1>6. /\ \A s \in JobIdx : InSlot(s, n) => s = w
      /\ \A m \in Nat : InSlot(w, m) => m = n
      /\ \A x \in Way : IsAnswer(x) => x.frame.req # n
  BY <1>0, <1>1, <1>2 DEF SlotStory, FrameStory, InSlot
<1>7. Way' = Way /\ AckFirst'
  BY <1>0, <1>3 DEF AckStory, AckFirst, Way, Pend, IsAnswer, IsAck
<1>8. /\ \A m : ~ WithWorker(m)
      /\ \A m : WithWorker(m)' <=> m = n /\ worker.kind # "DROPPED"
      /\ \A m, kind : Fits(m, kind)' <=> Fits(m, kind)
      /\ \A y : (IsAnswer(y)' <=> IsAnswer(y)) /\ (IsAck(y)' <=> IsAck(y))
  BY <1>1, <1>3, <1>4 DEF WithWorker, Holds, Fits, IsAnswer, IsAck, Answers
<1>9. FramesKnown'
  BY <1>0, <1>3, <1>7, <1>8 DEF FramesKnown
<1>10. SlotStory'
  <2>1. \A s, t \in JobIdx : Live(s)' /\ Live(t)' /\ slots'[s].req = slots'[t].req => s = t
    BY <1>0, <1>3, <1>5 DEF SlotStory
  <2>2. \A s \in JobIdx : slots'[s].state = "queued" =>
          /\ requests[slots'[s].req].stage = "accepted"
          /\ requests[slots'[s].req].cancel = "doomed" => slots'[s].cancelled
    BY <1>0, <1>3 DEF SlotStory
  <2>3. mqtt.pc \in {"ackAcquire", "ackSubmit", "enqueue"} =>
          slots'[mqtt.slot].req = mqtt.req /\ slots'[mqtt.slot].nb = mqtt.nb
    BY <1>0, <1>1, <1>3 DEF SlotStory
  <2> QED BY <1>3, <2>1, <2>2, <2>3 DEF SlotStory
<1>11. RunStory'
  BY <1>4 DEF RunStory
<1>12. HoldStory'
  <2> SUFFICES ASSUME Holds', NEW m, m = worker'.req, NEW kind, kind = worker'.kind
               PROVE  Fits(m, kind)' /\ \A s \in JobIdx : ~ InSlot(s, m)'
    BY DEF HoldStory, Fits, InSlot
  <2>1. m = n /\ m \in Nat /\ kind = worker.kind /\ kind # "DROPPED"
    BY <1>1, <1>4 DEF Holds, Answers
  <2> QED BY <1>2, <1>5, <1>6, <1>8, <2>1
<1>13. FrameStory'
  <2> SUFFICES ASSUME NEW x \in Way, IsAnswer(x)
               PROVE  /\ Fits(x.frame.req, x.frame.type)' /\ ~ WithWorker(x.frame.req)'
                      /\ \A s \in JobIdx : ~ InSlot(s, x.frame.req)'
                      /\ \A y \in Way' : IsAnswer(y)' /\ y.frame.req = x.frame.req => y = x
    BY <1>7, <1>8 DEF FrameStory
  <2>1. x.frame.req \in Nat
    BY <1>0, <1>1 DEF FramesKnown
  <2> QED BY <1>0, <1>5, <1>6, <1>7, <1>8, <2>1 DEF FrameStory
<1>14. Carried'
  <2> SUFFICES ASSUME NEW m \in 1..Len(requests), Pending(m)'
               PROVE  (\E s \in JobIdx : InSlot(s, m)') \/ WithWorker(m)' \/ \E x \in Way' : IsAnswer(x)' /\ x.frame.req = m
    BY <1>3 DEF Carried
  <2>1. Pending(m) /\ m \in Nat
    BY <1>3 DEF Pending
  <2>2. CASE m = n
    <3>1. worker.kind # "DROPPED"
      BY <1>2, <2>1, <2>2 DEF Pending
    <3> QED BY <1>8, <2>2, <3>1
  <2>3. CASE m # n
    <3>1. (\E s \in JobIdx : InSlot(s, m)) \/ \E x \in Way : IsAnswer(x) /\ x.frame.req = m
      BY <1>0, <1>8, <2>1 DEF Carried
    <3> QED BY <1>1, <1>5, <1>6, <1>7, <1>8, <2>1, <2>3, <3>1
  <2> QED BY <2>2, <2>3
<1>15. AckStory'
  <2>1. ASSUME NEW x \in Way, IsAck(x)
        PROVE  /\ ~ requests[x.frame.req].acked /\ requests[x.frame.req].stage \in Unanswered
               /\ \A y \in Way : IsAck(y) /\ y.frame.req = x.frame.req => y = x
               /\ \A s \in JobIdx : InSlot(s, x.frame.req)' => slots'[s].nb = x.nb
               /\ WithWorker(x.frame.req)' => worker'.nb = x.nb
               /\ \A y \in Way : IsAnswer(y) /\ y.frame.req = x.frame.req => y.nb = x.nb
    <3>1. x.frame.req \in Nat
      BY <1>0, <1>1, <2>1 DEF FramesKnown
    <3>2. /\ ~ requests[x.frame.req].acked /\ requests[x.frame.req].stage \in Unanswered
          /\ \A y \in Way : IsAck(y) /\ y.frame.req = x.frame.req => y = x
          /\ \A s \in JobIdx : InSlot(s, x.frame.req) => slots[s].nb = x.nb
          /\ \A y \in Way : IsAnswer(y) /\ y.frame.req = x.frame.req => y.nb = x.nb
      BY <1>0, <2>1 DEF AckStory
    <3>3. \A s \in JobIdx : InSlot(s, x.frame.req)' => slots'[s].nb = x.nb
      BY <1>3, <1>5, <3>1, <3>2
    <3>4. WithWorker(x.frame.req)' => worker'.nb = x.nb
      BY <1>1, <1>2, <1>4, <1>8, <3>2 DEF InSlot
    <3> QED BY <3>2, <3>3, <3>4
  <2> QED BY <1>0, <1>3, <1>7, <1>8, <2>1 DEF AckStory, Unanswered
<1> QED BY <1>9, <1>10, <1>11, <1>12, <1>13, <1>14, <1>15 DEF Stories, WorkerStory

\* A request is settled: its answer was delivered, or lost on the way.
LEMMA SettleKeepsLedger ==
    ASSUME LedgerInv, SlotInv', NEW n \in 1..Len(requests), NEW stage, stage \notin {"accepted", "executed"},
           requests' = [requests EXCEPT ![n].stage = stage],
           UNCHANGED <<slots, mqtt>>, RunsSame, AckFirst',
           \A s \in JobIdx : ~ InSlot(s, n),
           Holds' => Holds /\ worker'.req = worker.req /\ worker'.nb = worker.nb /\ worker'.kind = worker.kind,
           Holds /\ worker.req # n => Holds',
           ~ WithWorker(n)',
           Way' \subseteq Way, \A x \in Way : IsAnswer(x) /\ x.frame.req # n => x \in Way',
           \A x \in Way' : IsAnswer(x) => x.frame.req # n,
           stage \in Unanswered \/ \A x \in Way' : IsAck(x) => x.frame.req # n
    PROVE  Stories'
<1>0. /\ SlotInv /\ FramesKnown /\ SlotStory /\ WorkerStory /\ FrameStory /\ Carried /\ AckStory
  BY DEF LedgerInv, Stories
<1>1. /\ Len(requests) \in Nat /\ requests \in Seq(Request)
      /\ \A s \in JobIdx : Live(s) => slots[s].req \in 1..Len(requests)
      /\ mqtt.pc \in {"ackAcquire", "ackSubmit", "enqueue"} =>
           /\ mqtt.slot \in JobIdx /\ slots[mqtt.slot].state = "queued" /\ mqtt.req \in 1..Len(requests)
      /\ worker.pc \in {"acquire", "run", "free"} =>
           /\ worker.slot \in JobIdx /\ slots[worker.slot].state = "running" /\ worker.req \in 1..Len(requests)
      /\ Holds => worker.req \in 1..Len(requests)
  BY <1>0, LedgerFacts
<1>3. /\ Len(requests') = Len(requests) /\ \A m \in 1..Len(requests) \ {n} : requests'[m] = requests[m]
      /\ requests'[n].stage = stage /\ requests'[n].acked = requests[n].acked
  BY <1>1, RecordFields
<1>4. /\ \A s, m : InSlot(s, m)' <=> InSlot(s, m)
      /\ \A m \in Nat : m # n => (WithWorker(m)' <=> WithWorker(m))
      /\ \A m \in 1..Len(requests) : \A kind : m # n => (Fits(m, kind)' <=> Fits(m, kind))
      /\ \A y : (IsAnswer(y)' <=> IsAnswer(y)) /\ (IsAck(y)' <=> IsAck(y))
  BY <1>1, <1>3 DEF InSlot, Live, WithWorker, Fits, IsAnswer, IsAck
<1>5. \A s \in JobIdx : Live(s) => slots[s].req \in 1..Len(requests) \ {n}
  BY <1>1 DEF InSlot
<1>6. FramesKnown'
  BY <1>0, <1>3, <1>4 DEF FramesKnown
<1>7. SlotStory'
  <2>1. ASSUME NEW s \in JobIdx, slots[s].state = "queued"
        PROVE  /\ requests'[slots[s].req].stage = "accepted"
               /\ requests'[slots[s].req].cancel = "doomed" => slots[s].cancelled
    <3>1. requests'[slots[s].req] = requests[slots[s].req]
      BY <1>3, <1>5, <2>1 DEF Live
    <3>2. requests[slots[s].req].stage = "accepted" /\ (requests[slots[s].req].cancel = "doomed" => slots[s].cancelled)
      BY <1>0, <2>1 DEF SlotStory
    <3> QED BY <3>1, <3>2
  <2> QED BY <1>0, <2>1 DEF SlotStory, Live
<1>8. RunStory'
  <2>1. ASSUME worker.pc \in {"acquire", "run", "free"}
        PROVE  requests'[worker.req] = requests[worker.req]
    <3>1. worker.req \in 1..Len(requests) \ {n}
      BY <1>0, <1>1, <1>5, <2>1 DEF WorkerStory, RunStory, Live
    <3> QED BY <1>3, <3>1
  <2> QED BY <1>0, <2>1 DEF WorkerStory, RunStory, RunsSame, Fits
<1>9. HoldStory'
  <2> SUFFICES ASSUME Holds', NEW m, m = worker'.req, NEW kind, kind = worker'.kind
               PROVE  Fits(m, kind)' /\ \A s \in JobIdx : ~ InSlot(s, m)'
    BY DEF HoldStory, Fits, InSlot
  <2>1. Holds /\ m = worker.req /\ kind = worker.kind /\ m # n
    BY DEF WithWorker
  <2>2. Fits(m, kind) /\ m \in 1..Len(requests) /\ \A s \in JobIdx : ~ InSlot(s, m)
    BY <1>0, <1>1, <2>1 DEF WorkerStory, HoldStory
  <2> QED BY <1>4, <2>1, <2>2
<1>10. FrameStory'
  <2> SUFFICES ASSUME NEW x \in Way', IsAnswer(x)
               PROVE  /\ Fits(x.frame.req, x.frame.type)' /\ ~ WithWorker(x.frame.req)'
                      /\ \A s \in JobIdx : ~ InSlot(s, x.frame.req)'
                      /\ \A y \in Way' : IsAnswer(y)' /\ y.frame.req = x.frame.req => y = x
    BY <1>4 DEF FrameStory
  <2>1. x \in Way /\ x.frame.req \in 1..Len(requests) /\ x.frame.req \in Nat /\ x.frame.req # n
    BY <1>0, <1>1 DEF FramesKnown
  <2> QED BY <1>0, <1>4, <2>1 DEF FrameStory
<1>11. Carried'
  <2> SUFFICES ASSUME NEW m \in 1..Len(requests), Pending(m)'
               PROVE  (\E s \in JobIdx : InSlot(s, m)') \/ WithWorker(m)' \/ \E x \in Way' : IsAnswer(x)' /\ x.frame.req = m
    BY <1>3 DEF Carried
  <2>1. m # n /\ m \in Nat
    BY <1>3 DEF Pending
  <2>2. Pending(m)
    BY <1>3, <2>1 DEF Pending
  <2>3. (\E s \in JobIdx : InSlot(s, m)) \/ WithWorker(m) \/ \E x \in Way : IsAnswer(x) /\ x.frame.req = m
    BY <1>0, <2>2 DEF Carried
  <2> QED BY <1>4, <2>1, <2>3
<1>12. AckStory'
  <2>1. \A m \in 1..Len(requests) :
          /\ ~ requests[m].acked => ~ requests'[m].acked
          /\ requests[m].stage \in Unanswered /\ m # n => requests'[m].stage \in Unanswered
    BY <1>3
  <2>2. mqtt.pc \in {"ackAcquire", "ackSubmit"} =>
          ~ requests'[mqtt.req].acked /\ \A x \in Way' : IsAck(x) => x.frame.req # mqtt.req
    BY <1>0, <1>1, <2>1 DEF AckStory
  <2>3. ASSUME NEW x \in Way', IsAck(x)
        PROVE  /\ ~ requests'[x.frame.req].acked /\ requests'[x.frame.req].stage \in Unanswered
               /\ \A y \in Way' : IsAck(y) /\ y.frame.req = x.frame.req => y = x
               /\ \A s \in JobIdx : InSlot(s, x.frame.req) => slots[s].nb = x.nb
               /\ WithWorker(x.frame.req)' => worker'.nb = x.nb
               /\ \A y \in Way' : IsAnswer(y) /\ y.frame.req = x.frame.req => y.nb = x.nb
    <3>1. x \in Way /\ x.frame.req \in 1..Len(requests)
      BY <1>0, <2>3 DEF FramesKnown
    <3>2. /\ ~ requests[x.frame.req].acked /\ requests[x.frame.req].stage \in Unanswered
          /\ \A y \in Way : IsAck(y) /\ y.frame.req = x.frame.req => y = x
          /\ \A s \in JobIdx : InSlot(s, x.frame.req) => slots[s].nb = x.nb
          /\ WithWorker(x.frame.req) => worker.nb = x.nb
          /\ \A y \in Way : IsAnswer(y) /\ y.frame.req = x.frame.req => y.nb = x.nb
      BY <1>0, <2>3, <3>1 DEF AckStory
    <3>3. requests'[x.frame.req].stage \in Unanswered
      BY <1>3, <2>1, <2>3, <3>1, <3>2
    <3>4. WithWorker(x.frame.req)' => worker'.nb = x.nb
      BY <3>2 DEF WithWorker
    <3> QED BY <2>1, <3>1, <3>2, <3>3, <3>4
  <2> QED BY <1>4, <2>2, <2>3 DEF AckStory, Unanswered
<1> QED BY <1>6, <1>7, <1>8, <1>9, <1>10, <1>11, <1>12 DEF Stories, WorkerStory

\* The worker got its answer into the uplink.
LEMMA SubmitKeepsLedger ==
    ASSUME LedgerInv, SlotInv', Holds, worker'.pc = "idle", UNCHANGED <<slots, requests, mqtt>>,
           NEW x, x.frame.type = worker.kind, x.frame.req = worker.req, x.nb = worker.nb,
           Way' = Way \union {x}, AckFirst'
    PROVE  Stories'
<1> DEFINE n == worker.req
<1>0. /\ SlotInv /\ FramesKnown /\ SlotStory /\ WorkerStory /\ FrameStory /\ Carried /\ AckStory
  BY DEF LedgerInv, Stories
<1>1. n \in 1..Len(requests)
  BY <1>0, LedgerFacts
<1>2. Fits(n, worker.kind) /\ \A s \in JobIdx : ~ InSlot(s, n)
  BY <1>0 DEF WorkerStory, HoldStory
<1>3. /\ IsAnswer(x) /\ ~ IsAck(x) /\ WithWorker(n)
      /\ \A m : ~ WithWorker(m)'
      /\ \A y \in Way : IsAnswer(y) => y.frame.req # n
      /\ \A y \in Way : IsAck(y) /\ y.frame.req = n => y.nb = x.nb
  <2>1. IsAnswer(x) /\ ~ IsAck(x) /\ WithWorker(n)
    BY DEF IsAnswer, IsAck, Holds, WithWorker, Answers
  <2>2. \A m : ~ WithWorker(m)'
    BY DEF Holds, WithWorker
  <2> QED BY <1>0, <2>1, <2>2 DEF FrameStory, AckStory
<1> HIDE DEF n
<1>4. x.frame.req = n /\ x.frame.type = worker.kind
  BY DEF n
<1>5. /\ \A s, m : InSlot(s, m)' <=> InSlot(s, m)
      /\ \A m, kind : Fits(m, kind)' <=> Fits(m, kind)
      /\ \A y : (IsAnswer(y)' <=> IsAnswer(y)) /\ (IsAck(y)' <=> IsAck(y))
      /\ \A m : Pending(m)' <=> Pending(m)
  BY DEF InSlot, Live, Fits, IsAnswer, IsAck, Pending
<1>6. FramesKnown'
  BY <1>0, <1>1, <1>4, <1>5 DEF FramesKnown
<1>7. SlotStory'
  BY <1>0 DEF SlotStory, Live
<1>8. RunStory' /\ HoldStory'
  BY DEF RunStory, HoldStory, Holds
<1>9. FrameStory'
  BY <1>0, <1>2, <1>3, <1>4, <1>5 DEF FrameStory
<1>10. Carried'
  <2> SUFFICES ASSUME NEW m \in 1..Len(requests), Pending(m)
               PROVE  (\E s \in JobIdx : InSlot(s, m)) \/ \E y \in Way' : IsAnswer(y) /\ y.frame.req = m
    BY <1>5 DEF Carried
  <2>1. (\E s \in JobIdx : InSlot(s, m)) \/ WithWorker(m) \/ \E y \in Way : IsAnswer(y) /\ y.frame.req = m
    BY <1>0 DEF Carried
  <2>2. WithWorker(m) => m = n
    BY DEF WithWorker, n
  <2> QED BY <1>3, <1>4, <2>1, <2>2
<1>11. AckStory'
  <2>1. mqtt.pc \in {"ackAcquire", "ackSubmit"} =>
          ~ requests[mqtt.req].acked /\ \A y \in Way' : IsAck(y) => y.frame.req # mqtt.req
    BY <1>0, <1>3 DEF AckStory
  <2>2. ASSUME NEW z \in Way', IsAck(z)
        PROVE  /\ ~ requests[z.frame.req].acked /\ requests[z.frame.req].stage \in Unanswered
               /\ \A y \in Way' : IsAck(y) /\ y.frame.req = z.frame.req => y = z
               /\ \A s \in JobIdx : InSlot(s, z.frame.req) => slots[s].nb = z.nb
               /\ \A y \in Way' : IsAnswer(y) /\ y.frame.req = z.frame.req => y.nb = z.nb
    <3>1. z \in Way
      BY <1>3, <2>2
    <3>2. /\ ~ requests[z.frame.req].acked /\ requests[z.frame.req].stage \in Unanswered
          /\ \A y \in Way : IsAck(y) /\ y.frame.req = z.frame.req => y = z
          /\ \A s \in JobIdx : InSlot(s, z.frame.req) => slots[s].nb = z.nb
          /\ \A y \in Way : IsAnswer(y) /\ y.frame.req = z.frame.req => y.nb = z.nb
      BY <1>0, <2>2, <3>1 DEF AckStory
    <3> QED BY <1>3, <1>4, <2>2, <3>1, <3>2
  <2>3. slots' = slots /\ requests' = requests /\ mqtt' = mqtt
    OBVIOUS
  <2> QED BY <1>3, <1>5, <2>1, <2>2, <2>3 DEF AckStory, Unanswered
<1> QED BY <1>6, <1>7, <1>8, <1>9, <1>10, <1>11 DEF Stories, WorkerStory

-----------------------------------------------------------------------------
(* Every step.                                                             *)

\* Nothing was accepted yet.
LEMMA InitHasLedgerInv == Init => LedgerInv
<1> SUFFICES ASSUME Init PROVE LedgerInv
  OBVIOUS
<1>1. SlotInv
  BY InitHasSlotInv
<1>2. /\ \A s \in JobIdx : slots[s].req = 0 /\ slots[s].state = "free"
      /\ mqtt.pc = "idle" /\ worker.pc = "idle" /\ Len(requests) = 0
      /\ txQ = <<>> /\ parked = <<>> /\ drawn = <<>>
  BY DEF Init, ServerInit, MqttIdle, WorkerIdle, UplinkInit
<1>3. /\ \A s \in JobIdx : ~ Live(s) /\ slots[s].state # "queued"
      /\ ~ Holds
  BY <1>2 DEF Live, Holds
<1>4. Pend = <<>> /\ Way = {} /\ ToSet(drawn) = {} /\ Len(Pend) = 0
  <2>1. Pend = <<>>
    BY <1>2, ConcatEmptySeq DEF Pend
  <2> QED BY <1>2, <2>1 DEF Way, ToSet
<1>5. AckFirst
  BY <1>4 DEF AckFirst
<1>6. FramesKnown /\ SlotStory /\ FrameStory /\ AckStory
  BY <1>2, <1>3, <1>4, <1>5 DEF FramesKnown, SlotStory, FrameStory, AckStory
<1>7. WorkerStory /\ Carried
  BY <1>2, <1>3 DEF WorkerStory, RunStory, HoldStory, Carried
<1> QED BY <1>1, <1>6, <1>7 DEF LedgerInv, Stories

\* A step that leaves slots, requests and the answers on their way alone.
LEMMA CalmKeepsLedger ==
    ASSUME LedgerInv, SlotInv', UNCHANGED <<slots, requests>>, RunsSame, HoldSame, MqttSame, AckFirst',
           \A x \in Way' : IsAnswer(x) \/ IsAck(x) => x \in Way,
           \A x \in Way : IsAnswer(x) => x \in Way'
    PROVE  Stories'
<1>1. SlotsSame
  BY DEF SlotsSame, Live
<1>2. /\ FramesKnown' /\ SlotStory' /\ HoldStory' /\ FrameStory' /\ Carried' /\ AckStory'
      /\ RunsSame => RunStory'
  BY <1>1, QuietKeepsLedger
<1> QED BY <1>2 DEF Stories, WorkerStory

\* A step that does not touch the queues of the uplink either.
LEMMA StillKeepsLedger ==
    ASSUME LedgerInv, SlotInv', UNCHANGED <<slots, requests, parked, txQ, drawn>>, RunsSame, HoldSame, MqttSame
    PROVE  Stories'
<1>1. Way' = Way /\ Pend' = Pend
  BY DEF Way, Pend
<1>2. AckFirst
  BY DEF LedgerInv, Stories, AckStory
<1>3. AckFirst'
  BY <1>1, <1>2 DEF AckFirst, IsAck, IsAnswer
<1> QED BY <1>1, <1>3, CalmKeepsLedger

\* A frame of the server always gets into the uplink: it is sane, and tx_
\* has room for everybody who holds a buffer.
LEMMA SubmitGoes ==
    ASSUME UplinkInv, NEW p \in Producers, NEW frame \in ReplyFrames, NEW nb \in Nat, Submit(p, frame, nb)
    PROVE  /\ frame \in Frames /\ frame \in SaneFrames /\ Len(txQ) < UplinkSlots
           /\ txQ' = Append(txQ, [slot |-> held[p], nb |-> nb, frame |-> frame])
<1>1. frame \in Frames /\ frame \in SaneFrames
  BY ServerAssumption
<1>2. held[p] # NoSlot
  BY DEF Submit, Release
<1>3. Len(txQ) < UplinkSlots
  BY <1>2, InvGivesRoom DEF NeverFull
<1> QED BY <1>1, <1>3 DEF Submit

\* onDownlink() up to the job queue, and the two halves of handleCancel().
LEMMA MqttKeepsLedger ==
    ASSUME LedgerInv, SlotInv', Mqtt
    PROVE  Stories'
<1>0. /\ SlotInv /\ Inv /\ UplinkInv /\ mqtt \in MqttState /\ AckFirst /\ FrameStory /\ SlotStory
      /\ requests \in Seq(Request) /\ slots \in [JobIdx -> Slot] /\ Len(requests) \in Nat
      /\ MqttIdle.pc = "idle" /\ MqttIdle \in MqttState
      /\ \A s \in JobIdx : Live(s) => slots[s].req \in 1..Len(requests)
  <2>1. SlotInv /\ AckFirst /\ FrameStory /\ SlotStory
    BY DEF LedgerInv, Stories, AckStory
  <2>2. Inv /\ UplinkInv
    BY <2>1 DEF SlotInv, Inv
  <2> QED BY <2>1, <2>2, LedgerFacts, IdleTypes
<1>1. ASSUME UNCHANGED worker PROVE RunsSame /\ HoldSame
  BY <1>1 DEF RunsSame, HoldSame, Holds
<1>2. ASSUME UNCHANGED <<slots, requests, parked, txQ, drawn, worker>>, MqttSame PROVE Stories'
  BY <1>1, <1>2, StillKeepsLedger
<1>3. ASSUME mqtt'.pc \in {"idle", "errAcquire", "errSubmit", "cancel"} PROVE MqttSame
  BY <1>3 DEF MqttSame
<1>4. ASSUME NEW nb, SendRefusal(nb) PROVE Stories'
  <2>1. mqtt'.pc = "errAcquire"
    BY <1>0, <1>4 DEF SendRefusal, MqttState
  <2> QED BY <1>2, <1>3, <1>4, <2>1 DEF SendRefusal, uplinkVars
<1>5. CASE MqttBuffer
  <2>1. MqttSame
    BY <1>0, <1>5 DEF MqttBuffer, MqttSame, MqttState
  <2> QED BY <1>2, <1>5, <2>1 DEF MqttBuffer, Acquire
<1>6. CASE MqttNoBuffer
  <2>1. MqttSame
    <3>1. CASE mqtt.pc = "ackAcquire"
      BY <1>0, <1>6, <3>1 DEF MqttNoBuffer, MqttSame, MqttState
    <3>2. CASE mqtt.pc # "ackAcquire"
      BY <1>0, <1>3, <1>6, <3>2 DEF MqttNoBuffer
    <3> QED BY <3>1, <3>2
  <2> QED BY <1>2, <1>6, <2>1 DEF MqttNoBuffer, uplinkVars
<1>7. CASE Enqueue
  <2>1. mqtt' = MqttIdle /\ UNCHANGED <<slots, requests>>
    BY <1>0, <1>7, OwnersGiveRoom DEF Inv, JobQueueHasRoom, Enqueue
  <2> QED BY <1>0, <1>2, <1>3, <1>7, <2>1 DEF Enqueue, uplinkVars
<1>8. CASE MqttSubmit
  <2>0. UNCHANGED <<slots, requests, worker>>
    BY <1>8 DEF MqttSubmit
  <2>1. CASE mqtt.pc = "ackSubmit" /\ Submit("mqtt", Frame("ACK", mqtt.req), mqtt.nb) /\ mqtt' = [mqtt EXCEPT !.pc = "enqueue"]
    <3> DEFINE frame == Frame("ACK", mqtt.req)
    <3>1. mqtt.nb \in Nat /\ "mqtt" \in Producers
      BY <1>0, Bounds DEF MqttState
    <3>2. mqtt.req \in 1..Len(requests) /\ mqtt.req # 0
      BY <1>0, <2>1, LedgerFacts
    <3>3. frame \in ReplyFrames
      BY <1>0, <3>2 DEF Frame, ReplyFrames, Kinds, MqttState
    <3>4. frame.type = "ACK" /\ frame.req = mqtt.req
      BY DEF Frame
    <3> HIDE DEF frame
    <3>5. Submit("mqtt", frame, mqtt.nb)
      BY <2>1 DEF frame
    <3>6. frame \in Frames /\ frame \in SaneFrames /\ Len(txQ) < UplinkSlots
      BY <1>0, <3>1, <3>3, <3>5, SubmitGoes
    <3>7. PICK x : /\ x.frame = frame /\ x.nb = mqtt.nb
                   /\ Way' = Way \union {x}
                   /\ AckFirst /\ (IsAck(x) => \A y \in Way : IsAnswer(y) => y.frame.req # x.frame.req) => AckFirst'
      BY <1>0, <3>1, <3>5, <3>6, WayAfterSubmit
    <3>8. IsAck(x) /\ x.frame.req = mqtt.req
      BY <3>4, <3>7 DEF IsAck
    <3> QED BY <2>0, <2>1, <3>7, <3>8, AckKeepsLedger
  <2>2. CASE Submit("mqtt", Frame("OTHER", 0), mqtt.nb) /\ mqtt' = MqttIdle
    <3> DEFINE frame == Frame("OTHER", 0)
    <3>1. mqtt.nb \in Nat /\ "mqtt" \in Producers
      BY <1>0, Bounds DEF MqttState
    <3>3. frame \in ReplyFrames
      BY Bounds DEF Frame, ReplyFrames, Kinds
    <3>4. frame.type = "OTHER"
      BY DEF Frame
    <3> HIDE DEF frame
    <3>5. Submit("mqtt", frame, mqtt.nb)
      BY <2>2 DEF frame
    <3>6. frame \in Frames /\ frame \in SaneFrames /\ Len(txQ) < UplinkSlots
      BY <1>0, <3>1, <3>3, <3>5, SubmitGoes
    <3>7. PICK x : /\ x.frame = frame /\ x.nb = mqtt.nb
                   /\ Way' = Way \union {x}
                   /\ AckFirst /\ (IsAck(x) => \A y \in Way : IsAnswer(y) => y.frame.req # x.frame.req) => AckFirst'
      BY <1>0, <3>1, <3>5, <3>6, WayAfterSubmit
    <3>8. ~ IsAck(x) /\ ~ IsAnswer(x)
      BY <3>4, <3>7 DEF IsAck, IsAnswer, Answers
    <3>9. MqttSame
      BY <1>0, <1>3, <2>2
    <3> QED BY <1>0, <1>1, <2>0, <3>7, <3>8, <3>9, CalmKeepsLedger
  <2> QED BY <1>8, <2>1, <2>2 DEF MqttSubmit
<1>9. ASSUME NEW rid \in Rids, CancelLook(rid) PROVE Stories'
  <2>0. UNCHANGED <<slots, worker, parked, txQ, drawn>>
    BY <1>9 DEF CancelLook, uplinkVars
  <2>1. PICK s \in JobIdx :
          /\ Matches(s, rid)
          /\ mqtt' = [MqttIdle EXCEPT !.pc = "cancel", !.slot = s]
          /\ requests' = [requests EXCEPT ![slots[s].req].cancel = IF @ = "no" THEN "asked" ELSE @]
    BY <1>9 DEF CancelLook
  <2> DEFINE n == slots[s].req
             x == IF requests[n].cancel = "no" THEN "asked" ELSE requests[n].cancel
  <2>2. n \in 1..Len(requests)
    BY <1>0, <2>1 DEF Matches
  <2>3. requests' = [requests EXCEPT ![n].cancel = x] /\ x # "no" /\ (x = "doomed" => requests[n].cancel = "doomed")
    BY <2>1
  <2> HIDE DEF n, x
  <2>4. /\ Len(requests') = Len(requests) /\ \A m \in 1..Len(requests) \ {n} : requests'[m] = requests[m]
        /\ requests'[n].cancel = x /\ requests'[n].stage = requests[n].stage /\ requests'[n].acked = requests[n].acked
    BY <1>0, <2>2, <2>3, RecordFields
  <2>5. mqtt'.pc = "cancel"
    BY <1>0, <2>1 DEF MqttState
  <2>6. MqttSame /\ SlotsSame /\ RunsSame /\ HoldSame
    BY <1>1, <1>3, <2>0, <2>5 DEF SlotsSame, Live
  <2>7. Way' = Way /\ AckFirst'
    BY <1>0, <2>0 DEF AckFirst, IsAck, IsAnswer, Way, Pend
  <2>8. \A m \in 1..Len(requests) :
          /\ requests'[m].stage = requests[m].stage
          /\ requests[m].cancel # "no" => requests'[m].cancel # "no"
          /\ requests'[m].cancel = "doomed" => requests[m].cancel = "doomed"
          /\ requests'[m].acked => requests[m].acked
    <3>1. \A m \in 1..Len(requests) \ {n} : requests'[m].acked => requests[m].acked
      BY <2>4
    <3>2. requests'[n].acked => requests[n].acked
      BY <2>4
    <3>3. \A m \in 1..Len(requests) : requests'[m].acked => requests[m].acked
      BY <3>1, <3>2
    <3> QED BY <2>3, <2>4, <3>3
  <2>9. /\ FramesKnown' /\ SlotStory' /\ HoldStory' /\ FrameStory' /\ Carried' /\ AckStory' /\ RunStory'
    BY <2>4, <2>6, <2>7, <2>8, QuietKeepsLedger
  <2> QED BY <2>9 DEF Stories, WorkerStory
<1>10. CASE CancelMark
  <2> DEFINE s == mqtt.slot
             n == slots[s].req
  <2>0. UNCHANGED <<worker, parked, txQ, drawn>> /\ mqtt' = MqttIdle
    BY <1>10 DEF CancelMark, uplinkVars
  <2>1. s \in JobIdx
    BY <1>0, <1>10 DEF CancelMark, Inv, LocalsOK
  <2>2. /\ slots'[s].cancelled /\ slots'[s].state = slots[s].state /\ slots'[s].req = slots[s].req
        /\ slots'[s].nb = slots[s].nb /\ \A t \in JobIdx \ {s} : slots'[t] = slots[t]
    BY <1>0, <1>10, <2>1, SlotFields DEF CancelMark
  <2>3. /\ slots[s].state = "queued" => n \in 1..Len(requests) /\ requests' = [requests EXCEPT ![n].cancel = "doomed"]
        /\ slots[s].state # "queued" => requests' = requests
    BY <1>0, <1>10, <2>1 DEF CancelMark, Live
  <2> HIDE DEF s
  <2>4. SlotsSame
    <3>1. \A t \in JobIdx : /\ slots'[t].state = slots[t].state /\ slots'[t].req = slots[t].req /\ slots'[t].nb = slots[t].nb
      BY <2>2
    <3>2. \A t \in JobIdx : slots[t].cancelled => slots'[t].cancelled
      BY <2>2
    <3> QED BY <3>1, <3>2 DEF SlotsSame, Live
  <2>6. MqttSame /\ RunsSame /\ HoldSame
    BY <1>0, <1>1, <1>3, <2>0
  <2>7. Way' = Way /\ AckFirst'
    BY <1>0, <2>0 DEF AckFirst, IsAck, IsAnswer, Way, Pend
  <2>8. /\ Len(requests') = Len(requests)
        /\ \A m \in 1..Len(requests) :
             /\ requests'[m].stage = requests[m].stage
             /\ requests[m].cancel # "no" => requests'[m].cancel # "no"
             /\ requests'[m].cancel = "doomed" =>
                  \/ requests[m].cancel = "doomed"
                  \/ \E t \in JobIdx : slots[t].state = "queued" /\ slots[t].req = m /\ slots'[t].cancelled
             /\ requests'[m].acked => requests[m].acked
    <3>1. CASE slots[s].state = "queued"
      <4>1. /\ Len(requests') = Len(requests) /\ \A m \in 1..Len(requests) \ {n} : requests'[m] = requests[m]
            /\ requests'[n].cancel = "doomed" /\ requests'[n].stage = requests[n].stage
            /\ requests'[n].acked = requests[n].acked
        <5> HIDE DEF n
        <5>1. n \in 1..Len(requests) /\ requests' = [requests EXCEPT ![n].cancel = "doomed"]
          BY <2>3, <3>1
        <5> QED BY <1>0, <5>1, RecordFields
      <4>2. \E t \in JobIdx : slots[t].state = "queued" /\ slots[t].req = n /\ slots'[t].cancelled
        BY <2>1, <2>2, <3>1
      <4>3. \A m \in 1..Len(requests) \ {n} : requests'[m].acked => requests[m].acked
        BY <4>1
      <4>4. requests'[n].acked => requests[n].acked
        BY <4>1
      <4>5. \A m \in 1..Len(requests) : requests'[m].acked => requests[m].acked
        BY <4>3, <4>4
      <4> HIDE DEF n
      <4> QED BY <4>1, <4>2, <4>5
    <3>2. CASE slots[s].state # "queued"
      BY <2>3, <3>2
    <3> QED BY <3>1, <3>2
  <2>9. /\ FramesKnown' /\ SlotStory' /\ HoldStory' /\ FrameStory' /\ Carried' /\ AckStory' /\ RunStory'
    BY <2>4, <2>6, <2>7, <2>8, QuietKeepsLedger
  <2> QED BY <2>9 DEF Stories, WorkerStory
<1>11. ASSUME NEW h \in Headers, NEW nb \in NotBefore(h), OnAccepted(h, nb) PROVE Stories'
  BY <1>11, ClaimKeepsLedger
<1> QED BY <1>4, <1>5, <1>6, <1>7, <1>8, <1>9, <1>10, <1>11 DEF Mqtt, OnRejected, OnDuplicate, OnBusy

\* The worker from the job queue to the uplink.
LEMMA WorkerKeepsLedger ==
    ASSUME LedgerInv, SlotInv', Worker
    PROVE  Stories'
<1>0. /\ SlotInv /\ Inv /\ UplinkInv /\ worker \in WorkerState /\ AckFirst /\ LocalsOK /\ RunStory /\ HoldStory /\ FrameStory
      /\ WorkerIdle.pc = "idle" /\ WorkerIdle \in WorkerState
  <2>1. SlotInv /\ AckFirst /\ RunStory /\ HoldStory /\ FrameStory
    BY DEF LedgerInv, Stories, AckStory, WorkerStory
  <2>2. Inv /\ UplinkInv /\ LocalsOK
    BY <2>1 DEF SlotInv, Inv
  <2> QED BY <2>1, <2>2, LedgerFacts, IdleTypes
<1>1. ASSUME UNCHANGED mqtt PROVE MqttSame
  BY <1>1 DEF MqttSame
<1>2. ASSUME UNCHANGED <<slots, requests, parked, txQ, drawn, mqtt>>, RunsSame, HoldSame PROVE Stories'
  BY <1>1, <1>2, StillKeepsLedger
<1>3. ASSUME ~ Holds, worker'.pc \notin {"acquire", "run", "free"}, ~ Holds' PROVE RunsSame /\ HoldSame
  BY <1>3 DEF RunsSame, HoldSame
<1>4. ASSUME worker'.pc \in {"idle", "tick", "start"} PROVE ~ Holds'
  BY <1>4 DEF Holds
<1>5. CASE WorkerReceive
  <2>1. ~ Holds /\ worker'.pc \in {"tick", "start"}
    BY <1>0, <1>5 DEF WorkerReceive, WorkerState, Holds
  <2> QED BY <1>2, <1>3, <1>4, <1>5, <2>1 DEF WorkerReceive, uplinkVars
<1>6. CASE WorkerTick
  <2>1. worker' = WorkerIdle \/ worker' = [WorkerIdle EXCEPT !.pc = "replyAcquire", !.kind = "OTHER"]
    BY <1>6 DEF WorkerTick
  <2>2. worker'.pc = "idle" \/ (worker'.pc = "replyAcquire" /\ worker'.kind = "OTHER")
    BY <1>0, <2>1 DEF WorkerState
  <2>3. ~ Holds /\ ~ Holds' /\ worker'.pc \notin {"acquire", "run", "free"}
    BY <1>6, <2>2 DEF WorkerTick, Holds, Answers
  <2> QED BY <1>2, <1>3, <1>6, <2>3 DEF WorkerTick, uplinkVars
<1>7. CASE JobStart
  BY <1>7, StartKeepsLedger
<1>8. CASE WorkerBuffer
  <2>1. /\ worker'.slot = worker.slot /\ worker'.req = worker.req /\ worker'.nb = worker.nb /\ worker'.kind = worker.kind
        /\ \/ worker.pc = "acquire" /\ worker'.pc = "run"
           \/ worker.pc = "replyAcquire" /\ worker'.pc = "submit"
    BY <1>0, <1>8 DEF WorkerBuffer, WorkerState
  <2>2. RunsSame /\ HoldSame
    BY <2>1 DEF RunsSame, HoldSame, Holds
  <2> QED BY <1>2, <1>8, <2>2 DEF WorkerBuffer, Acquire
<1>9. CASE WorkerNoBuffer /\ worker.pc = "acquire"
  <2>1. worker' = [worker EXCEPT !.pc = "free", !.kind = "DROPPED"] /\ requests' = Reach(worker.req, "lost") /\ worker.req # 0
    BY <1>0, <1>9 DEF WorkerNoBuffer, LocalsOK
  <2>2. requests' = [requests EXCEPT ![worker.req].stage = "lost"]
    BY <2>1 DEF Reach
  <2>3. worker'.pc = "free" /\ worker'.kind = "DROPPED" /\ worker'.slot = worker.slot /\ worker'.req = worker.req
        /\ worker'.nb = worker.nb
    BY <1>0, <2>1 DEF WorkerState
  <2> QED BY <1>9, <2>2, <2>3, RunEndKeepsLedger DEF WorkerNoBuffer, uplinkVars
<1>10. CASE RunHandler
  <2>1. worker' = [worker EXCEPT !.pc = "free"] /\ requests' = Reach(worker.req, "executed") /\ worker.req # 0
        /\ worker.kind = "RES"
    BY <1>0, <1>10 DEF RunHandler, LocalsOK
  <2>2. requests' = [requests EXCEPT ![worker.req].stage = "executed"]
    BY <2>1 DEF Reach
  <2>3. worker'.pc = "free" /\ worker'.kind = "RES" /\ worker'.slot = worker.slot /\ worker'.req = worker.req
        /\ worker'.nb = worker.nb
    BY <1>0, <2>1 DEF WorkerState
  <2> QED BY <1>10, <2>2, <2>3, RunEndKeepsLedger DEF RunHandler, uplinkVars
<1>11. CASE FreeMark
  BY <1>11, FreeKeepsLedger
<1>12. CASE FreeReturn
  <2>1. CASE worker.kind = "DROPPED"
    <3>1. worker' = WorkerIdle /\ ~ Holds
      BY <1>12, <2>1 DEF FreeReturn, Holds, Answers
    <3> QED BY <1>0, <1>2, <1>3, <1>4, <1>12, <3>1 DEF FreeReturn, uplinkVars
  <2>2. CASE worker.kind # "DROPPED"
    <3>1. worker' = [worker EXCEPT !.slot = NoSlot, !.pc = IF worker.kind = "RES" THEN "submit" ELSE "replyAcquire"]
      BY <1>12, <2>2 DEF FreeReturn
    <3>2. /\ worker'.pc \in {"submit", "replyAcquire"} /\ worker.pc = "return"
          /\ worker'.req = worker.req /\ worker'.nb = worker.nb /\ worker'.kind = worker.kind
      BY <1>0, <1>12, <3>1 DEF WorkerState, FreeReturn
    <3>3. RunsSame /\ HoldSame
      BY <3>2 DEF RunsSame, HoldSame, Holds
    <3> QED BY <1>2, <1>12, <3>3 DEF FreeReturn, uplinkVars
  <2> QED BY <2>1, <2>2
<1>13. ASSUME worker.pc \in {"replyAcquire", "submit"}, worker' = WorkerIdle, requests' = Reach(worker.req, "lost"),
              UNCHANGED <<slots, mqtt, parked, txQ, drawn>>
       PROVE  Stories'
  <2>0. worker'.pc = "idle" /\ ~ Holds' /\ RunsSame
    BY <1>0, <1>4, <1>13 DEF RunsSame
  <2>1. CASE worker.kind = "OTHER"
    <3>1. worker.req = 0 /\ ~ Holds
      BY <1>0, <1>13, <2>1 DEF LocalsOK, Holds, Answers
    <3>2. requests' = requests
      BY <1>13, <3>1 DEF Reach
    <3> QED BY <1>2, <1>3, <1>13, <2>0, <3>1, <3>2
  <2>2. CASE worker.kind # "OTHER"
    <3>1. Holds /\ worker.req # 0
      BY <1>0, <1>13, <2>2 DEF LocalsOK, Holds
    <3>2. worker.req \in 1..Len(requests) /\ WithWorker(worker.req) /\ \A s \in JobIdx : ~ InSlot(s, worker.req)
      BY <1>0, <3>1, LedgerFacts DEF HoldStory, WithWorker
    <3>3. requests' = [requests EXCEPT ![worker.req].stage = "lost"]
      BY <1>13, <3>1 DEF Reach
    <3>4. Way' = Way /\ AckFirst'
      BY <1>0, <1>13 DEF AckFirst, IsAck, IsAnswer, Way, Pend
    <3>5. \A x \in Way : IsAnswer(x) => x.frame.req # worker.req
      BY <1>0, <3>2 DEF FrameStory
    <3>6. \A n : ~ WithWorker(n)'
      BY <2>0 DEF WithWorker
    <3> SUFFICES ASSUME NEW n \in 1..Len(requests), n = worker.req
                 PROVE  Stories'
      BY <3>2
    <3>7. requests' = [requests EXCEPT ![n].stage = "lost"]
          /\ (\A s \in JobIdx : ~ InSlot(s, n)) /\ (Holds /\ worker.req # n => Holds')
          /\ \A x \in Way' : IsAnswer(x) => x.frame.req # n
      BY <3>2, <3>3, <3>4, <3>5
    <3>8. ~ WithWorker(n)' /\ "lost" \in Unanswered /\ "lost" \notin {"accepted", "executed"}
      BY <3>6 DEF Unanswered
    <3> QED BY <1>13, <2>0, <3>4, <3>7, <3>8, SettleKeepsLedger
  <2> QED BY <2>1, <2>2
<1>14. CASE WorkerNoBuffer /\ worker.pc = "replyAcquire"
  BY <1>13, <1>14 DEF WorkerNoBuffer, uplinkVars
<1>15. CASE WorkerSubmit
  <2>1. worker.pc = "submit" /\ worker' = WorkerIdle /\ UNCHANGED <<slots, mqtt>>
    BY <1>15 DEF WorkerSubmit
  <2>2. CASE Release("worker")
    BY <1>13, <1>15, <2>1, <2>2 DEF WorkerSubmit, Release
  <2>3. CASE Submit("worker", Frame(worker.kind, worker.req), worker.nb)
    <3> DEFINE frame == Frame(worker.kind, worker.req)
               y == [slot |-> held["worker"], nb |-> worker.nb, frame |-> frame]
    <3>1. worker.nb \in Nat /\ "worker" \in Producers
      BY <1>0, Bounds DEF WorkerState
    <3>2. worker.kind \in Answers \union {"OTHER"} /\ (worker.kind = "OTHER" <=> worker.req = 0)
      BY <1>0, <2>1 DEF LocalsOK
    <3>3. frame \in ReplyFrames
      BY <1>0, <3>2 DEF Frame, ReplyFrames, Kinds, Answers, WorkerState
    <3>4. frame.type = worker.kind /\ frame.req = worker.req
      BY DEF Frame
    <3> HIDE DEF frame
    <3>5. Submit("worker", frame, worker.nb)
      BY <2>3 DEF frame
    <3>6. frame \in Frames /\ frame \in SaneFrames /\ Len(txQ) < UplinkSlots /\ txQ' = Append(txQ, y)
      BY <1>0, <3>1, <3>3, <3>5, SubmitGoes
    <3>7. requests' = requests
      <4>1. txQ \in Seq(TxItem) /\ y \in TxItem
        BY <1>0, <3>1, <3>5, <3>6, SubmitQueues DEF UplinkInv, UplinkTypeOK
      <4> HIDE DEF y
      <4>2. Len(txQ') = Len(txQ) + 1 /\ Len(txQ) \in Nat
        BY <3>6, <4>1, AppendProperties
      <4>3. txQ' # txQ
        BY <4>2
      <4> QED BY <1>15, <4>3 DEF WorkerSubmit
    <3>8. PICK x : /\ x.frame = frame /\ x.nb = worker.nb
                   /\ Way' = Way \union {x}
                   /\ AckFirst /\ (IsAck(x) => \A z \in Way : IsAnswer(z) => z.frame.req # x.frame.req) => AckFirst'
      BY <1>0, <3>1, <3>5, <3>6, WayAfterSubmit
    <3>9. ~ IsAck(x) /\ AckFirst'
      BY <1>0, <3>2, <3>4, <3>8 DEF IsAck, Answers
    <3>10. worker'.pc = "idle" /\ ~ Holds'
      BY <1>0, <1>4, <2>1
    <3>11. CASE worker.kind = "OTHER"
      <4>1. ~ Holds /\ ~ IsAnswer(x)
        BY <3>4, <3>8, <3>11 DEF Holds, Answers, IsAnswer
      <4>2. RunsSame /\ HoldSame /\ MqttSame
        BY <1>1, <1>3, <2>1, <3>10, <4>1
      <4> QED BY <2>1, <3>7, <3>8, <3>9, <4>1, <4>2, CalmKeepsLedger
    <3>12. CASE worker.kind # "OTHER"
      <4>1. Holds
        BY <2>1, <3>2, <3>12 DEF Holds
      <4> QED BY <2>1, <3>4, <3>7, <3>8, <3>9, <3>10, <4>1, SubmitKeepsLedger
    <3> QED BY <3>11, <3>12
  <2> QED BY <1>15, <2>2, <2>3 DEF WorkerSubmit
<1> QED BY <1>5, <1>6, <1>7, <1>8, <1>9, <1>10, <1>11, <1>12, <1>14, <1>15 DEF Worker, WorkerNoBuffer

\* net_task.
LEMMA NetKeepsLedger ==
    ASSUME LedgerInv, SlotInv', Net
    PROVE  Stories'
<1>0. /\ SlotInv /\ UplinkInv /\ AckFirst /\ FramesKnown /\ FrameStory /\ AckStory /\ HoldStory
      /\ requests \in Seq(Request) /\ Len(requests) \in Nat
      /\ \A x \in Way : x.frame.type = "OTHER" \/ IsAnswer(x) \/ IsAck(x)
      /\ \A x \in Way : x.frame \in ReplyFrames
  <2>1. SlotInv /\ AckFirst /\ FramesKnown /\ FrameStory /\ AckStory /\ HoldStory
    BY DEF LedgerInv, Stories, AckStory, WorkerStory
  <2>2. UplinkInv
    BY <2>1 DEF SlotInv, Inv
  <2>3. \A x \in Way : x.frame \in ReplyFrames
    BY <2>2, WayPlaces, ServerAssumption DEF TxItem
  <2> QED BY <2>1, <2>2, <2>3, LedgerFacts
<1>1. ASSUME UNCHANGED <<worker, mqtt>> PROVE RunsSame /\ HoldSame /\ MqttSame
  BY <1>1 DEF RunsSame, HoldSame, MqttSame, Holds
<1>2. CASE (NextDueEntry \/ NextDueReceive \/ NextDueTimeout) /\ UNCHANGED serverVars
  <2>0. UNCHANGED <<slots, requests, worker, mqtt>>
    BY <1>2 DEF serverVars
  <2>1. /\ drawn = <<>>
        /\ \/ UNCHANGED <<parked \o txQ, drawn, now>>
           \/ \E i \in 1..Len(parked \o txQ) : Channel!HandOver(i)
    BY <1>0, <1>2, NextDueMovesFrames
  <2>2. CASE UNCHANGED <<parked \o txQ, drawn, now>>
    <3>1. Way' = Way /\ AckFirst'
      BY <1>0, <2>2 DEF AckFirst, IsAck, IsAnswer, Way, Pend
    <3> QED BY <1>1, <2>0, <3>1, CalmKeepsLedger
  <2>3. ASSUME NEW i \in 1..Len(Pend), Channel!HandOver(i) PROVE Stories'
    <3>1. \A x, y \in Way : IsAnswer(x) /\ IsAck(y) /\ x.frame.req = y.frame.req => x.nb = y.nb
      BY <1>0 DEF AckStory
    <3>2. Way' = Way /\ AckFirst'
      BY <1>0, <2>1, <2>3, <3>1, WayAfterHandOver
    <3> QED BY <1>1, <2>0, <3>2, CalmKeepsLedger
  <2> QED BY <2>1, <2>2, <2>3 DEF Pend
<1>3. ASSUME NEW sent \in BOOLEAN, Publish(sent) PROVE Stories'
  <2> DEFINE x == drawn[1]
  <2>0. UNCHANGED <<slots, worker, mqtt>> /\ ReleaseDrawn
    BY <1>3 DEF Publish
  <2>1. x \in Way /\ ToSet(drawn) = {x} /\ Way' = Way \ {x} /\ AckFirst'
    BY <1>0, <2>0, WayAfterRelease
  <2>2. requests' = IF x.frame.type # "ACK" THEN Reach(x.frame.req, IF sent THEN x.frame.type ELSE "lost")
                    ELSE IF sent THEN [requests EXCEPT ![x.frame.req].acked = TRUE]
                    ELSE requests
    BY <1>3 DEF Publish
  <2>3. x.frame \in ReplyFrames
    BY <1>0, <2>1
  <2> HIDE DEF x
  <2>4. CASE IsAck(x)
    <3> DEFINE n == x.frame.req
    <3>1. n \in 1..Len(requests) /\ ~ IsAnswer(x)
      BY <1>0, <2>1, <2>4 DEF FramesKnown, IsAck, IsAnswer, Answers
    <3>2. requests' = [requests EXCEPT ![n].acked = TRUE] \/ requests' = requests
      BY <2>2, <2>4 DEF IsAck
    <3>3. /\ \A y \in Way' : IsAck(y) => y.frame.req # n
          /\ mqtt'.pc \in {"ackAcquire", "ackSubmit"} => mqtt'.req # n
      BY <1>0, <2>0, <2>1, <2>4 DEF AckStory
    <3> HIDE DEF n
    <3>4. /\ Len(requests') = Len(requests)
          /\ \A m \in 1..Len(requests) : requests'[m].stage = requests[m].stage /\ requests'[m].cancel = requests[m].cancel
          /\ \A m \in 1..Len(requests) : m # n => requests'[m] = requests[m]
      <4>1. CASE requests' = requests
        BY <4>1
      <4>2. CASE requests' = [requests EXCEPT ![n].acked = TRUE]
        <5>1. /\ Len(requests') = Len(requests) /\ \A m \in 1..Len(requests) \ {n} : requests'[m] = requests[m]
              /\ requests'[n].stage = requests[n].stage /\ requests'[n].cancel = requests[n].cancel
          BY <1>0, <3>1, <4>2, RecordFields
        <5> QED BY <5>1
      <4> QED BY <3>2, <4>1, <4>2
    <3>5. \A m \in 1..Len(requests) : requests'[m].acked =>
            \/ requests[m].acked
            \/ /\ \A y \in Way' : IsAck(y) => y.frame.req # m
               /\ mqtt'.pc \in {"ackAcquire", "ackSubmit"} => mqtt'.req # m
      BY <3>3, <3>4
    <3>6. SlotsSame /\ RunsSame /\ HoldSame /\ MqttSame
      BY <1>1, <2>0 DEF SlotsSame, Live
    <3>7. /\ \A y \in Way' : IsAnswer(y) \/ IsAck(y) => y \in Way
          /\ \A y \in Way : IsAnswer(y) => y \in Way'
      BY <2>1, <3>1
    <3>8. /\ FramesKnown' /\ SlotStory' /\ HoldStory' /\ FrameStory' /\ Carried' /\ AckStory' /\ RunStory'
      BY <2>1, <3>4, <3>5, <3>6, <3>7, QuietKeepsLedger
    <3> QED BY <3>8 DEF Stories, WorkerStory
  <2>5. CASE IsAnswer(x)
    <3> SUFFICES ASSUME NEW n \in 1..Len(requests), n = x.frame.req PROVE Stories'
      BY <1>0, <2>1, <2>5 DEF FramesKnown
    <3> DEFINE stage == IF sent THEN x.frame.type ELSE "lost"
    <3>1. requests' = [requests EXCEPT ![n].stage = stage]
      <4>1. n # 0 /\ x.frame.type # "ACK"
        BY <2>5 DEF IsAnswer, Answers
      <4> QED BY <2>2, <4>1 DEF Reach
    <3>2. stage \in Answers \union {"lost"}
      BY <2>5 DEF IsAnswer
    <3> HIDE DEF stage
    <3>3. stage \notin {"accepted", "executed"}
      BY <3>2 DEF Answers
    <3>4. (\A s \in JobIdx : ~ InSlot(s, n)) /\ ~ WithWorker(n) /\ \A y \in Way : IsAnswer(y) /\ y.frame.req = n => y = x
      BY <1>0, <2>1, <2>5 DEF FrameStory
    <3>5. ~ WithWorker(n)' /\ RunsSame
      BY <1>1, <2>0, <3>4 DEF WithWorker, Holds
    <3>6. \A y \in Way' : IsAck(y) => y.frame.req # n
      <4>1. \A y \in Way' : y \in ToSet(Pend)
        BY <2>1 DEF Way
      <4> QED BY <1>0, <2>1, <2>5, <4>1 DEF AckFirst
    <3>7. /\ Way' \subseteq Way /\ \A y \in Way : IsAnswer(y) /\ y.frame.req # n => y \in Way'
          /\ \A y \in Way' : IsAnswer(y) => y.frame.req # n
      BY <2>1, <3>4
    <3>8. Holds' <=> Holds
      BY <2>0 DEF Holds
    <3> QED BY <2>0, <2>1, <3>1, <3>3, <3>4, <3>5, <3>6, <3>7, <3>8, SettleKeepsLedger
  <2>6. CASE x.frame.type = "OTHER"
    <3>1. x.frame.req = 0 /\ ~ IsAnswer(x)
      BY <2>3, <2>6 DEF ReplyFrames, IsAnswer, Answers
    <3>2. requests' = requests
      BY <2>2, <2>6, <3>1 DEF Reach
    <3>3. /\ \A y \in Way' : IsAnswer(y) \/ IsAck(y) => y \in Way
          /\ \A y \in Way : IsAnswer(y) => y \in Way'
      BY <2>1, <3>1
    <3> QED BY <1>1, <2>0, <2>1, <3>2, <3>3, CalmKeepsLedger
  <2> QED BY <1>0, <2>1, <2>4, <2>5, <2>6
<1> QED BY <1>2, <1>3 DEF Net

\* Every step keeps the stories.
LEMMA StepKeepsLedger ==
    ASSUME LedgerInv, [Next]_vars
    PROVE  LedgerInv'
<1>1. SlotInv'
  BY StepKeepsSlotInv DEF LedgerInv
<1>2. CASE PostTick \/ Clock \/ UNCHANGED vars
  <2>1. UNCHANGED <<slots, requests, parked, txQ, drawn, worker, mqtt>>
    BY <1>2 DEF PostTick, Clock, Tick, vars, serverVars, uplinkVars
  <2>2. RunsSame /\ HoldSame /\ MqttSame
    BY <2>1 DEF RunsSame, HoldSame, MqttSame, Holds
  <2>3. Stories'
    BY <1>1, <2>1, <2>2, StillKeepsLedger
  <2> QED BY <1>1, <2>3 DEF LedgerInv
<1>3. CASE Mqtt \/ Worker \/ Net
  <2>1. Stories'
    BY <1>1, <1>3, MqttKeepsLedger, WorkerKeepsLedger, NetKeepsLedger
  <2> QED BY <1>1, <2>1 DEF LedgerInv
<1> QED BY <1>2, <1>3 DEF Next

\* The inductive invariant of the requests: where the answer to each one is,
\* that it is only there, and what the request may have come to by then.
THEOREM LedgerInvAlways == Spec => []LedgerInv
<1>1. LedgerInv /\ [Next]_vars => LedgerInv'
  BY StepKeepsLedger
<1> QED BY InitHasLedgerInv, <1>1, PTL DEF Spec

-----------------------------------------------------------------------------
(* Exactly one carrier.                                                    *)

\* The positions of OnTheWay and the frames on their way are the same thing.
LEMMA OnTheWayPlaces ==
    ASSUME UplinkInv
    PROVE  /\ \A j \in 1..Len(OnTheWay) : OnTheWay[j] \in Way
           /\ \A x \in Way : \E j \in 1..Len(OnTheWay) : OnTheWay[j] = x
           /\ \A i, j \in 1..Len(OnTheWay) : OnTheWay[i] = OnTheWay[j] => i = j
<1> DEFINE p == Len(Pend)
<1>1. /\ Pend \in Seq(TxItem) /\ drawn \in Seq(TxItem) /\ p \in Nat /\ Len(drawn) \in Nat /\ Len(drawn) <= 1
      /\ ToSet(Pend) = {Pend[i] : i \in 1..p} /\ ToSet(drawn) = {drawn[i] : i \in 1..Len(drawn)}
      /\ \A i, j \in 1..p : Pend[i].slot = Pend[j].slot => i = j
      /\ \A x \in ToSet(drawn) : x \notin ToSet(Pend)
  BY WayPlaces
<1>2. /\ Len(OnTheWay) = p + Len(drawn)
      /\ \A i \in 1..(p + Len(drawn)) : OnTheWay[i] = IF i <= p THEN Pend[i] ELSE drawn[i - p]
  <2>1. OnTheWay = Pend \o drawn
    BY DEF OnTheWay, Pend
  <2> QED BY <1>1, <2>1, ConcatProperties
<1> HIDE DEF p
<1>3. ASSUME NEW i \in 1..Len(OnTheWay)
      PROVE  \/ i \in 1..p /\ OnTheWay[i] = Pend[i] /\ OnTheWay[i] \in ToSet(Pend)
             \/ i = p + 1 /\ 1 \in 1..Len(drawn) /\ OnTheWay[i] = drawn[1] /\ OnTheWay[i] \in ToSet(drawn)
  <2>1. CASE i <= p
    BY <1>1, <1>2, <2>1
  <2>2. CASE ~ (i <= p)
    <3>1. i = p + 1 /\ i - p = 1 /\ 1 \in 1..Len(drawn)
      BY <1>1, <1>2, <2>2
    <3>2. OnTheWay[i] = drawn[1]
      BY <1>2, <2>2, <3>1
    <3> QED BY <1>1, <3>1, <3>2
  <2> QED BY <2>1, <2>2
<1>4. \A j \in 1..Len(OnTheWay) : OnTheWay[j] \in Way
  BY <1>3 DEF Way
<1>5. ASSUME NEW x \in Way PROVE \E j \in 1..Len(OnTheWay) : OnTheWay[j] = x
  <2>1. CASE x \in ToSet(Pend)
    <3>1. PICK i \in 1..p : x = Pend[i]
      BY <1>1, <2>1
    <3>2. i \in 1..(p + Len(drawn)) /\ i <= p
      BY <1>1
    <3> QED BY <1>2, <3>1, <3>2
  <2>2. CASE x \in ToSet(drawn)
    <3>1. PICK i \in 1..Len(drawn) : x = drawn[i]
      BY <1>1, <2>2
    <3>2. p + i \in 1..(p + Len(drawn)) /\ ~ (p + i <= p) /\ (p + i) - p = i
      BY <1>1
    <3>3. OnTheWay[p + i] = drawn[(p + i) - p]
      BY <1>2, <3>2
    <3>4. OnTheWay[p + i] = x
      BY <3>1, <3>2, <3>3
    <3> QED BY <1>2, <3>2, <3>4
  <2> QED BY <2>1, <2>2 DEF Way
<1>6. ASSUME NEW i \in 1..Len(OnTheWay), NEW j \in 1..Len(OnTheWay), OnTheWay[i] = OnTheWay[j]
      PROVE  i = j
  <2>1. CASE i \in 1..p /\ j \in 1..p
    BY <1>1, <1>3, <1>6, <2>1
  <2>2. CASE i = p + 1 /\ j = p + 1
    BY <2>2
  <2> QED BY <1>1, <1>3, <1>6, <2>1, <2>2
<1> QED BY <1>4, <1>5, <1>6

\* The carriers of a request: its live slots, the worker, its answers.
LEMMA CarriersAre ==
    ASSUME LedgerInv, NEW n \in 1..Len(requests)
    PROVE  \A c : c \in Carriers(n) <=>
             \/ \E s \in JobIdx : InSlot(s, n) /\ c = <<"slot", s>>
             \/ WithWorker(n) /\ c = <<"worker", 0>>
             \/ \E j \in 1..Len(OnTheWay) : /\ IsAnswer(OnTheWay[j]) /\ OnTheWay[j].frame.req = n
                                            /\ c = <<"uplink", j>>
<1>0. SlotInv /\ UplinkInv /\ LocalsOK /\ n # 0
  BY DEF LedgerInv, SlotInv, Inv
<1>1. /\ worker.req = n /\ worker.kind # "DROPPED" /\ worker.pc \in {"return", "replyAcquire", "submit"}
      <=> WithWorker(n)
  <2>1. worker.req = n /\ worker.kind # "DROPPED" /\ worker.pc \in {"return", "replyAcquire", "submit"} => WithWorker(n)
    BY <1>0 DEF LocalsOK, WithWorker, Holds
  <2>2. WithWorker(n) => worker.req = n /\ worker.kind # "DROPPED" /\ worker.pc \in {"return", "replyAcquire", "submit"}
    BY DEF WithWorker, Holds, Answers
  <2> QED BY <2>1, <2>2
<1>2. \A j \in 1..Len(OnTheWay) : OnTheWay[j].frame.req = n =>
        (OnTheWay[j].frame.type # "ACK" <=> IsAnswer(OnTheWay[j]))
  <2> SUFFICES ASSUME NEW j \in 1..Len(OnTheWay), OnTheWay[j].frame.req = n
               PROVE  OnTheWay[j].frame.type # "ACK" <=> IsAnswer(OnTheWay[j])
    OBVIOUS
  <2>1. OnTheWay[j] \in Way /\ OnTheWay[j].frame \in ReplyFrames
    BY <1>0, OnTheWayPlaces, WayPlaces, ServerAssumption DEF TxItem
  <2>2. OnTheWay[j].frame.type # "OTHER"
    BY <1>0, <2>1 DEF ReplyFrames
  <2>3. OnTheWay[j].frame.type = "OTHER" \/ IsAnswer(OnTheWay[j]) \/ IsAck(OnTheWay[j])
    BY <1>0, <2>1, LedgerFacts
  <2> QED BY <2>2, <2>3 DEF IsAnswer, IsAck, Answers
<1> HIDE DEF WithWorker
<1>3. \A c : c \in {<<"worker", 0>> : w \in {v \in {worker} : /\ v.req = n /\ v.kind # "DROPPED"
                                                           /\ v.pc \in {"return", "replyAcquire", "submit"}}}
             <=> WithWorker(n) /\ c = <<"worker", 0>>
  BY <1>1
<1>4. \A c : c \in {<<"slot", s>> : s \in {t \in JobIdx : Live(t) /\ slots[t].req = n}}
             <=> \E s \in JobIdx : InSlot(s, n) /\ c = <<"slot", s>>
  BY DEF InSlot
<1>5. \A c : c \in {<<"uplink", i>> : i \in {j \in 1..Len(OnTheWay) : OnTheWay[j].frame.req = n /\ OnTheWay[j].frame.type # "ACK"}}
             <=> \E j \in 1..Len(OnTheWay) : /\ IsAnswer(OnTheWay[j]) /\ OnTheWay[j].frame.req = n
                                             /\ c = <<"uplink", j>>
  <2> HIDE DEF IsAnswer
  <2> QED BY <1>2
<1> QED BY <1>3, <1>4, <1>5 DEF Carriers

\* From the stories to the places: one for a pending request, none but an old
\* slot for one that is settled.
LEMMA LedgerGivesOneCarrier == LedgerInv => OneCarrier
<1> SUFFICES ASSUME LedgerInv, NEW n \in 1..Len(requests)
             PROVE  /\ Pending(n) => Cardinality(Carriers(n)) = 1
                    /\ ~ Pending(n) => \A c \in Carriers(n) : c[1] = "slot"
  BY DEF OneCarrier
<1>0. /\ UplinkInv /\ SlotStory /\ HoldStory /\ FrameStory /\ Carried
  BY DEF LedgerInv, Stories, WorkerStory, SlotInv, Inv
<1>1. \A c : c \in Carriers(n) <=>
        \/ \E s \in JobIdx : InSlot(s, n) /\ c = <<"slot", s>>
        \/ WithWorker(n) /\ c = <<"worker", 0>>
        \/ \E j \in 1..Len(OnTheWay) : /\ IsAnswer(OnTheWay[j]) /\ OnTheWay[j].frame.req = n
                                       /\ c = <<"uplink", j>>
  BY CarriersAre
<1>2. /\ \A j \in 1..Len(OnTheWay) : OnTheWay[j] \in Way
      /\ \A x \in Way : \E j \in 1..Len(OnTheWay) : OnTheWay[j] = x
      /\ \A i, j \in 1..Len(OnTheWay) : OnTheWay[i] = OnTheWay[j] => i = j
  BY <1>0, OnTheWayPlaces
<1>3. \A s, t \in JobIdx : InSlot(s, n) /\ InSlot(t, n) => s = t
  BY <1>0 DEF SlotStory, InSlot
<1>4. WithWorker(n) => Pending(n) /\ \A s \in JobIdx : ~ InSlot(s, n)
  BY <1>0 DEF HoldStory, WithWorker, Fits, Pending
<1>5. \A x \in Way : IsAnswer(x) /\ x.frame.req = n =>
        /\ Pending(n) /\ ~ WithWorker(n) /\ \A s \in JobIdx : ~ InSlot(s, n)
        /\ \A y \in Way : IsAnswer(y) /\ y.frame.req = n => y = x
  BY <1>0 DEF FrameStory, Fits, Pending
<1>6. ASSUME Pending(n) PROVE Cardinality(Carriers(n)) = 1
  <2> HIDE DEF IsAnswer
  <2>1. CASE \E s \in JobIdx : InSlot(s, n)
    <3>1. PICK s \in JobIdx : InSlot(s, n)
      BY <2>1
    <3>2. \A d : d \in Carriers(n) <=> d = <<"slot", s>>
      BY <1>1, <1>2, <1>3, <1>4, <1>5, <3>1
    <3>3. Carriers(n) = {<<"slot", s>>}
      BY <3>2
    <3> QED BY <3>3, FS_Singleton
  <2>2. CASE WithWorker(n)
    <3>1. \A d : d \in Carriers(n) <=> d = <<"worker", 0>>
      BY <1>1, <1>2, <1>4, <1>5, <2>2
    <3>2. Carriers(n) = {<<"worker", 0>>}
      BY <3>1
    <3> QED BY <3>2, FS_Singleton
  <2>3. CASE \E x \in Way : IsAnswer(x) /\ x.frame.req = n
    <3>1. PICK x \in Way : IsAnswer(x) /\ x.frame.req = n
      BY <2>3
    <3>2. PICK i \in 1..Len(OnTheWay) : OnTheWay[i] = x
      BY <1>2
    <3>3. \A j \in 1..Len(OnTheWay) : IsAnswer(OnTheWay[j]) /\ OnTheWay[j].frame.req = n <=> j = i
      BY <1>2, <1>5, <3>1, <3>2
    <3>4. \A d : d \in Carriers(n) <=> d = <<"uplink", i>>
      BY <1>1, <1>5, <3>1, <3>3
    <3>5. Carriers(n) = {<<"uplink", i>>}
      BY <3>4
    <3> QED BY <3>5, FS_Singleton
  <2> QED BY <1>0, <1>6, <2>1, <2>2, <2>3 DEF Carried
<1>7. ASSUME ~ Pending(n), NEW c \in Carriers(n) PROVE c[1] = "slot"
  <2> HIDE DEF IsAnswer
  <2>1. \E s \in JobIdx : c = <<"slot", s>>
    BY <1>1, <1>2, <1>4, <1>5, <1>7
  <2> QED BY <2>1
<1> QED BY <1>6, <1>7

\* A request without an answer is in exactly one place that one can still come
\* from, and a request that was answered or lost is not answered again
\* (MCPServer.cpp:345-450, 530-585).
THEOREM RequestsHaveOneCarrier == Spec => []OneCarrier
BY LedgerInvAlways, LedgerGivesOneCarrier, PTL

-----------------------------------------------------------------------------
(* The history is one of module RequestLedger.                             *)

\* One field of one record is set: an entry of the ledger.
LEMMA SetsEntry ==
    ASSUME requests \in Seq(Request), NEW n \in 1..Len(requests), NEW x, NEW from, requests[n].stage \in from
    PROVE  /\ requests' = [requests EXCEPT ![n].stage = x] => Ledger!Entry(n, from, "stage", x)
           /\ requests' = [requests EXCEPT ![n].cancel = x] => Ledger!Entry(n, from, "cancel", x)
           /\ requests' = [requests EXCEPT ![n].acked = TRUE] => Ledger!Entry(n, from, "acked", TRUE)
           /\ x = requests[n].cancel => [requests EXCEPT ![n].cancel = x] = requests
<1>1. requests \in [1..Len(requests) -> Request] /\ requests[n] \in Request
  BY LenProperties
<1>2. requests' = [requests EXCEPT ![n].stage = x] => Ledger!Entry(n, from, "stage", x)
  BY <1>1 DEF Ledger!Entry, Request
<1>3. requests' = [requests EXCEPT ![n].cancel = x] => Ledger!Entry(n, from, "cancel", x)
  BY <1>1 DEF Ledger!Entry, Request
<1>4. requests' = [requests EXCEPT ![n].acked = TRUE] => Ledger!Entry(n, from, "acked", TRUE)
  BY <1>1 DEF Ledger!Entry, Request
<1>5. x = requests[n].cancel => [requests EXCEPT ![n].cancel = x] = requests
  BY <1>1 DEF Request
<1> QED BY <1>2, <1>3, <1>4, <1>5

\* A request that is accepted is a new entry at the end.
LEMMA AcceptsEntry ==
    ASSUME Inv, NEW h \in Headers, NEW nb \in NotBefore(h), OnAccepted(h, nb)
    PROVE  Ledger!Accept
<1> DEFINE n == Len(requests) + 1
           entry == [rid |-> h.rid, acked |-> FALSE, stage |-> "accepted", cancel |-> "no"]
<1>0. requests \in Seq(Request) /\ Len(requests) \in Nat
  BY LenProperties DEF Inv, ServerTypeOK
<1>1. Len(requests') = n /\ requests'[n] = entry /\ requests' = Append(requests, entry)
  BY ClaimFacts DEF OnAccepted
<1>2. entry \in Request
  BY ServerAssumption DEF Request
<1>3. entry.stage = "accepted" /\ entry.acked = FALSE /\ entry.cancel = "no"
  OBVIOUS
<1> HIDE DEF entry
<1>4. SubSeq(requests', 1, Len(requests')) = requests'
  <2>1. requests' \in Seq(Request)
    BY <1>0, <1>1, <1>2
  <2> QED BY <2>1, SubSeqFull
<1>5. SubSeq(requests', 1, n - 1) = requests
  <2>1. Front(Append(requests, entry)) = requests
    BY <1>0, <1>2, LastOfAppend
  <2> QED BY <1>1, <2>1 DEF Front
<1> QED BY <1>0, <1>1, <1>3, <1>5 DEF Ledger!Accept

\* Every step of the server is a step of the ledger or leaves it alone.
LEMMA StepRefinesLedger ==
    ASSUME LedgerInv, [Next]_vars
    PROVE  [Ledger!Next]_requests
<1>0. /\ SlotInv /\ Inv /\ UplinkInv /\ LocalsOK /\ CancelPending /\ SlotStateTellsOwner
      /\ FramesKnown /\ SlotStory /\ RunStory /\ HoldStory /\ FrameStory /\ AckStory
      /\ requests \in Seq(Request) /\ Len(requests) \in Nat /\ \A m \in 1..Len(requests) : requests[m] \in Request
      /\ \A s \in JobIdx : Live(s) => slots[s].req \in 1..Len(requests)
      /\ \A x \in Way : x.frame \in ReplyFrames
  <2>1. /\ SlotInv /\ FramesKnown /\ SlotStory /\ RunStory /\ HoldStory /\ FrameStory /\ AckStory
    BY DEF LedgerInv, Stories, WorkerStory
  <2>2. Inv /\ UplinkInv /\ LocalsOK /\ CancelPending /\ SlotStateTellsOwner
    BY <2>1 DEF SlotInv, Inv
  <2>3. \A x \in Way : x.frame \in ReplyFrames
    BY <2>2, WayPlaces, ServerAssumption DEF TxItem
  <2>4. requests \in Seq(Request) /\ Len(requests) \in Nat /\ \A s \in JobIdx : Live(s) => slots[s].req \in 1..Len(requests)
    BY <2>1, LedgerFacts
  <2> QED BY <2>1, <2>2, <2>3, <2>4
<1>1. CASE requests' = requests
  BY <1>1
<1>2. ASSUME NEW h \in Headers, NEW nb \in NotBefore(h), OnAccepted(h, nb) PROVE [Ledger!Next]_requests
  BY <1>0, <1>2, AcceptsEntry DEF Ledger!Next
<1>3. ASSUME NEW rid \in Rids, CancelLook(rid) PROVE [Ledger!Next]_requests
  <2>1. PICK s \in JobIdx :
          /\ Matches(s, rid)
          /\ requests' = [requests EXCEPT ![slots[s].req].cancel = IF @ = "no" THEN "asked" ELSE @]
    BY <1>3 DEF CancelLook
  <2> DEFINE n == slots[s].req
             x == IF requests[n].cancel = "no" THEN "asked" ELSE requests[n].cancel
  <2>2. n \in 1..Len(requests) /\ requests' = [requests EXCEPT ![n].cancel = x]
    BY <1>0, <2>1 DEF Matches
  <2>3. requests[n].stage \in Unanswered
    <3>1. CASE slots[s].state = "queued"
      BY <1>0, <3>1 DEF SlotStory, Unanswered
    <3>2. CASE slots[s].state = "running"
      <4>1. worker.pc \in {"acquire", "run", "free"} /\ worker.slot = s
        BY <1>0, <3>2 DEF SlotStateTellsOwner
      <4> QED BY <1>0, <4>1 DEF RunStory, Fits, Unanswered
    <3> QED BY <2>1, <3>1, <3>2 DEF Matches, Live
  <2>4. CASE requests[n].cancel = "no"
    <3>1. x = "asked"
      BY <2>4
    <3> HIDE DEF n, x
    <3>2. Ledger!Entry(n, Unanswered, "cancel", "asked")
      BY <1>0, <2>2, <2>3, <3>1, SetsEntry
    <3>3. Ledger!AskCancel(n)
      BY <2>4, <3>2 DEF Ledger!AskCancel, Ledger!Unanswered, Unanswered
    <3> QED BY <2>2, <3>3 DEF Ledger!Next
  <2>5. CASE requests[n].cancel # "no"
    <3>1. x = requests[n].cancel
      BY <2>5
    <3> HIDE DEF n, x
    <3>2. requests' = requests
      BY <1>0, <2>2, <2>3, <3>1, SetsEntry
    <3> QED BY <3>2
  <2> QED BY <2>4, <2>5
<1>4. CASE CancelMark
  <2> DEFINE s == mqtt.slot
             n == slots[s].req
  <2>1. s \in JobIdx /\ mqtt.pc = "cancel"
    BY <1>0, <1>4 DEF CancelMark, LocalsOK
  <2>2. CASE slots[s].state = "queued"
    <3>1. Live(s) /\ n \in 1..Len(requests) /\ requests' = [requests EXCEPT ![n].cancel = "doomed"]
      BY <1>0, <1>4, <2>1, <2>2 DEF CancelMark, Live
    <3>2. requests[n].stage = "accepted" /\ requests[n].cancel # "no"
      BY <1>0, <2>1, <2>2, <3>1 DEF SlotStory, CancelPending
    <3>3. requests[n].cancel \in {"asked", "doomed"}
      BY <1>0, <3>1, <3>2 DEF Request
    <3> HIDE DEF n
    <3>4. CASE requests[n].cancel = "asked"
      <4>1. Ledger!Entry(n, {"accepted"}, "cancel", "doomed")
        BY <1>0, <3>1, <3>2, SetsEntry
      <4> QED BY <3>1, <3>4, <4>1 DEF Ledger!Next, Ledger!Doom
    <3>5. CASE requests[n].cancel = "doomed"
      <4>1. requests' = requests
        BY <1>0, <3>1, <3>2, <3>5, SetsEntry
      <4> QED BY <4>1
    <3> QED BY <3>3, <3>4, <3>5
  <2>3. CASE slots[s].state # "queued"
    BY <1>4, <2>3 DEF CancelMark
  <2> QED BY <2>2, <2>3
<1>5. CASE RunHandler
  <2> DEFINE n == worker.req
  <2>1. n \in 1..Len(requests) /\ n # 0 /\ requests[n].stage = "accepted" /\ requests[n].cancel # "doomed"
    BY <1>0, <1>5, LedgerFacts DEF RunHandler, RunStory
  <2>2. requests' = [requests EXCEPT ![n].stage = "executed"]
    BY <1>5, <2>1 DEF RunHandler, Reach
  <2> HIDE DEF n
  <2>3. Ledger!Entry(n, {"accepted"}, "stage", "executed")
    BY <1>0, <2>1, <2>2, SetsEntry
  <2> QED BY <2>1, <2>3 DEF Ledger!Next, Ledger!Execute
<1>6. ASSUME NEW n \in 1..Len(requests), requests' = [requests EXCEPT ![n].stage = "lost"],
             requests[n].stage \in {"accepted", "executed"}
      PROVE  [Ledger!Next]_requests
  <2>1. Ledger!Entry(n, {"accepted", "executed"}, "stage", "lost")
    BY <1>0, <1>6, SetsEntry
  <2> QED BY <2>1 DEF Ledger!Next, Ledger!Lose
<1>7. ASSUME worker.pc \in {"acquire", "replyAcquire", "submit"}, requests' = Reach(worker.req, "lost")
      PROVE  [Ledger!Next]_requests
  <2> DEFINE n == worker.req
  <2>1. CASE n = 0
    BY <1>7, <2>1 DEF Reach
  <2>2. CASE n # 0
    <3>1. requests' = [requests EXCEPT ![n].stage = "lost"]
      BY <1>7, <2>2 DEF Reach
    <3>2. worker.pc = "acquire" \/ Holds
      BY <1>0, <1>7, <2>2 DEF LocalsOK, Holds
    <3>3. n \in 1..Len(requests) /\ requests[n].stage \in {"accepted", "executed"}
      BY <1>0, <3>2, LedgerFacts DEF RunStory, HoldStory, Fits
    <3> HIDE DEF n
    <3> QED BY <1>6, <3>1, <3>3
  <2> QED BY <2>1, <2>2
<1>8. CASE WorkerNoBuffer \/ WorkerSubmit
  BY <1>1, <1>7, <1>8 DEF WorkerNoBuffer, WorkerSubmit
<1>9. ASSUME NEW sent \in BOOLEAN, Publish(sent) PROVE [Ledger!Next]_requests
  <2> DEFINE x == drawn[1]
             n == x.frame.req
  <2>1. x \in Way
    BY <1>0, <1>9, WayAfterRelease DEF Publish
  <2>2. requests' = IF x.frame.type # "ACK" THEN Reach(n, IF sent THEN x.frame.type ELSE "lost")
                    ELSE IF sent THEN [requests EXCEPT ![n].acked = TRUE]
                    ELSE requests
    BY <1>9 DEF Publish
  <2>3. x.frame.type = "OTHER" \/ IsAnswer(x) \/ IsAck(x)
    BY <1>0, <2>1, LedgerFacts
  <2> HIDE DEF x
  <2>4. CASE x.frame.type = "OTHER"
    <3>1. n = 0
      BY <1>0, <2>1, <2>4 DEF ReplyFrames
    <3> QED BY <2>2, <2>4, <3>1 DEF Reach
  <2>5. CASE IsAck(x)
    <3>1. n \in 1..Len(requests) /\ ~ requests[n].acked /\ requests[n].stage \in Unanswered
      BY <1>0, <2>1, <2>5 DEF FramesKnown, AckStory
    <3>2. requests' = requests \/ requests' = [requests EXCEPT ![n].acked = TRUE]
      BY <2>2, <2>5 DEF IsAck
    <3> HIDE DEF n
    <3>3. CASE requests' = [requests EXCEPT ![n].acked = TRUE]
      <4>1. Ledger!Entry(n, Unanswered, "acked", TRUE)
        BY <1>0, <3>1, <3>3, SetsEntry
      <4>2. Ledger!Ack(n)
        BY <3>1, <4>1 DEF Ledger!Ack, Ledger!Unanswered, Unanswered
      <4> QED BY <3>1, <4>2 DEF Ledger!Next
    <3> QED BY <3>2, <3>3
  <2>6. CASE IsAnswer(x)
    <3> DEFINE kind == x.frame.type
    <3>1. n \in 1..Len(requests) /\ n # 0 /\ Fits(n, kind) /\ kind # "ACK"
      BY <1>0, <2>1, <2>6 DEF FramesKnown, FrameStory, IsAnswer, Answers
    <3>2. requests' = [requests EXCEPT ![n].stage = IF sent THEN kind ELSE "lost"]
      BY <2>2, <3>1 DEF Reach
    <3> HIDE DEF n, kind
    <3>3. CASE ~ sent
      <4>1. requests[n].stage \in {"accepted", "executed"}
        BY <3>1 DEF Fits
      <4> QED BY <1>6, <3>1, <3>2, <3>3, <4>1
    <3>4. CASE sent
      <4>1. requests' = [requests EXCEPT ![n].stage = kind]
        BY <3>2, <3>4
      <4>2. CASE kind = "RES" /\ requests[n].stage = "executed"
        <5>1. Ledger!Entry(n, {"executed"}, "stage", "RES")
          BY <1>0, <3>1, <4>1, <4>2, SetsEntry
        <5> QED BY <3>1, <5>1 DEF Ledger!Next, Ledger!Answer
      <4>3. CASE kind = "CANCELLED" /\ requests[n].stage = "accepted" /\ requests[n].cancel # "no"
        <5>1. Ledger!Entry(n, {"accepted"}, "stage", "CANCELLED")
          BY <1>0, <3>1, <4>1, <4>3, SetsEntry
        <5> QED BY <3>1, <4>3, <5>1 DEF Ledger!Next, Ledger!Answer
      <4>4. CASE kind = "DEADLINE_EXCEEDED" /\ requests[n].stage = "accepted" /\ requests[n].cancel # "doomed"
        <5>1. Ledger!Entry(n, {"accepted"}, "stage", "DEADLINE_EXCEEDED")
          BY <1>0, <3>1, <4>1, <4>4, SetsEntry
        <5> QED BY <3>1, <4>4, <5>1 DEF Ledger!Next, Ledger!Answer
      <4> QED BY <3>1, <4>2, <4>3, <4>4 DEF Fits
    <3> QED BY <3>3, <3>4
  <2> QED BY <2>3, <2>4, <2>5, <2>6
<1>10. CASE Enqueue
  BY <1>0, <1>1, <1>10, OwnersGiveRoom DEF Inv, JobQueueHasRoom, Enqueue
<1>11. ASSUME NEW nb, SendRefusal(nb) PROVE requests' = requests
  BY <1>11 DEF SendRefusal
<1>12. CASE MqttBuffer \/ MqttNoBuffer \/ MqttSubmit \/ PostTick \/ Clock \/ UNCHANGED vars
  BY <1>1, <1>12 DEF MqttBuffer, MqttNoBuffer, MqttSubmit, PostTick, Clock, vars, serverVars
<1>13. CASE WorkerReceive \/ WorkerTick \/ JobStart \/ WorkerBuffer \/ FreeMark \/ FreeReturn
  BY <1>1, <1>13 DEF WorkerReceive, WorkerTick, JobStart, WorkerBuffer, FreeMark, FreeReturn
<1>14. CASE Net
  BY <1>1, <1>9, <1>14 DEF Net, serverVars
<1> QED BY <1>1, <1>2, <1>3, <1>4, <1>5, <1>8, <1>10, <1>11, <1>12, <1>13, <1>14
        DEF Next, Mqtt, Worker, OnRejected, OnDuplicate, OnBusy

\* What a gateway may rely on: a request is executed at most once and answered
\* at most once, RES only after it ran, CANCELLED or DEADLINE_EXCEEDED only if
\* it did not, the ACK before the answer, and a request that was cancelled
\* while it was queued is never run (MCPServer.cpp:313-450, 530-585).
THEOREM ServerImplementsLedger == Spec => ImplementsLedger
<1>1. Init => Ledger!Init
  BY DEF Init, ServerInit, Ledger!Init
<1>2. LedgerInv /\ [Next]_vars => [Ledger!Next]_requests
  BY StepRefinesLedger
<1> QED BY <1>1, <1>2, LedgerInvAlways, PTL DEF Spec, ImplementsLedger, Ledger!Spec
=============================================================================
