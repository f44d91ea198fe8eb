------------------------------- MODULE Uplink -------------------------------
(***************************************************************************)
(* mcp::Uplink of the node firmware: the pool of uplink frame buffers, the *)
(* two FreeRTOS queues free_ and tx_, and the parking lot of net_task, the *)
(* only consumer.  Any task may be a producer; a producer works on at most *)
(* one buffer at a time.                                                   *)
(*                                                                         *)
(* A frame travels in its TxItem: the item's len and channel are computed  *)
(* from the buffer when it is submitted, and the ownership rule proved in  *)
(* UplinkProofs is what keeps the buffer unchanged until it is released.   *)
(*                                                                         *)
(* The module is open: a composition takes its actions one at a time.      *)
(* UplinkSpec closes it with producers that may submit any frame.          *)
(*                                                                         *)
(* A definition that is called a deviation is an operation with a mistake  *)
(* in it; no specification uses it, it is there to be put in the place of  *)
(* the operation that follows it, to see that a property notices.          *)
(***************************************************************************)
EXTENDS Integers, Sequences, SequencesExt

CONSTANTS
    UplinkSlots,  \* slots_: number of buffers in the pool
    MaxSlots,     \* Uplink::kMaxSlots, also the length of the array parked_
    Producers,    \* tasks that produce frames
    Frames,       \* what a producer may write into a buffer
    SaneFrames,   \* the frames whose header passes the check in submit()
    MaxNow        \* bound of the model: last instant of the clock

ASSUME UplinkAssumption ==
    /\ MaxSlots \in Nat
    /\ UplinkSlots \in 1..MaxSlots      \* begin() refuses anything else
    /\ SaneFrames \subseteq Frames
    /\ MaxNow \in Nat

UpSlots == 0..(UplinkSlots - 1)
NoSlot == -1                            \* acquire() found no free buffer

VARIABLES
    freeQ,    \* free_: indices nobody uses
    txQ,      \* tx_: frames on their way to net_task
    parked,   \* parked_[0 .. parkedN_): frames that net_task holds back
    drawn,    \* the frame nextDue() returned and net_task has not released
    held,     \* held[p]: the buffer producer p works on
    netPc,    \* where net_task is in nextDue()
    now       \* os::nowUs(), in steps that separate the times that matter

uplinkVars == <<freeQ, txQ, parked, drawn, held, netPc, now>>

TxItem == [slot : UpSlots, nb : Nat, frame : Frames]

UplinkTypeOK ==
    /\ freeQ \in Seq(UpSlots)
    /\ txQ \in Seq(TxItem)
    /\ parked \in Seq(TxItem)
    /\ drawn \in Seq(TxItem) /\ Len(drawn) <= 1
    /\ held \in [Producers -> UpSlots \union {NoSlot}]
    /\ netPc \in {"entry", "wait", "publish"}
    /\ (netPc = "publish") <=> (drawn # <<>>)
    /\ now \in Nat

\* Queue::send with a timeout: a full queue refuses the item.
Send(q, x, capacity) == IF Len(q) < capacity THEN Append(q, x) ELSE q

UplinkInit ==
    /\ freeQ = [i \in 1..UplinkSlots |-> i - 1]
    /\ txQ = <<>> /\ parked = <<>> /\ drawn = <<>>
    /\ held = [p \in Producers |-> NoSlot]
    /\ netPc = "entry"
    /\ now = 0

-----------------------------------------------------------------------------
(* Producer side.  An acquire() that times out changes nothing here.       *)

Acquire(p) ==
    /\ held[p] = NoSlot
    /\ freeQ # <<>>
    /\ held' = [held EXCEPT ![p] = Head(freeQ)]
    /\ freeQ' = Tail(freeQ)
    /\ UNCHANGED <<txQ, parked, drawn, netPc, now>>

\* The buffer p works on goes back to free_ and p forgets it.
Release(p) ==
    /\ held[p] # NoSlot
    /\ held' = [held EXCEPT ![p] = NoSlot]
    /\ freeQ' = Send(freeQ, held[p], UplinkSlots)
    /\ UNCHANGED <<txQ, parked, drawn, netPc, now>>

\* Deviation: submit() that does not clear the caller's handle.
SubmitLeavesHandle(p, frame, nb) ==
    /\ held[p] # NoSlot
    /\ txQ' = Append(txQ, [slot |-> held[p], nb |-> nb, frame |-> frame])
    /\ UNCHANGED <<freeQ, parked, drawn, held, netPc, now>>

\* submit(): a frame with an invalid header, or one that tx_ has no room
\* for, is released and counted as a drop; nb is the reply jitter.
Submit(p, frame, nb) ==
    IF frame \in SaneFrames /\ Len(txQ) < UplinkSlots
    THEN /\ held[p] # NoSlot
         /\ txQ' = Append(txQ, [slot |-> held[p], nb |-> nb, frame |-> frame])
         /\ held' = [held EXCEPT ![p] = NoSlot]
         /\ UNCHANGED <<freeQ, parked, drawn, netPc, now>>
    ELSE Release(p)

-----------------------------------------------------------------------------
(* Consumer side: nextDue() and release(), called by net_task only.        *)

Due(item) == item.nb <= now

\* Deviation: takeDueParked() that does not close the gap.
TakeLeavesItem(lot) ==
    \E i \in 1..Len(lot) :
        Due(lot[i]) /\ drawn' = <<lot[i]>> /\ parked' = lot /\ netPc' = "publish"

\* takeDueParked() on a parking lot that holds lot.
TakeDueParked(lot) ==
    \E i \in 1..Len(lot) :
        /\ Due(lot[i])
        /\ \A j \in 1..(i - 1) : ~ Due(lot[j])
        /\ drawn' = <<lot[i]>>
        /\ parked' = RemoveAt(lot, i)
        /\ netPc' = "publish"

NothingDue(lot, pc) ==
    /\ \A i \in 1..Len(lot) : ~ Due(lot[i])
    /\ parked' = lot
    /\ drawn' = drawn
    /\ netPc' = pc

NextDueEntry ==
    /\ netPc = "entry"
    /\ TakeDueParked(parked) \/ NothingDue(parked, "wait")
    /\ UNCHANGED <<freeQ, txQ, held, now>>

\* Deviation: a frame that is due passes the ones that are parked.
ReceiveOvertakes ==
    /\ netPc = "wait"
    /\ txQ # <<>>
    /\ txQ' = Tail(txQ)
    /\ LET item == Head(txQ) IN
         IF Due(item) THEN drawn' = <<item>> /\ parked' = parked /\ netPc' = "publish"
         ELSE NothingDue(Append(parked, item), "entry")
    /\ UNCHANGED <<freeQ, held, now>>

\* A frame arrives while nextDue() waits on tx_.
NextDueReceive ==
    /\ netPc = "wait"
    /\ txQ # <<>>
    /\ txQ' = Tail(txQ)
    /\ LET item == Head(txQ) IN
         IF \/ parked = <<>> /\ Due(item)
            \/ Len(parked) >= MaxSlots
         THEN drawn' = <<item>> /\ parked' = parked /\ netPc' = "publish"
         ELSE \/ TakeDueParked(Append(parked, item))
              \/ NothingDue(Append(parked, item), "entry")
    /\ UNCHANGED <<freeQ, held, now>>

\* The bounded wait ends with tx_ still empty.
NextDueTimeout ==
    /\ netPc = "wait"
    /\ txQ = <<>>
    /\ TakeDueParked(parked) \/ NothingDue(parked, "entry")
    /\ UNCHANGED <<freeQ, txQ, held, now>>

\* Deviation: a published buffer that stays out of free_.
PublishForgetsBuffer == netPc = "publish" /\ drawn' = <<>> /\ netPc' = "entry" /\ UNCHANGED <<freeQ, txQ, parked, held, now>>

\* net_task handed the frame to the MQTT client, or dropped it, and gives
\* the buffer back.
ReleaseDrawn ==
    /\ netPc = "publish"
    /\ freeQ' = Send(freeQ, drawn[1].slot, UplinkSlots)
    /\ drawn' = <<>>
    /\ netPc' = "entry"
    /\ UNCHANGED <<txQ, parked, held, now>>

NetTask == NextDueEntry \/ NextDueReceive \/ NextDueTimeout \/ ReleaseDrawn

-----------------------------------------------------------------------------

Tick ==
    /\ now < MaxNow
    /\ now' = now + 1
    /\ UNCHANGED <<freeQ, txQ, parked, drawn, held, netPc>>

Produce(p) ==
    \/ Acquire(p)
    \/ Release(p)
    \/ \E frame \in Frames, nb \in 0..MaxNow : Submit(p, frame, nb)

UplinkNext == (\E p \in Producers : Produce(p)) \/ NetTask \/ Tick

UplinkSpec == UplinkInit /\ [][UplinkNext]_uplinkVars

\* A task that holds a buffer finishes its frame, net_task loops for ever,
\* and time passes.
UplinkFairSpec ==
    /\ UplinkSpec
    /\ \A p \in Producers :
         WF_uplinkVars(Release(p) \/ \E frame \in Frames, nb \in 0..MaxNow : Submit(p, frame, nb))
    /\ WF_uplinkVars(NetTask)
    /\ WF_uplinkVars(Tick)

-----------------------------------------------------------------------------
(* The ownership rule of Uplink.h: free_q -> producer -> tx_q -> consumer. *)

Injective(q) == \A i, j \in 1..Len(q) : q[i] = q[j] => i = j
SlotsOf(items) == {items[i].slot : i \in 1..Len(items)}
Distinct(items) == \A i, j \in 1..Len(items) : items[i].slot = items[j].slot => i = j
FreeSlots == ToSet(freeQ)
HeldSlots == {held[p] : p \in Producers} \ {NoSlot}

\* No index is handed out twice: not to two owners, and not twice to one.
NoSharing ==
    /\ Injective(freeQ) /\ Distinct(txQ) /\ Distinct(parked)
    /\ \A p, q \in Producers : held[p] = held[q] /\ held[p] # NoSlot => p = q
    /\ FreeSlots \intersect (HeldSlots \union SlotsOf(txQ) \union SlotsOf(parked) \union SlotsOf(drawn)) = {}
    /\ HeldSlots \intersect (SlotsOf(txQ) \union SlotsOf(parked) \union SlotsOf(drawn)) = {}
    /\ SlotsOf(txQ) \intersect (SlotsOf(parked) \union SlotsOf(drawn)) = {}
    /\ SlotsOf(parked) \intersect SlotsOf(drawn) = {}

\* No index is forgotten: each one is free or on its way.
NoLeak == UpSlots \subseteq FreeSlots \union HeldSlots \union SlotsOf(txQ) \union SlotsOf(parked) \union SlotsOf(drawn)

\* Every buffer has exactly one owner, so no buffer is written after it was
\* handed on and the pool never shrinks (the MEMORY-SAFETY rule of Uplink.h).
OneOwner == NoSharing /\ NoLeak

\* The "cannot fail" sends of free_, the send to tx_ and the array parked_
\* have room whenever they are used (Uplink.cpp:22, 43, 64, 107).
NeverFull ==
    /\ \A p \in Producers : held[p] # NoSlot => Len(freeQ) < UplinkSlots /\ Len(txQ) < UplinkSlots
    /\ drawn # <<>> => Len(freeQ) < UplinkSlots
    /\ txQ # <<>> => Len(parked) < MaxSlots

\* Nothing is lost, duplicated, early or reordered: the queue tx_ and the
\* parking lot together are the channel the producers rely on.
Channel == INSTANCE DelayChannel
             WITH Items <- TxItem, pending <- parked \o txQ, out <- drawn
ImplementsChannel == Channel!Spec

\* No buffer stays out of the pool for ever, whatever jitter its frame has.
BuffersComeBack == \A s \in UpSlots : (s \notin FreeSlots) ~> (s \in FreeSlots)

=============================================================================
