----------------------------- MODULE DelayChannel ---------------------------
(***************************************************************************)
(* What the uplink of the node promises to the tasks that use it: a frame  *)
(* that was queued is handed over exactly once, never before its time, and *)
(* frames with the same time leave in the order they were queued (so the   *)
(* ACK of a request is never overtaken by its result).                     *)
(***************************************************************************)
EXTENDS Integers, Sequences, SequencesExt

CONSTANT Items        \* records with a field nb, the time before which they stay

VARIABLES
    pending,          \* queued items, oldest first
    out,              \* the item handed over last, until the consumer is done with it
    now

channelVars == <<pending, out, now>>

Init == pending = <<>> /\ out = <<>> /\ now = 0

\* Some item is added at the end.
Queue ==
    /\ pending' # <<>>
    /\ Front(pending') = pending
    /\ Last(pending') \in Items
    /\ UNCHANGED <<out, now>>

HandOver(i) ==
    /\ out = <<>>
    /\ pending[i].nb <= now
    /\ \A j \in 1..(i - 1) : pending[j].nb # pending[i].nb
    /\ out' = <<pending[i]>>
    /\ pending' = RemoveAt(pending, i)
    /\ UNCHANGED now

Finish ==
    /\ out # <<>>
    /\ out' = <<>>
    /\ UNCHANGED <<pending, now>>

TimePasses ==
    /\ now' > now
    /\ UNCHANGED <<pending, out>>

Next ==
    \/ Queue
    \/ \E i \in 1..Len(pending) : HandOver(i)
    \/ Finish
    \/ TimePasses

Spec == Init /\ [][Next]_channelVars

=============================================================================
