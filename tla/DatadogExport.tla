--------------------------- MODULE DatadogExport ---------------------------
(***************************************************************************)
(* DatadogForwarder of the fleet host: what the hooks of the registry      *)
(* leave in its two bounded queues, and flush(), which posts the points in *)
(* batches, then the events one at a time, then the checks of the boards,  *)
(* and awaits every answer.  The hooks run during these awaits.            *)
(*                                                                         *)
(* Points and events are numbered as they are made.  Tags, titles and      *)
(* values are left out.  A definition that is called a deviation is an     *)
(* operation with a mistake in it, to be put in the place of the one that  *)
(* follows it.                                                             *)
(***************************************************************************)
EXTENDS Integers, Sequences, FiniteSets

CONSTANTS
    Boards,       \* the boards of the registry
    MaxQueue,     \* MAX_QUEUE
    MaxEvents,    \* maxlen of _events
    PerPost,      \* MAX_SERIES_PER_POST
    FleetPoints,  \* how many points _collect_fleet() makes
    MaxPoints,    \* bound of the model: points
    MaxNews       \* bound of the model: events

VARIABLES
    phase,     \* "up", "stopping" in stop(), or "stopped"
    points,    \* _points
    events,    \* _events
    checks,    \* _checks
    last,      \* _last_health
    backoff,   \* now < _backoff_until
    flush,     \* where flush() is, with the batch that it posts
    made,      \* how many points there have been, and events
    sent,      \* the points and the events whose POST was answered well
    over,      \* those that went because a queue was full
    cut        \* the points that stop() took out of the hands of flush()

vars == <<phase, points, events, checks, last, backoff, flush, made, sent, over, cut>>

Elements(s) == {s[i] : i \in DOMAIN s}
AtRest == [pc |-> "rest", batch |-> <<>>, left |-> {}]

ExportTypeOK ==
    /\ phase \in {"up", "stopping", "stopped"}
    /\ points \in Seq(1..made.points) /\ Len(points) <= MaxQueue
    /\ events \in Seq(1..made.events) /\ Len(events) <= MaxEvents
    /\ checks \subseteq Boards /\ last \in [Boards -> {"none", "online", "offline"}]
    /\ backoff \in BOOLEAN
    /\ flush.pc \in {"rest", "points", "events", "checks"} /\ flush.left \subseteq Boards
    /\ Len(flush.batch) <= PerPost
    /\ made.points <= MaxPoints /\ made.events <= MaxNews
    /\ sent.points \union over.points \union cut \subseteq 1..made.points
    /\ sent.events \union over.events \subseteq 1..made.events

Init ==
    /\ phase = "up"
    /\ points = <<>> /\ events = <<>> /\ checks = {} /\ last = [b \in Boards |-> "none"]
    /\ backoff = FALSE /\ flush = AtRest
    /\ made = [points |-> 0, events |-> 0]
    /\ sent = [points |-> {}, events |-> {}] /\ over = sent /\ cut = {}

\* A deque of limited length, the new elements on the right.
Extend(q, new, limit) == LET all == q \o new IN SubSeq(all, 1 + IF Len(all) > limit THEN Len(all) - limit ELSE 0, Len(all))
Pushed(q, new, limit) == Elements(q \o new) \ Elements(Extend(q, new, limit))

-----------------------------------------------------------------------------
(* The hooks.                                                              *)

\* on_telemetry(), one numeric field of a reading after the other.
OnTelemetry ==
    LET n == made.points + 1 IN
    /\ n <= MaxPoints
    /\ points' = Extend(points, <<n>>, MaxQueue)
    /\ over' = [over EXCEPT !.points = @ \union Pushed(points, <<n>>, MaxQueue)]
    /\ made' = [made EXCEPT !.points = n]
    /\ UNCHANGED <<phase, events, checks, last, backoff, flush, sent, cut>>

NewEvent ==
    LET n == made.events + 1 IN
    /\ n <= MaxNews
    /\ events' = Extend(events, <<n>>, MaxEvents)
    /\ over' = [over EXCEPT !.events = @ \union Pushed(events, <<n>>, MaxEvents)]
    /\ made' = [made EXCEPT !.events = n]
    /\ UNCHANGED <<phase, points, checks, backoff, flush, sent, cut>>

OnAlert == NewEvent /\ UNCHANGED last

\* on_state(): a board that says again what it said before is no news.
OnState(b, state) ==
    /\ last[b] # state
    /\ last' = [last EXCEPT ![b] = state]
    /\ NewEvent

-----------------------------------------------------------------------------
(* flush().  Each of the three loops takes its next piece, or goes on to   *)
(* the next loop.                                                          *)

Least(n) == IF n < PerPost THEN n ELSE PerPost

FlushOver ==
    /\ flush' = AtRest
    /\ phase' = IF phase = "stopping" THEN "stopped" ELSE phase

NextChecks(left, all) ==
    IF left # {}
    THEN /\ \E S \in SUBSET left :
                Cardinality(S) = Least(Cardinality(left)) /\ flush' = [pc |-> "checks", batch |-> <<>>, left |-> left \ S]
         /\ checks' = all /\ UNCHANGED phase
    ELSE checks' = {} /\ FlushOver

NextEvent(q, all) ==
    /\ events' = q
    /\ IF q # <<>>
       THEN flush' = [pc |-> "events", batch |-> <<Head(q)>>, left |-> {}] /\ checks' = all /\ UNCHANGED phase
       ELSE NextChecks(all, all)

NextBatch(q, all) ==
    IF q # <<>>
    THEN /\ flush' = [pc |-> "points", batch |-> SubSeq(q, 1, Least(Len(q))), left |-> {}]
         /\ points' = SubSeq(q, Least(Len(q)) + 1, Len(q))
         /\ checks' = all /\ UNCHANGED <<phase, events>>
    ELSE points' = q /\ NextEvent(events, all)

\* flush() up to its first await, called by _loop() or by stop(): the points
\* and the checks of the fleet are collected first.
Flush ==
    LET new == [i \in 1..FleetPoints |-> made.points + i] IN
    /\ phase \in {"up", "stopping"} /\ flush.pc = "rest" /\ ~backoff
    /\ made.points <= MaxPoints - FleetPoints
    /\ made' = [made EXCEPT !.points = @ + FleetPoints]
    /\ over' = [over EXCEPT !.points = @ \union Pushed(points, new, MaxQueue)]
    /\ NextBatch(Extend(points, new, MaxQueue), Boards)
    /\ UNCHANGED <<last, backoff, sent, cut>>

\* It returns at once, in the time of a backoff.
NoFlush ==
    /\ phase = "stopping" /\ flush.pc = "rest" /\ backoff
    /\ phase' = "stopped"
    /\ UNCHANGED <<points, events, checks, last, backoff, flush, made, sent, over, cut>>

PointsPosted ==
    /\ flush.pc = "points"
    /\ sent' = [sent EXCEPT !.points = @ \union Elements(flush.batch)]
    /\ NextBatch(points, checks)
    /\ UNCHANGED <<last, backoff, made, over, cut>>

\* The event at the head goes, which is not the one that was posted when that
\* one has been pushed out meanwhile.
EventPosted ==
    /\ flush.pc = "events"
    /\ sent' = [sent EXCEPT !.events = @ \union Elements(flush.batch)]
    /\ over' = [over EXCEPT !.events = @ \union ({Head(events)} \ Elements(flush.batch))]
    /\ NextEvent(Tail(events), checks)
    /\ UNCHANGED <<points, last, backoff, made, cut>>

ChecksPosted ==
    /\ flush.pc = "checks"
    /\ NextChecks(flush.left, checks)
    /\ UNCHANGED <<points, events, last, backoff, made, sent, over, cut>>

\* Deviation: extendleft() of the batch as it is.
RequeueReversed(batch) == [i \in DOMAIN batch |-> batch[Len(batch) + 1 - i]] \o points

\* extendleft() of the reversed batch.
Requeue(batch) == batch \o points

\* A POST fails.  A batch of points goes back to where it came from, and a queue
\* that has filled up again gives way on the other side.
PostFails ==
    LET batch == IF flush.pc = "points" THEN flush.batch ELSE <<>>
        all == Requeue(batch)
        kept == SubSeq(all, 1, IF Len(all) > MaxQueue THEN MaxQueue ELSE Len(all)) IN
    /\ flush.pc # "rest"
    /\ points' = kept
    /\ over' = [over EXCEPT !.points = @ \union (Elements(all) \ Elements(kept))]
    /\ backoff' = TRUE
    /\ FlushOver
    /\ UNCHANGED <<events, checks, last, made, sent, cut>>

BackoffEnds ==
    /\ backoff /\ backoff' = FALSE
    /\ UNCHANGED <<phase, points, events, checks, last, flush, made, sent, over, cut>>

\* stop() cancels the loop: a batch on its way is lost with the flush, for
\* CancelledError is no Exception.
Stop ==
    /\ phase = "up" /\ phase' = "stopping"
    /\ cut' = IF flush.pc = "points" THEN Elements(flush.batch) ELSE {}
    /\ flush' = AtRest
    /\ UNCHANGED <<points, events, checks, last, backoff, made, sent, over>>

Next ==
    \/ OnTelemetry \/ OnAlert \/ \E b \in Boards, state \in {"online", "offline"} : OnState(b, state)
    \/ Flush \/ NoFlush \/ PointsPosted \/ EventPosted \/ ChecksPosted \/ PostFails \/ BackoffEnds \/ Stop

Spec == Init /\ [][Next]_vars

-----------------------------------------------------------------------------

\* Whatever fails and whenever the queues are full: the points are kept in the
\* order in which they were made, each is in the queue, in the batch, posted, or
\* lost to a full queue or to stop(), and none is posted again once a POST was
\* answered.  No event goes but by a POST or because the queue was full.
\* flush() and the hooks of datadog.py.
PointsAccounted ==
    /\ \A i, j \in DOMAIN points : i < j => points[i] < points[j]
    /\ 1..made.points \subseteq sent.points \union over.points \union cut \union Elements(points)
                                 \union (IF flush.pc = "points" THEN Elements(flush.batch) ELSE {})
    /\ sent.points \intersect Elements(points) = {}
    /\ 1..made.events \subseteq sent.events \union over.events \union Elements(events)

=============================================================================
