---------------------------- MODULE DnsResolver ----------------------------
(***************************************************************************)
(* DnsService of the fleet host: the queries of the LAN on their way from  *)
(* the listener through handle() to an answer, the cache, and the rows     *)
(* that _record() leaves to the writer task, which puts them in the store  *)
(* a batch at a time.  An action is what a coroutine does from one await   *)
(* to the next.                                                            *)
(*                                                                         *)
(* A query is its number.  An answer is the number of the query it was     *)
(* fetched for; which cached answers have outlived their TTL is left open. *)
(* The connection to the database is shared with the other coroutines of   *)
(* the host: db is what the statements wrote, saved what some commit() has *)
(* made durable.  lan_devices.query_count is the set of queries counted.   *)
(* A definition that is called a deviation is an operation with a mistake  *)
(* in it, to be put in the place of the one that follows it.               *)
(***************************************************************************)
EXTENDS Integers, Sequences, FiniteSets

CONSTANTS
    Keys,         \* questions: <<name, type>>
    Upstreams,    \* how many resolvers dns_upstreams names
    MaxInflight,  \* MAX_INFLIGHT
    MaxCache,     \* MAX_CACHE
    MaxQueries,   \* bound of the model: datagrams that arrive
    Faults        \* bound of the model: what may go wrong

ASSUME DnsAssumption ==
    /\ Upstreams \in Nat \ {0} /\ MaxInflight \in Nat \ {0} /\ MaxCache \in Nat /\ MaxQueries \in Nat
    /\ Faults \subseteq {"bind", "store", "crash", "upstream", "prune", "stop"}

VARIABLES
    phase,     \* "new" before start(), "unbound" if it failed, "up", "stopping" in stop(),
               \* "stopped", or "down": the store is closed
    asked,     \* the datagrams that arrived: the question of each, or what is wrong with it
    inflight,  \* _inflight: the queries with a task
    upstream,  \* which upstream handle() of each query asks, 0 before it asks one
    reply,     \* what the client of each query was sent: the number of an answer
    cache,     \* _cache: the answer held for each question
    expired,   \* the entries of the cache past their lifetime
    pending,   \* _pending
    writer,    \* where _writer_loop() is, with its batch
    db,        \* the two tables as the connection sees them
    saved,     \* the two tables as of the last commit
    excused,   \* rows that were given up, or deleted by prune_dns()
    cut,       \* rows whose insert_dns_batch() was left half done
    late       \* rows recorded when the writer had begun its last batch, or had ended

vars == <<phase, asked, inflight, upstream, reply, cache, expired, pending, writer, db, saved, excused, cut, late>>
requests == <<asked, inflight, upstream, reply, cache, expired>>
rows == <<pending, writer, db, saved, excused, cut, late>>

Refused == <<"not allowed", "or not parsed">>
Questions == Keys \union {Refused}
Nothing == 0
ServFail == -1
Queries == 1..Len(asked)
Arrived == Len(asked)
NoRows == [queries |-> {}, counted |-> {}]
Idle == [pc |-> "sleep", batch |-> {}, last |-> FALSE]

DnsTypeOK ==
    /\ phase \in {"new", "unbound", "up", "stopping", "stopped", "down"}
    /\ asked \in Seq(Questions) /\ Arrived <= MaxQueries
    /\ inflight \subseteq Queries /\ Cardinality(inflight) <= MaxInflight
    /\ upstream \in [Queries -> 0..Upstreams]
    /\ reply \in [Queries -> {Nothing, ServFail} \union Queries]
    /\ DOMAIN cache \subseteq Keys /\ Cardinality(DOMAIN cache) <= MaxCache
    /\ \A k \in DOMAIN cache : cache[k] \in Queries
    /\ expired \subseteq DOMAIN cache
    /\ pending \subseteq Queries
    /\ writer \in [pc : {"sleep", "rows", "counts", "commit", "done"}, batch : SUBSET Queries, last : BOOLEAN]
    /\ db \in [queries : SUBSET Queries, counted : SUBSET Queries]
    /\ saved \in [queries : SUBSET Queries, counted : SUBSET Queries]
    /\ excused \subseteq Queries /\ cut \subseteq Queries /\ late \subseteq Queries

Init ==
    /\ phase = "new"
    /\ asked = <<>> /\ inflight = {} /\ upstream = <<>> /\ reply = <<>>
    /\ cache = <<>> /\ expired = {}
    /\ pending = {} /\ writer = Idle
    /\ db = NoRows /\ saved = NoRows
    /\ excused = {} /\ cut = {} /\ late = {}

GiveUp(S) == excused' = excused \union S

-----------------------------------------------------------------------------
(* The start.                                                              *)

\* _bind(): the socket, and the thread that reads it.
Bind == phase' = "up"

\* start(): without a socket nothing else is started, and the host does without
\* its resolver.
Start ==
    /\ phase = "new"
    /\ Bind \/ ("bind" \in Faults /\ phase' = "unbound")
    /\ UNCHANGED <<requests, rows>>

-----------------------------------------------------------------------------
(* The request path.                                                       *)

\* _read_loop() hands what it receives to the loop; an error of recvfrom() does
\* not end it, and stop() after the datagram it waits for.
Reading == phase \in {"up", "stopping"}

\* datagram_received(): a task of its own, unless too many run already.
Datagram(q) ==
    /\ Reading /\ Arrived < MaxQueries
    /\ asked' = Append(asked, q)
    /\ inflight' = IF Cardinality(inflight) < MaxInflight THEN inflight \union {Arrived + 1} ELSE inflight
    /\ upstream' = Append(upstream, 0)
    /\ reply' = Append(reply, Nothing)
    /\ UNCHANGED <<phase, cache, expired, rows>>

\* The writer takes nothing from _pending any more.
LastTaken == writer.last \/ writer.pc = "done"

\* _record()
Record(i) ==
    /\ pending' = pending \union {i}
    /\ late' = IF LastTaken THEN late \union {i} ELSE late
    /\ UNCHANGED <<writer, db, saved, excused, cut>>

Send(i, answer) == reply' = [reply EXCEPT ![i] = IF phase \in {"up", "stopping"} THEN answer ELSE @]
Finish(i) == inflight' = inflight \ {i}
New(i) == i \in inflight /\ upstream[i] = 0

\* The future of the query waits for the first datagram of its upstream, or an error.
Waits(i) == i \in inflight /\ upstream[i] # 0

\* What parse_answers() tells of a response.
Responses == [ok : BOOLEAN, answers : BOOLEAN]

CacheKey(k) == k
Hit(k) == CacheKey(k) \in DOMAIN cache \ expired

\* handle() of a client that is not allowed, or of no question at all.
Ignore(i) ==
    /\ New(i) /\ asked[i] \notin Keys
    /\ Finish(i)
    /\ UNCHANGED <<phase, asked, upstream, reply, cache, expired, rows>>

\* handle(), answered from the cache.
FromCache(i) ==
    /\ New(i) /\ asked[i] \in Keys /\ Hit(asked[i])
    /\ Send(i, cache[CacheKey(asked[i])])
    /\ Finish(i)
    /\ Record(i)
    /\ UNCHANGED <<phase, asked, upstream, cache, expired>>

\* handle() up to the first await of _forward().
Forward(i) ==
    /\ New(i) /\ asked[i] \in Keys /\ ~Hit(asked[i])
    /\ upstream' = [upstream EXCEPT ![i] = 1]
    /\ UNCHANGED <<phase, asked, inflight, reply, cache, expired, rows>>

\* Deviation: only what has expired is evicted.
EvictExpired(held, stale) == {IF Cardinality(DOMAIN held) <= MaxCache THEN DOMAIN held ELSE DOMAIN held \ stale}

\* What is left of the cache: over the cap what has expired goes, then as many
\* entries as are still too many, the soonest to expire first.
Evict(held, stale) ==
    LET live == DOMAIN held \ stale IN
    IF Cardinality(DOMAIN held) <= MaxCache THEN {DOMAIN held}
    ELSE IF Cardinality(live) <= MaxCache THEN {live}
    ELSE {S \in SUBSET live : Cardinality(S) = MaxCache}

\* An upstream answers: the client gets it, and answers without an error are cached.
Answer(i, response) ==
    LET k == CacheKey(asked[i])
        held == [j \in DOMAIN cache \union {k} |-> IF j = k THEN i ELSE cache[j]] IN
    /\ Waits(i)
    /\ Send(i, i)
    /\ Finish(i)
    /\ IF response.ok /\ response.answers
       THEN \E S \in Evict(held, expired \ {k}) :
                /\ cache' = [j \in S |-> held[j]]
                /\ expired' = (expired \ {k}) \intersect S
       ELSE UNCHANGED <<cache, expired>>
    /\ Record(i)
    /\ UNCHANGED <<phase, asked, upstream>>

\* An upstream times out, fails, or answers something else: the next one.
NextUpstream(i) ==
    /\ "upstream" \in Faults
    /\ Waits(i) /\ upstream[i] < Upstreams
    /\ upstream' = [upstream EXCEPT ![i] = @ + 1]
    /\ UNCHANGED <<phase, asked, inflight, reply, cache, expired, rows>>

\* Deviation: the client is left to its own timeout.
FailSilently(i) ==
    /\ "upstream" \in Faults
    /\ Waits(i) /\ upstream[i] = Upstreams
    /\ Finish(i)
    /\ Record(i)
    /\ UNCHANGED <<phase, asked, upstream, reply, cache, expired>>

\* No upstream is left: SERVFAIL.
Fail(i) ==
    /\ "upstream" \in Faults
    /\ Waits(i) /\ upstream[i] = Upstreams
    /\ Send(i, ServFail)
    /\ Finish(i)
    /\ Record(i)
    /\ UNCHANGED <<phase, asked, upstream, cache, expired>>

\* The lifetime of an entry of the cache ends.
Expire(k) ==
    /\ phase # "down"
    /\ expired' = expired \union {k}
    /\ UNCHANGED <<phase, asked, inflight, upstream, reply, cache, rows>>

Lookup(i) == Ignore(i) \/ FromCache(i) \/ Forward(i)
Relay(i) == (\E r \in Responses : Answer(i, r)) \/ NextUpstream(i) \/ Fail(i)

-----------------------------------------------------------------------------
(* The rows.                                                               *)

\* _writer_loop() wakes up, takes what is pending and starts insert_dns_batch().
Swap ==
    /\ phase = "up" /\ writer.pc = "sleep" /\ pending # {}
    /\ writer' = [writer EXCEPT !.pc = "rows", !.batch = pending]
    /\ pending' = {}
    /\ UNCHANGED <<phase, requests, db, saved, excused, cut, late>>

\* The rows that are counted once the first statement is over.  The last batch
\* is _pending itself, with all that was recorded meanwhile.
Seen == IF writer.last THEN pending ELSE writer.batch

\* Its first statement: the rows of dns_queries.
InsertRows ==
    /\ writer.pc = "rows"
    /\ db' = [db EXCEPT !.queries = @ \union writer.batch]
    /\ writer' = [writer EXCEPT !.pc = "counts", !.batch = Seen]
    /\ UNCHANGED <<phase, requests, pending, saved, excused, cut, late>>

\* Its second: how often each client asked.
InsertCounts ==
    /\ writer.pc = "counts"
    /\ db' = [db EXCEPT !.counted = @ \union writer.batch]
    /\ writer' = [writer EXCEPT !.pc = "commit"]
    /\ UNCHANGED <<phase, requests, pending, saved, excused, cut, late>>

AfterBatch == IF writer.last THEN [Idle EXCEPT !.pc = "done"] ELSE Idle

\* Deviation: _pending is emptied once the batch is in the store.
CommitAndClear ==
    /\ writer.pc = "commit"
    /\ saved' = db
    /\ pending' = {}
    /\ writer' = AfterBatch
    /\ UNCHANGED <<phase, requests, db, excused, cut, late>>

CommitBatch ==
    /\ writer.pc = "commit"
    /\ saved' = db
    /\ writer' = AfterBatch
    /\ UNCHANGED <<phase, requests, pending, db, excused, cut, late>>

\* A statement of the batch fails: the batch is given up, not rolled back.
BatchFails ==
    /\ "store" \in Faults
    /\ writer.pc \in {"rows", "counts", "commit"}
    /\ GiveUp(writer.batch \ db.queries)
    /\ cut' = cut \union writer.batch
    /\ writer' = AfterBatch
    /\ UNCHANGED <<phase, requests, pending, db, saved, late>>

\* Another coroutine of the host commits on the same connection.
OtherCommit ==
    /\ phase # "down" /\ saved # db
    /\ saved' = db
    /\ UNCHANGED <<phase, requests, pending, writer, db, excused, cut, late>>

\* prune_dns() deletes the old rows, the counts stay.
UpTo(newest) == {i \in db.queries : i <= newest}

\* _pruner_loop(), once an hour.
Prune ==
    /\ "prune" \in Faults /\ phase = "up"
    /\ \E newest \in db.queries :
        /\ db' = [db EXCEPT !.queries = @ \ UpTo(newest)]
        /\ GiveUp(UpTo(newest))
    /\ saved' = db'
    /\ UNCHANGED <<phase, requests, pending, writer, cut, late>>

-----------------------------------------------------------------------------
(* Shutdown.                                                               *)

\* stop() cancels the writer.  A statement under way has been handed to the
\* thread of the connection and is executed all the same, the rest of the batch
\* is not.  What is pending by then is the last batch, and stays where it is, in
\* the list that _record() appends to.
Stop ==
    LET last == [pc |-> IF pending = {} THEN "done" ELSE "rows", batch |-> pending, last |-> TRUE] IN
    /\ "stop" \in Faults /\ phase = "up"
    /\ phase' = "stopping"
    /\ writer' = last
    /\ db' = [queries |-> IF writer.pc = "rows" THEN db.queries \union writer.batch ELSE db.queries,
              counted |-> IF writer.pc = "counts" THEN db.counted \union writer.batch ELSE db.counted]
    /\ saved' = IF writer.pc = "commit" THEN db ELSE saved
    /\ cut' = IF writer.pc \in {"rows", "counts"} THEN cut \union writer.batch ELSE cut
    /\ UNCHANGED <<requests, pending, excused, late>>

\* The writer has ended; the listener is closed.
Stopped ==
    /\ phase = "stopping" /\ writer.pc = "done"
    /\ phase' = "stopped"
    /\ UNCHANGED <<requests, rows>>

\* The loop ends; close() of the store commits.
Closed ==
    /\ phase = "stopped"
    /\ phase' = "down"
    /\ inflight' = {}
    /\ saved' = db
    /\ cache' = <<>> /\ expired' = {}
    /\ UNCHANGED <<asked, upstream, reply, pending, writer, db, excused, cut, late>>

\* The process is killed.
Crash ==
    /\ "crash" \in Faults /\ phase \in {"up", "stopping", "stopped"}
    /\ phase' = "down"
    /\ inflight' = {}
    /\ db' = saved
    /\ writer' = [Idle EXCEPT !.pc = "done"]
    /\ pending' = {}
    /\ GiveUp((pending \union writer.batch \union db.queries) \ saved.queries)
    /\ cut' = cut \union writer.batch
    /\ cache' = <<>> /\ expired' = {}
    /\ UNCHANGED <<asked, upstream, reply, saved, late>>

Next ==
    \/ Start
    \/ \E q \in Questions : Datagram(q)
    \/ \E i \in Queries : Lookup(i) \/ Relay(i)
    \/ \E k \in DOMAIN cache \ expired : Expire(k)
    \/ Swap \/ InsertRows \/ InsertCounts \/ CommitBatch \/ BatchFails \/ OtherCommit \/ Prune
    \/ Stop \/ Stopped \/ Closed \/ Crash

Spec == Init /\ [][Next]_vars

\* The loop runs, and wait_for() ends every wait for an upstream.  A query takes a
\* few steps, so that it is enough if one of them goes on.
Fairness == WF_vars(\E i \in Queries : Lookup(i) \/ Relay(i))

FairSpec == Spec /\ Fairness

-----------------------------------------------------------------------------
(* What the resolver promises.                                             *)

Recorded == {i \in Queries : i \notin inflight /\ reply[i] # Nothing}

\* A durable row is counted for its client, but for a batch under way and one
\* that was left half done or crashed.
CountsCoverRows == saved.queries \ saved.counted \subseteq cut \union writer.batch

\* A durable count is of a row that was written, whether or not it has been
\* pruned since, or of one that came too late for it.
CountsAreOfRows == saved.counted \subseteq saved.queries \union excused \union late

\* The rows that the writer will take.
Awaiting == IF LastTaken THEN {} ELSE pending

\* Where the row of a query is that was answered, or why there is none.
Logged(i) == i \in Awaiting \union writer.batch \union db.queries \union excused

\* A query that was answered leaves a row: the writer has still to take it, has it
\* in its batch, or has put it in the table, from where it may have been pruned, or
\* it was given up by a crash, a failed or an interrupted batch.  Only rows of
\* answers that were given after stop() are left in _pending for good.  What is
\* durable of a row is counted and, but for those late ones, the other way round,
\* although insert_dns_batch() is two statements and a commit on a connection
\* where every other coroutine commits as well.  _record(), _writer_loop() and
\* stop() of dns_resolver.py.
RowsAccounted ==
    /\ \A i \in Recorded \ late : Logged(i)
    /\ late # {} => phase \in {"stopping", "stopped", "down"}
    /\ CountsCoverRows /\ CountsAreOfRows

Unanswered == {i \in inflight : asked[i] \in Keys /\ reply[i] = Nothing}

\* A query that got a task is answered, by SERVFAIL at worst, unless the host
\* stops first: its task does not end without an answer, and it does end, with any
\* upstream failing.  handle() and _forward().
EveryClientAnswered ==
    /\ [][phase' \notin {"stopped", "down"} => \A i \in Unanswered \ inflight' : reply'[i] # Nothing]_vars
    /\ Unanswered # {} ~> Unanswered = {} \/ phase \in {"stopped", "down"}

=============================================================================
