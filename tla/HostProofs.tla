----------------------------- MODULE HostProofs -----------------------------
(***************************************************************************)
(* What runs on the host beside the registry, proved part by part for all  *)
(* values of the constants: the rows of the DNS resolver, the alerts and   *)
(* the light of the network watch, the verdict that the network sentinel   *)
(* tells, the points and events of the export to Datadog, and the types of *)
(* all parts, of the sweep of the LAN and of the serial bridge too. Each   *)
(* part has an invariant of its own, and HostSpec implies the              *)
(* specification of each part.                                             *)
(***************************************************************************)
EXTENDS MCHost, SequenceTheorems, FiniteSetTheorems, TLAPS

-----------------------------------------------------------------------------
(* The rows of the resolver.                                               *)

\* What is kept of queries is of queries that arrived.
DnsTyped ==
    /\ asked \in Seq(Questions)
    /\ inflight \subseteq Queries /\ reply \in [Queries -> {Nothing, ServFail} \union Queries]
    /\ pending \subseteq Queries
    /\ writer \in [pc : {"sleep", "rows", "counts", "commit", "done"}, batch : SUBSET Queries, last : BOOLEAN]
    /\ db \in [queries : SUBSET Queries, counted : SUBSET Queries]
    /\ saved \in [queries : SUBSET Queries, counted : SUBSET Queries]
    /\ late \subseteq Queries

\* A task that runs has sent nothing; the cache holds answers to queries.
TasksUnanswered ==
    /\ \A i \in inflight : reply[i] = Nothing
    /\ \A k \in DOMAIN cache : cache[k] \in Queries

\* How far the batch has come.  Before its rows are in, the last one lacks of
\* the list it was taken from only what came too late.
BatchStory ==
    /\ writer.pc \in {"sleep", "done"} => writer.batch = {}
    /\ writer.pc \in {"counts", "commit"} => writer.batch \subseteq db.queries \union excused \union late
    /\ writer.pc = "commit" => writer.batch \subseteq db.counted
    /\ (writer.last /\ writer.pc = "rows") => (writer.batch \subseteq pending /\ pending \subseteq writer.batch \union late)

\* The writer takes its last batch, and a row comes too late for it, after
\* stop() only.
Closing == phase \in {"stopping", "stopped", "down"}
PhaseStory == (LastTaken \/ late # {}) => Closing

RowsStory ==
    /\ \A i \in Recorded \ late : Logged(i)
    /\ db.queries \ db.counted \subseteq cut \union writer.batch
    /\ db.counted \subseteq db.queries \union excused \union late
    /\ CountsCoverRows /\ CountsAreOfRows

DnsInv == DnsTyped /\ TasksUnanswered /\ BatchStory /\ PhaseStory /\ RowsStory

\* What the steps of the writer make of its record and of the tables.
LEMMA DnsFields ==
    ASSUME DnsTyped
    PROVE  /\ Swap => writer'.pc = "rows" /\ writer'.batch = pending /\ writer'.last = writer.last
           /\ InsertRows => /\ writer'.pc = "counts" /\ writer'.batch = Seen /\ writer'.last = writer.last
                            /\ db'.queries = db.queries \union writer.batch /\ db'.counted = db.counted
           /\ InsertCounts => /\ writer'.pc = "commit" /\ writer'.batch = writer.batch /\ writer'.last = writer.last
                              /\ db'.queries = db.queries /\ db'.counted = db.counted \union writer.batch
           /\ AfterBatch.pc = (IF writer.last THEN "done" ELSE "sleep") /\ AfterBatch.batch = {} /\ AfterBatch.last = FALSE
           /\ \A S : LET t == [db EXCEPT !.queries = @ \ S] IN t.queries = db.queries \ S /\ t.counted = db.counted
BY DEF DnsTyped, Swap, InsertRows, InsertCounts, AfterBatch, Idle

\* What a query leaves when it ends: Recorded grows by it at most.
LEMMA RecordKeeps ==
    ASSUME DnsInv, NEW i \in Queries, Record(i), Finish(i), asked' = asked, phase' = phase,
           \A j \in DOMAIN cache' : cache'[j] \in Queries,
           reply' = reply \/ \E answer \in {Nothing, ServFail} \union Queries : Send(i, answer)
    PROVE  DnsInv'
<1>0. DnsTyped /\ TasksUnanswered /\ BatchStory /\ PhaseStory /\ RowsStory
  BY DEF DnsInv
<1>1. /\ Queries' = Queries /\ inflight' = inflight \ {i} /\ pending' = pending \union {i}
      /\ UNCHANGED <<writer, db, saved, excused, cut>> /\ phase' = phase
      /\ late' = IF LastTaken THEN late \union {i} ELSE late
  BY DEF Record, Finish, Queries, Arrived
<1>2. reply' \in [Queries -> {Nothing, ServFail} \union Queries] /\ \A j \in Queries \ {i} : reply'[j] = reply[j]
  BY <1>0 DEF DnsTyped, Send
<1>3. DnsTyped'
  BY <1>0, <1>1, <1>2 DEF DnsTyped
<1>4. TasksUnanswered'
  BY <1>0, <1>1, <1>2 DEF TasksUnanswered, DnsTyped
<1>5. BatchStory' /\ PhaseStory'
  <2>1. LastTaken' = LastTaken /\ Closing' = Closing /\ late \subseteq late' /\ (writer.last => i \in late')
    BY <1>1 DEF LastTaken, Closing
  <2>2. BatchStory'
    BY <1>0, <1>1, <2>1 DEF BatchStory
  <2>3. PhaseStory'
    BY <1>0, <1>1, <2>1 DEF PhaseStory
  <2> QED BY <2>2, <2>3
<1>6. RowsStory'
  <2>1. late \subseteq late'
    BY <1>1
  <2>2. \A j \in Recorded' \ late' : Logged(j)'
    <3> SUFFICES ASSUME NEW j \in Recorded', j \notin late' PROVE Logged(j)'
      OBVIOUS
    <3>1. LastTaken' = LastTaken
      BY <1>1 DEF LastTaken
    <3>2. CASE j = i
      BY <1>1, <3>1, <3>2 DEF Logged, Awaiting
    <3>3. CASE j # i
      <4>1. j \in Recorded \ late
        BY <1>1, <1>2, <2>1, <3>3 DEF Recorded
      <4> QED BY <1>0, <1>1, <3>1, <4>1 DEF RowsStory, Logged, Awaiting
    <3> QED BY <3>2, <3>3
  <2> QED BY <1>0, <1>1, <2>1, <2>2 DEF RowsStory, CountsCoverRows, CountsAreOfRows
<1> QED BY <1>3, <1>4, <1>5, <1>6 DEF DnsInv

\* Steps that add no query and no row, and take none away.
LEMMA QuietDns ==
    ASSUME DnsInv, UNCHANGED <<asked, reply, rows>>, Closing => Closing',
           inflight' = inflight \/ \E i \in inflight : reply[i] = Nothing /\ inflight' = inflight \ {i},
           \A j \in DOMAIN cache' : cache'[j] \in Queries
    PROVE  DnsInv'
<1>0. DnsTyped /\ TasksUnanswered /\ BatchStory /\ PhaseStory /\ RowsStory
  BY DEF DnsInv
<1>1. Queries' = Queries /\ UNCHANGED <<pending, writer, db, saved, excused, cut, late>>
  BY DEF Queries, Arrived, rows
<1>2. DnsTyped' /\ TasksUnanswered'
  BY <1>0, <1>1 DEF DnsTyped, TasksUnanswered
<1>3. Recorded' = Recorded /\ LastTaken' = LastTaken
  BY <1>1 DEF Recorded, LastTaken
<1>4. BatchStory' /\ PhaseStory'
  BY <1>0, <1>1, <1>3 DEF BatchStory, PhaseStory
<1>5. RowsStory'
  BY <1>0, <1>1, <1>3 DEF RowsStory, CountsCoverRows, CountsAreOfRows, Logged, Awaiting
<1> QED BY <1>2, <1>4, <1>5 DEF DnsInv

\* Steps of the writer and the pruner: the queries and their answers stay.
LEMMA RowSteps ==
    ASSUME DnsInv, UNCHANGED requests, late' = late,
           DnsTyped', BatchStory', PhaseStory',
           \A i \in Recorded \ late : Logged(i) => Logged(i)',
           db'.queries \ db'.counted \subseteq cut' \union writer'.batch,
           saved'.queries \ saved'.counted \subseteq cut' \union writer'.batch,
           db'.counted \subseteq db'.queries \union excused' \union late,
           saved'.counted \subseteq saved'.queries \union excused' \union late
    PROVE  DnsInv'
<1>0. TasksUnanswered /\ RowsStory
  BY DEF DnsInv
<1>1. Queries' = Queries /\ Recorded' = Recorded /\ TasksUnanswered'
  BY <1>0 DEF Queries, Arrived, requests, Recorded, TasksUnanswered
<1>2. \A i \in Recorded' \ late' : Logged(i)'
  BY <1>0, <1>1 DEF RowsStory
<1>3. RowsStory'
  BY <1>2 DEF RowsStory, CountsCoverRows, CountsAreOfRows
<1> QED BY <1>1, <1>3 DEF DnsInv

\* A datagram makes a query, which has no row and no answer.
LEMMA DatagramKeeps ==
    ASSUME DnsInv, NEW q \in Questions, Datagram(q)
    PROVE  DnsInv'
<1>0. DnsTyped /\ TasksUnanswered /\ BatchStory /\ PhaseStory /\ RowsStory
  BY DEF DnsInv
<1>1. /\ asked' = Append(asked, q) /\ reply' = Append(reply, Nothing) /\ inflight' \subseteq inflight \union {Arrived + 1}
      /\ UNCHANGED <<phase, cache, pending, writer, db, saved, excused, cut, late>> /\ phase # "down"
  BY DEF Datagram, rows, Reading
<1>2. /\ asked' \in Seq(Questions) /\ Arrived \in Nat /\ Arrived' = Arrived + 1
  BY <1>0, <1>1, AppendProperties, LenProperties DEF DnsTyped, Arrived
<1>3. Queries' = Queries \union {Arrived + 1} /\ Arrived + 1 \notin Queries
  BY <1>2 DEF Queries, Arrived
<1>4. reply \in Seq({Nothing, ServFail} \union Queries) /\ Len(reply) = Arrived
  <2>1. reply \in [1..Arrived -> {Nothing, ServFail} \union Queries]
    BY <1>0 DEF DnsTyped, Queries, Arrived
  <2> QED BY <1>2, <2>1, SeqDef, LenProperties
<1>5. /\ reply' \in [Queries' -> {Nothing, ServFail} \union Queries']
      /\ \A i \in Queries : reply'[i] = reply[i]
      /\ reply'[Arrived + 1] = Nothing
  <2>1. /\ reply' \in Seq({Nothing, ServFail} \union Queries) /\ Len(reply') = Arrived + 1
        /\ \A i \in 1..Arrived : reply'[i] = reply[i]
        /\ reply'[Arrived + 1] = Nothing
    <3>1. Nothing \in {Nothing, ServFail} \union Queries
      OBVIOUS
    <3> HIDE DEF Queries
    <3> QED BY <1>1, <1>4, <3>1, AppendProperties
  <2>2. DOMAIN reply' = Queries' /\ \A i \in Queries' : reply'[i] \in {Nothing, ServFail} \union Queries
    <3>1. DOMAIN reply' = 1..(Arrived + 1) /\ Queries' = 1..(Arrived + 1)
      BY <2>1, <1>2, LenProperties DEF Queries, Arrived
    <3>2. \A i \in 1..Len(reply') : reply'[i] \in {Nothing, ServFail} \union Queries
      BY <2>1, ElementOfSeq
    <3> QED BY <2>1, <3>1, <3>2
  <2>3. reply' = [i \in DOMAIN reply' |-> reply'[i]]
    BY <2>1, LenProperties
  <2>4. Queries = 1..Arrived
    BY DEF Queries, Arrived
  <2> QED BY <1>3, <2>1, <2>2, <2>3, <2>4
<1>6. DnsTyped'
  BY <1>0, <1>1, <1>2, <1>3, <1>5 DEF DnsTyped
<1>7. TasksUnanswered'
  BY <1>0, <1>1, <1>3, <1>5 DEF TasksUnanswered, DnsTyped
<1>8. BatchStory' /\ PhaseStory'
  BY <1>0, <1>1 DEF BatchStory, PhaseStory, LastTaken, Closing
<1>9. Recorded' \subseteq Recorded
  <2> SUFFICES ASSUME NEW i \in Queries', i \notin inflight', reply'[i] # Nothing
               PROVE  i \in Queries /\ i \notin inflight /\ reply[i] # Nothing
    BY DEF Recorded
  <2>1. i \in Queries
    BY <1>3, <1>5
  <2>2. reply[i] # Nothing
    BY <2>1, <1>5
  <2>3. i \notin inflight
    BY <2>2, <1>0 DEF TasksUnanswered
  <2> QED BY <2>1, <2>2, <2>3
<1>10. RowsStory'
  BY <1>0, <1>1, <1>9 DEF RowsStory, CountsCoverRows, CountsAreOfRows, Logged, Awaiting, LastTaken
<1> QED BY <1>6, <1>7, <1>8, <1>10 DEF DnsInv

\* The steps of the writer loop.
LEMMA WriterKeeps ==
    ASSUME DnsInv, Swap \/ InsertRows \/ InsertCounts \/ CommitBatch \/ BatchFails
    PROVE  DnsInv'
<1>0. DnsTyped /\ BatchStory /\ PhaseStory /\ RowsStory
  BY DEF DnsInv
<1>a. /\ db.queries \subseteq Queries /\ db.counted \subseteq Queries /\ writer.batch \subseteq Queries
      /\ pending \subseteq Queries
  BY <1>0 DEF DnsTyped
<1>c. /\ db.queries \ db.counted \subseteq cut \union writer.batch
      /\ saved.queries \ saved.counted \subseteq cut \union writer.batch
      /\ db.counted \subseteq db.queries \union excused \union late
      /\ saved.counted \subseteq saved.queries \union excused \union late
  BY <1>0 DEF RowsStory, CountsCoverRows, CountsAreOfRows
<1>d. UNCHANGED <<phase, asked, reply, inflight, late>> /\ UNCHANGED requests /\ Queries' = Queries /\ Closing' = Closing
  BY DEF Swap, InsertRows, InsertCounts, CommitBatch, BatchFails, requests, Queries, Arrived, Closing
<1>1. CASE Swap
  <2>1. /\ writer.pc = "sleep" /\ writer'.pc = "rows" /\ writer'.batch = pending /\ writer'.last = writer.last
        /\ pending' = {} /\ UNCHANGED <<db, saved, excused, cut>> /\ phase = "up"
    BY <1>0, <1>1, DnsFields DEF Swap
  <2>2. writer.batch = {} /\ ~LastTaken /\ ~writer.last
    BY <1>0, <2>1 DEF BatchStory, PhaseStory, Closing, LastTaken
  <2>3. DnsTyped'
    BY <1>0, <1>1, <1>d DEF DnsTyped, Swap
  <2>4. BatchStory' /\ PhaseStory'
    BY <1>0, <1>d, <2>1, <2>2 DEF BatchStory, PhaseStory, LastTaken
  <2>5. \A i \in Recorded \ late : Logged(i) => Logged(i)'
    BY <2>1, <2>2 DEF Logged, Awaiting
  <2> QED BY <1>c, <1>d, <2>1, <2>2, <2>3, <2>4, <2>5, RowSteps
<1>2. CASE InsertRows
  <2>1. /\ writer.pc = "rows" /\ writer'.pc = "counts" /\ writer'.batch = Seen /\ writer'.last = writer.last
        /\ UNCHANGED <<pending, saved, excused, cut>>
        /\ db'.queries = db.queries \union writer.batch /\ db'.counted = db.counted
    BY <1>0, <1>2, DnsFields DEF InsertRows
  <2>2. writer.batch \subseteq Seen /\ Seen \subseteq writer.batch \union late /\ Seen \subseteq Queries
    BY <1>0, <1>a, <2>1 DEF BatchStory, Seen
  <2>3. DnsTyped'
    BY <1>0, <1>a, <1>2, <1>d, <2>2 DEF DnsTyped, InsertRows
  <2>4. BatchStory' /\ PhaseStory'
    BY <1>0, <1>d, <2>1, <2>2 DEF BatchStory, PhaseStory, LastTaken
  <2>5. \A i \in Recorded \ late : Logged(i) => Logged(i)'
    BY <2>1, <2>2 DEF Logged, Awaiting, LastTaken
  <2> QED BY <1>c, <1>d, <2>1, <2>2, <2>3, <2>4, <2>5, RowSteps
<1>3. CASE InsertCounts
  <2>1. /\ writer.pc = "counts" /\ writer'.pc = "commit" /\ writer'.batch = writer.batch /\ writer'.last = writer.last
        /\ UNCHANGED <<pending, saved, excused, cut>>
        /\ db'.queries = db.queries /\ db'.counted = db.counted \union writer.batch
    BY <1>0, <1>3, DnsFields DEF InsertCounts
  <2>2. writer.batch \subseteq db.queries \union excused \union late
    BY <1>0, <2>1 DEF BatchStory
  <2>3. DnsTyped'
    BY <1>0, <1>3, <1>d DEF DnsTyped, InsertCounts
  <2>4. BatchStory' /\ PhaseStory'
    BY <1>0, <1>d, <2>1, <2>2 DEF BatchStory, PhaseStory, LastTaken
  <2>5. \A i \in Recorded \ late : Logged(i) => Logged(i)'
    BY <2>1 DEF Logged, Awaiting, LastTaken
  <2> QED BY <1>c, <1>d, <2>1, <2>2, <2>3, <2>4, <2>5, RowSteps
<1>4. CASE CommitBatch
  <2>1. /\ writer.pc = "commit" /\ writer'.pc = (IF writer.last THEN "done" ELSE "sleep")
        /\ writer'.batch = {} /\ writer'.last = FALSE /\ writer' = AfterBatch
        /\ UNCHANGED <<pending, db, excused, cut>> /\ saved' = db
    BY <1>0, <1>4, DnsFields DEF CommitBatch
  <2>2. writer.batch \subseteq db.queries \union excused \union late /\ writer.batch \subseteq db.counted
    BY <1>0, <2>1 DEF BatchStory
  <2>3. DnsTyped'
    BY <1>0, <1>d, <2>1 DEF DnsTyped, AfterBatch, Idle
  <2>4. BatchStory' /\ PhaseStory'
    BY <1>0, <1>d, <2>1 DEF BatchStory, PhaseStory, LastTaken
  <2>5. \A i \in Recorded \ late : Logged(i) => Logged(i)'
    BY <2>1, <2>2 DEF Logged, Awaiting, LastTaken
  <2> QED BY <1>c, <1>d, <2>1, <2>2, <2>3, <2>4, <2>5, RowSteps
<1>5. CASE BatchFails
  <2>1. /\ writer.pc \in {"rows", "counts", "commit"} /\ writer'.pc = (IF writer.last THEN "done" ELSE "sleep")
        /\ writer'.batch = {} /\ writer'.last = FALSE /\ writer' = AfterBatch
        /\ UNCHANGED <<pending, db, saved>> /\ excused' = excused \union (writer.batch \ db.queries)
        /\ cut' = cut \union writer.batch
    BY <1>0, <1>5, DnsFields DEF BatchFails, GiveUp
  <2>3. DnsTyped'
    BY <1>0, <1>d, <2>1 DEF DnsTyped, AfterBatch, Idle
  <2>4. BatchStory' /\ PhaseStory'
    BY <1>0, <1>d, <2>1 DEF BatchStory, PhaseStory, LastTaken
  <2>5. \A i \in Recorded \ late : Logged(i) => Logged(i)'
    BY <2>1 DEF Logged, Awaiting, LastTaken
  <2> QED BY <1>c, <1>d, <2>1, <2>3, <2>4, <2>5, RowSteps
<1> QED BY <1>1, <1>2, <1>3, <1>4, <1>5

\* stop() of the resolver: what the thread of the connection has in hand is
\* executed, what is pending becomes the last batch and stays where it is.
LEMMA StopKeeps ==
    ASSUME DnsInv, Stop
    PROVE  DnsInv'
<1>0. DnsTyped /\ BatchStory /\ PhaseStory /\ RowsStory
  BY DEF DnsInv
<1>1. /\ writer' = [pc |-> IF pending = {} THEN "done" ELSE "rows", batch |-> pending, last |-> TRUE]
      /\ phase = "up" /\ phase' = "stopping" /\ UNCHANGED requests /\ UNCHANGED <<pending, excused, late>>
      /\ db' = [queries |-> IF writer.pc = "rows" THEN db.queries \union writer.batch ELSE db.queries,
                counted |-> IF writer.pc = "counts" THEN db.counted \union writer.batch ELSE db.counted]
      /\ saved' = IF writer.pc = "commit" THEN db ELSE saved
      /\ cut' = IF writer.pc \in {"rows", "counts"} THEN cut \union writer.batch ELSE cut
  BY DEF Stop
<1>2. UNCHANGED <<asked, reply, inflight>> /\ Queries' = Queries
  BY <1>1 DEF requests, Queries, Arrived
<1>3. /\ writer.pc \in {"sleep", "rows", "counts", "commit", "done"} /\ writer.batch \subseteq Queries /\ pending \subseteq Queries
      /\ db.queries \subseteq Queries /\ db.counted \subseteq Queries
  BY <1>0 DEF DnsTyped
<1>4. DnsTyped'
  <2>1. writer' \in [pc : {"sleep", "rows", "counts", "commit", "done"}, batch : SUBSET Queries, last : BOOLEAN]
    BY <1>1, <1>3
  <2>2. db' \in [queries : SUBSET Queries, counted : SUBSET Queries]
    BY <1>1, <1>3
  <2> QED BY <1>0, <1>1, <1>2, <2>1, <2>2 DEF DnsTyped
<1>5. /\ writer'.pc = (IF pending = {} THEN "done" ELSE "rows") /\ writer'.batch = pending
      /\ db'.queries = (IF writer.pc = "rows" THEN db.queries \union writer.batch ELSE db.queries)
      /\ db'.counted = (IF writer.pc = "counts" THEN db.counted \union writer.batch ELSE db.counted)
  BY <1>1
<1>6. BatchStory' /\ PhaseStory'
  BY <1>1, <1>5 DEF BatchStory, PhaseStory, Closing
<1>7. /\ writer.pc # "rows" => writer.batch \subseteq db.queries \union excused \union late
      /\ ~LastTaken
  BY <1>0, <1>1, <1>3 DEF BatchStory, PhaseStory, Closing
<1>8. \A i \in Recorded \ late : Logged(i) => Logged(i)'
  BY <1>1, <1>5, <1>7 DEF Logged, Awaiting
<1>9. /\ db.queries \ db.counted \subseteq cut \union writer.batch
      /\ saved.queries \ saved.counted \subseteq cut \union writer.batch
      /\ db.counted \subseteq db.queries \union excused \union late
      /\ saved.counted \subseteq saved.queries \union excused \union late
  BY <1>0 DEF RowsStory, CountsCoverRows, CountsAreOfRows
<1>10. /\ db'.queries \ db'.counted \subseteq cut' \union writer'.batch
       /\ saved'.queries \ saved'.counted \subseteq cut' \union writer'.batch
  <2>1. CASE writer.pc \in {"rows", "counts"}
    BY <1>1, <1>5, <1>9, <2>1
  <2>2. CASE writer.pc = "commit"
    BY <1>0, <1>1, <1>5, <1>9, <2>2 DEF BatchStory
  <2>3. CASE writer.pc \in {"sleep", "done"}
    BY <1>0, <1>1, <1>5, <1>9, <2>3 DEF BatchStory
  <2> QED BY <1>3, <2>1, <2>2, <2>3
<1>11. /\ db'.counted \subseteq db'.queries \union excused' \union late
       /\ saved'.counted \subseteq saved'.queries \union excused' \union late
  BY <1>1, <1>5, <1>7, <1>9
<1> QED BY <1>1, <1>4, <1>6, <1>8, <1>10, <1>11, RowSteps

\* The end of the process, ordered or not.
LEMMA EndKeeps ==
    ASSUME DnsInv, Closed \/ Crash
    PROVE  DnsInv'
<1>0. DnsTyped /\ BatchStory /\ PhaseStory /\ RowsStory
  BY DEF DnsInv
<1>1. UNCHANGED <<asked, reply, late>> /\ Queries' = Queries /\ inflight' = {} /\ cache' = <<>> /\ phase' = "down"
  BY DEF Closed, Crash, Queries, Arrived
<1>2. TasksUnanswered' /\ PhaseStory'
  BY <1>1 DEF TasksUnanswered, PhaseStory, Closing
<1>a. /\ db.queries \ db.counted \subseteq cut \union writer.batch
      /\ saved.queries \ saved.counted \subseteq cut \union writer.batch
      /\ db.counted \subseteq db.queries \union excused \union late
      /\ saved.counted \subseteq saved.queries \union excused \union late
      /\ \A i \in Recorded \ late : Logged(i)
  BY <1>0 DEF RowsStory, CountsCoverRows, CountsAreOfRows
<1>b. Recorded' \subseteq Recorded
  BY <1>0, <1>1 DEF Recorded, TasksUnanswered, DnsInv
<1>3. CASE Closed
  <2>1. UNCHANGED <<pending, writer, db, excused, cut>> /\ saved' = db
    BY <1>3 DEF Closed
  <2>2. DnsTyped' /\ BatchStory'
    BY <1>0, <1>1, <2>1 DEF DnsTyped, BatchStory
  <2>3. RowsStory'
    BY <1>1, <1>a, <1>b, <2>1 DEF RowsStory, CountsCoverRows, CountsAreOfRows, Logged, Awaiting, LastTaken
  <2> QED BY <1>2, <2>2, <2>3 DEF DnsInv
<1>4. CASE Crash
  <2>1. /\ db' = saved /\ pending' = {} /\ saved' = saved /\ writer' = [Idle EXCEPT !.pc = "done"]
        /\ excused' = excused \union ((pending \union writer.batch \union db.queries) \ saved.queries)
        /\ cut' = cut \union writer.batch
    BY <1>4 DEF Crash, GiveUp
  <2>2. /\ writer' \in [pc : {"sleep", "rows", "counts", "commit", "done"}, batch : SUBSET Queries, last : BOOLEAN]
        /\ writer'.pc = "done" /\ writer'.batch = {}
    BY <2>1 DEF Idle
  <2>3. DnsTyped' /\ BatchStory'
    BY <1>0, <1>1, <2>1, <2>2 DEF DnsTyped, BatchStory
  <2>4. \A i \in Recorded' \ late' : Logged(i)'
    BY <1>1, <1>a, <1>b, <2>1, <2>2 DEF Logged, Awaiting
  <2>5. RowsStory'
    BY <1>1, <1>a, <2>1, <2>4 DEF RowsStory, CountsCoverRows, CountsAreOfRows
  <2> QED BY <1>2, <2>3, <2>5 DEF DnsInv
<1> QED BY <1>3, <1>4

\* Another coroutine commits, or old rows are deleted.
LEMMA OthersKeep ==
    ASSUME DnsInv, OtherCommit \/ Prune
    PROVE  DnsInv'
<1>0. DnsTyped /\ BatchStory /\ PhaseStory /\ RowsStory
  BY DEF DnsInv
<1>a. /\ db.queries \ db.counted \subseteq cut \union writer.batch
      /\ saved.queries \ saved.counted \subseteq cut \union writer.batch
      /\ db.counted \subseteq db.queries \union excused \union late
      /\ saved.counted \subseteq saved.queries \union excused \union late
  BY <1>0 DEF RowsStory, CountsCoverRows, CountsAreOfRows
<1>b. UNCHANGED <<phase, asked, reply, inflight, pending, writer, cut, late>> /\ UNCHANGED requests /\ Queries' = Queries
  BY DEF OtherCommit, Prune, requests, Queries, Arrived
<1>c. PhaseStory' /\ Awaiting' = Awaiting
  BY <1>0, <1>b DEF PhaseStory, LastTaken, Closing, Awaiting
<1>1. CASE OtherCommit
  <2>1. UNCHANGED <<db, excused>> /\ saved' = db
    BY <1>1 DEF OtherCommit
  <2>2. DnsTyped' /\ BatchStory'
    BY <1>0, <1>b, <2>1 DEF DnsTyped, BatchStory
  <2>3. \A i \in Recorded \ late : Logged(i) => Logged(i)'
    BY <1>b, <1>c, <2>1 DEF Logged
  <2> QED BY <1>a, <1>b, <1>c, <2>1, <2>2, <2>3, RowSteps
<1>2. CASE Prune
  <2>1. PICK newest \in db.queries :
           /\ db' = [db EXCEPT !.queries = db.queries \ UpTo(newest)]
           /\ excused' = excused \union UpTo(newest)
    BY <1>2 DEF Prune, GiveUp
  <2>2. saved' = db'
    BY <1>2 DEF Prune
  <2>3. db'.queries = db.queries \ UpTo(newest) /\ db'.counted = db.counted
    BY <1>0, <2>1 DEF DnsTyped
  <2>4. DnsTyped'
    BY <1>0, <1>b, <2>1, <2>2 DEF DnsTyped
  <2>5. BatchStory'
    BY <1>0, <1>b, <2>1, <2>3 DEF BatchStory
  <2>6. \A i \in Recorded \ late : Logged(i) => Logged(i)'
    BY <1>b, <1>c, <2>1, <2>3 DEF Logged
  <2> QED BY <1>a, <1>b, <1>c, <2>1, <2>2, <2>3, <2>4, <2>5, <2>6, RowSteps
<1> QED BY <1>1, <1>2

\* The steps of handle().
LEMMA HandleKeeps ==
    ASSUME DnsInv, NEW i \in Queries, Lookup(i) \/ Relay(i)
    PROVE  DnsInv'
<1>0. DnsTyped /\ TasksUnanswered
  BY DEF DnsInv
<1>1. CASE Ignore(i)
  <2>1. UNCHANGED <<phase, asked, reply, rows, cache>> /\ i \in inflight /\ inflight' = inflight \ {i}
    BY <1>1 DEF Ignore, New, Finish
  <2> QED BY <1>0, <2>1, QuietDns DEF TasksUnanswered, Closing
<1>2. CASE FromCache(i)
  <2>1. /\ Record(i) /\ Finish(i) /\ UNCHANGED <<asked, phase, cache>>
        /\ CacheKey(asked[i]) \in DOMAIN cache /\ Send(i, cache[CacheKey(asked[i])])
    BY <1>2 DEF FromCache, Hit
  <2>2. cache[CacheKey(asked[i])] \in Queries
    BY <1>0, <2>1 DEF TasksUnanswered
  <2> QED BY <1>0, <2>1, <2>2, RecordKeeps DEF TasksUnanswered
<1>3. CASE Forward(i) \/ NextUpstream(i)
  <2>1. UNCHANGED <<phase, asked, reply, rows, cache, inflight>>
    BY <1>3 DEF Forward, NextUpstream
  <2> QED BY <1>0, <2>1, QuietDns DEF TasksUnanswered, Closing
<1>4. CASE \E r \in Responses : Answer(i, r)
  <2>1. PICK r \in Responses : Answer(i, r)
    BY <1>4
  <2> DEFINE k == CacheKey(asked[i])
             entries == [j \in DOMAIN cache \union {k} |-> IF j = k THEN i ELSE cache[j]]
  <2>2. /\ Record(i) /\ Finish(i) /\ UNCHANGED <<asked, phase>> /\ Send(i, i)
    BY <2>1 DEF Answer
  <2>3. \/ cache' = cache
        \/ \E S \in Evict(entries, expired \ {k}) : cache' = [j \in S |-> entries[j]]
    BY <2>1 DEF Answer
  <2>4. \A j \in DOMAIN entries : entries[j] \in Queries
    BY <1>0 DEF TasksUnanswered
  <2>5. \A S \in Evict(entries, expired \ {k}) : S \subseteq DOMAIN entries
    <3> HIDE DEF entries, k
    <3> QED BY DEF Evict
  <2> HIDE DEF entries, k
  <2>6. \A j \in DOMAIN cache' : cache'[j] \in Queries
    BY <1>0, <2>3, <2>4, <2>5 DEF TasksUnanswered
  <2> QED BY <2>2, <2>6, RecordKeeps
<1>5. CASE Fail(i)
  <2>1. Record(i) /\ Finish(i) /\ UNCHANGED <<asked, phase, cache>> /\ Send(i, ServFail)
    BY <1>5 DEF Fail
  <2> QED BY <1>0, <2>1, RecordKeeps DEF TasksUnanswered
<1> QED BY <1>1, <1>2, <1>3, <1>4, <1>5 DEF Lookup, Relay

\* The rows and the tables, at every step of the resolver.
LEMMA DnsAlways == Spec => []DnsInv
<1>1. Init => DnsInv
  <2> SUFFICES ASSUME Init PROVE DnsInv
    OBVIOUS
  <2>0. /\ asked = <<>> /\ inflight = {} /\ reply = <<>> /\ cache = <<>> /\ pending = {} /\ writer = Idle
        /\ db = NoRows /\ saved = NoRows /\ late = {}
    BY DEF Init
  <2>1. asked \in Seq(Questions) /\ Queries = {}
    <3>1. Len(asked) = 0
      BY <2>0
    <3>2. Queries = 1..0
      BY <3>1 DEF Queries, Arrived
    <3> QED BY <2>0, <3>2
  <2>2. reply \in [Queries -> {Nothing, ServFail} \union Queries]
    BY <2>0, <2>1
  <2>3. DnsTyped
    BY <2>0, <2>1, <2>2 DEF DnsTyped, Idle, NoRows
  <2>4. TasksUnanswered /\ BatchStory /\ PhaseStory /\ RowsStory
    BY <2>0, <2>1 DEF TasksUnanswered, BatchStory, PhaseStory, LastTaken, RowsStory, Recorded, CountsCoverRows,
                     CountsAreOfRows, Idle, NoRows
  <2> QED BY <2>3, <2>4 DEF DnsInv
<1>2. DnsInv /\ [Next]_vars => DnsInv'
  <2> SUFFICES ASSUME DnsInv, [Next]_vars PROVE DnsInv'
    OBVIOUS
  <2>1. ASSUME Start \/ (\E k \in DOMAIN cache \ expired : Expire(k)) \/ Stopped \/ UNCHANGED vars PROVE DnsInv'
    <3>1. UNCHANGED <<asked, reply, rows, inflight, cache>> /\ (Closing => Closing')
      BY <2>1 DEF Start, Expire, Stopped, vars, requests, rows, Closing
    <3> QED BY <3>1, QuietDns DEF DnsInv, TasksUnanswered
  <2> QED BY <2>1, DatagramKeeps, HandleKeeps, WriterKeeps, OthersKeep, StopKeeps, EndKeeps DEF Next
<1> QED BY <1>1, <1>2, PTL DEF Spec

\* Every query that was answered before the writer took its last batch has left
\* its row, or is excused; no row comes too late for that batch before stop();
\* and what is durable of a row is counted, and of a count is a row, whatever
\* fails or commits in between: _record(), _writer_loop(), insert_dns_batch()
\* and stop().
THEOREM AnswersLeaveRows == Spec => []RowsAccounted
<1>1. DnsInv => RowsAccounted
  BY DEF DnsInv, RowsStory, PhaseStory, Closing, RowsAccounted
<1> QED BY <1>1, DnsAlways, PTL

-----------------------------------------------------------------------------
(* The alerts of the network watch.                                        *)

Tasks == [alert : Watch!Alerts \union {Watch!Over.alert}, pc : {"label", "selected", "inserted", "done"},
          fresh : BOOLEAN, found : BOOLEAN]

\* A coroutine that raises an alert found it new, and will not lose it to the
\* loop: the alert is held and its hold time is not over.
Kept == active \ (quiet \union loop.due)
Holds(t, kept, open) ==
    /\ t.fresh => t.alert \in kept
    /\ t.pc \in {"selected", "inserted"} => t.fresh
    /\ t.pc = "done" => ~ t.fresh
    /\ t.pc = "selected" /\ t.found => t.alert \in open

WatchTyped ==
    /\ task \in Seq(Tasks)
    /\ loop \in [pc : {"sleep", "clear", "light"}, due : SUBSET Watch!Alerts, dark : BOOLEAN]
    /\ dark \in BOOLEAN

WatchInv ==
    /\ WatchTyped
    /\ quiet \subseteq active /\ loop.due \subseteq active /\ active \subseteq Watch!Alerts
    /\ \A i \in Watch!Ids : Holds(task[i], Kept, alerts)
    /\ AlertsFollowActivity

\* The effect of a step on the sequence of coroutines: one more, or one changed.
LEMMA TaskAdded ==
    ASSUME WatchTyped, NEW t \in Tasks, task' = Append(task, t)
    PROVE  /\ task' \in Seq(Tasks) /\ Watch!Ids' = Watch!Ids \union {Len(task) + 1} /\ Len(task) + 1 \notin Watch!Ids
           /\ task'[Len(task) + 1] = t
           /\ \A i \in Watch!Ids : task'[i] = task[i]
<1>1. task \in Seq(Tasks) /\ Len(task) \in Nat
  BY LenProperties DEF WatchTyped
<1>2. /\ task' \in Seq(Tasks) /\ Len(task') = Len(task) + 1 /\ task'[Len(task) + 1] = t
      /\ \A i \in 1..Len(task) : task'[i] = task[i]
  BY <1>1, AppendProperties
<1> QED BY <1>1, <1>2 DEF Watch!Ids

LEMMA TaskChanged ==
    ASSUME WatchTyped, NEW i \in Watch!Ids, NEW t \in Tasks, task' = [task EXCEPT ![i] = t]
    PROVE  /\ task' \in Seq(Tasks) /\ Watch!Ids' = Watch!Ids
           /\ task'[i] = t
           /\ \A j \in Watch!Ids : j # i => task'[j] = task[j]
<1>1. task \in Seq(Tasks) /\ Len(task) \in Nat /\ i \in 1..Len(task)
  BY LenProperties DEF WatchTyped, Watch!Ids
<1>2. task' \in Seq(Tasks) /\ Len(task') = Len(task)
  BY <1>1, ExceptSeq
<1>3. \A j \in 1..Len(task) : task'[j] = IF j = i THEN t ELSE task[j]
  BY <1>1, LenProperties
<1> QED BY <1>1, <1>2, <1>3 DEF Watch!Ids

\* What the coroutines make of their own record.
LEMMA TaskFields ==
    ASSUME WatchTyped
    PROVE  /\ \A i \in Watch!Ids : task[i] \in Tasks
           /\ Watch!Over \in Tasks /\ ~ Watch!Over.fresh /\ Watch!Over.pc = "done"
           /\ \A t \in Tasks : /\ Watch!Asked(t) \in Tasks /\ Watch!Asked(t).pc = "selected"
                               /\ Watch!Asked(t).alert = t.alert /\ (Watch!Asked(t).fresh <=> t.fresh)
                               /\ (Watch!Asked(t).found <=> t.alert \in alerts)
           /\ \A t \in Tasks : LET u == [t EXCEPT !.pc = "inserted"] IN
                               /\ u \in Tasks /\ u.pc = "inserted" /\ u.alert = t.alert /\ (u.fresh <=> t.fresh)
<1>1. \A i \in Watch!Ids : task[i] \in Tasks
  BY ElementOfSeq DEF WatchTyped, Watch!Ids
<1>2. Watch!Over \in Tasks /\ ~ Watch!Over.fresh /\ Watch!Over.pc = "done"
  BY DEF Tasks, Watch!Over
<1>3. ASSUME NEW t \in Tasks
      PROVE  /\ Watch!Asked(t) \in Tasks /\ Watch!Asked(t).pc = "selected"
             /\ Watch!Asked(t).alert = t.alert /\ (Watch!Asked(t).fresh <=> t.fresh)
             /\ (Watch!Asked(t).found <=> t.alert \in alerts)
  <2> DEFINE b == t.alert \in alerts
             u == [t EXCEPT !.pc = "selected", !.found = b]
  <2>1. Watch!Asked(t) = u
    BY DEF Watch!Asked
  <2>2. b \in BOOLEAN /\ (b <=> t.alert \in alerts)
    OBVIOUS
  <2> HIDE DEF b
  <2>3. u \in Tasks /\ u.pc = "selected" /\ u.alert = t.alert /\ u.fresh = t.fresh /\ u.found = b
    BY <2>2 DEF Tasks
  <2> HIDE DEF u
  <2> QED BY <2>1, <2>2, <2>3
<1>4. ASSUME NEW t \in Tasks
      PROVE  LET u == [t EXCEPT !.pc = "inserted"] IN
             u \in Tasks /\ u.pc = "inserted" /\ u.alert = t.alert /\ (u.fresh <=> t.fresh)
  BY DEF Tasks
<1> QED BY <1>1, <1>2, <1>3, <1>4

\* Steps of the light and the clock: the coroutines and the store stay.
LEMMA QuietWatch ==
    ASSUME WatchInv, UNCHANGED <<active, task, alerts, missed, orphan>>, dark' \in BOOLEAN, quiet' \subseteq active,
           loop' \in [pc : {"sleep", "clear", "light"}, due : SUBSET Watch!Alerts, dark : BOOLEAN],
           loop'.due \subseteq quiet \union loop.due,
           \A a \in quiet' : a \in quiet \/ \A i \in Watch!Ids : task[i].fresh => task[i].alert # a
    PROVE  WatchInv'
<1>1. Watch!Ids' = Watch!Ids /\ WatchTyped'
  BY DEF Watch!Ids, WatchInv, WatchTyped
<1>2. \A i \in Watch!Ids : Holds(task'[i], Kept', alerts')
  BY DEF WatchInv, Holds, Kept
<1>3. AlertsFollowActivity'
  BY <1>1 DEF WatchInv, AlertsFollowActivity, Watch!AlertsFollowActivity, Watch!Raising
<1> QED BY <1>1, <1>2, <1>3 DEF WatchInv

\* Lookups and arrivals.
LEMMA TasksKeep ==
    ASSUME WatchInv, NEW ip \in Ips, Watch!Hit(ip) \/ Watch!NewDevice(ip)
    PROVE  WatchInv'
<1>0. WatchTyped /\ AlertsFollowActivity /\ \A i \in Watch!Ids : Holds(task[i], Kept, alerts)
  BY DEF WatchInv
<1>1. PICK a \in Watch!Alerts, t \in Tasks :
        /\ active' = active \union {a} /\ quiet' = quiet \ {a} /\ orphan' = orphan \ {a}
        /\ UNCHANGED <<loop, alerts, missed>> /\ dark' \in {dark, FALSE}
        /\ task' = Append(task, t)
        /\ t.fresh => a \notin active /\ t.alert = a
        /\ t.pc \in {"label", "selected", "done"} /\ (t.pc = "done" => ~ t.fresh)
        /\ t.pc = "selected" => t.fresh /\ (t.found => a \in alerts)
        /\ a \notin active => t.fresh /\ t.pc # "done"
  <2>1. CASE Watch!Hit(ip)
    <3> DEFINE a == <<"watch", ip>>
               t == [alert |-> a, pc |-> "label", fresh |-> a \notin active, found |-> FALSE]
    <3>1. a \in Watch!Alerts
      BY DEF Watch!Alerts
    <3>2. t \in Tasks /\ t.pc = "label" /\ t.alert = a /\ (t.fresh <=> a \notin active)
      BY <3>1 DEF Tasks
    <3>3. /\ active' = active \union {a} /\ quiet' = quiet \ {a} /\ orphan' = orphan \ {a}
          /\ UNCHANGED <<loop, alerts, missed>> /\ dark' = FALSE
          /\ \/ task' = Append(task, t)
             \/ t.fresh /\ task' = Append(task, Watch!Asked(t))
             \/ ~t.fresh /\ task' = Append(task, Watch!Over)
      BY <2>1 DEF Watch!Hit
    <3> HIDE DEF a, t
    <3>4. CASE task' = Append(task, t)
      BY <3>1, <3>2, <3>3, <3>4
    <3>5. CASE t.fresh /\ task' = Append(task, Watch!Asked(t))
      <4> DEFINE u == Watch!Asked(t)
      <4>1. u \in Tasks /\ u.pc = "selected" /\ u.alert = a /\ u.fresh /\ (u.found => a \in alerts)
        BY <1>0, <3>2, <3>5, TaskFields
      <4> HIDE DEF u
      <4>2. task' = Append(task, u)
        BY <3>5 DEF u
      <4> QED BY <3>1, <3>2, <3>3, <3>5, <4>1, <4>2
    <3>6. CASE ~t.fresh /\ task' = Append(task, Watch!Over)
      <4>1. Watch!Over \in Tasks /\ ~ Watch!Over.fresh /\ Watch!Over.pc = "done"
        BY <1>0, TaskFields
      <4> QED BY <3>1, <3>2, <3>3, <3>6, <4>1
    <3> QED BY <3>3, <3>4, <3>5, <3>6
  <2>2. CASE Watch!NewDevice(ip)
    <3> DEFINE a == <<"new", ip>>
               t == [alert |-> a, pc |-> "label", fresh |-> TRUE, found |-> FALSE]
               u == Watch!Asked(t)
    <3>1. a \in Watch!Alerts
      BY DEF Watch!Alerts
    <3>2. t \in Tasks /\ t.alert = a /\ t.fresh
      BY <3>1 DEF Tasks
    <3>3. /\ active' = active \union {a} /\ quiet' = quiet \ {a} /\ orphan' = orphan \ {a}
          /\ UNCHANGED <<loop, dark, alerts, missed>> /\ task' = Append(task, u) /\ a \notin active
      BY <2>2 DEF Watch!NewDevice, Watch!light
    <3> HIDE DEF a, t
    <3>4. u \in Tasks /\ u.pc = "selected" /\ u.alert = a /\ u.fresh /\ (u.found => a \in alerts)
      BY <1>0, <3>2, TaskFields
    <3> HIDE DEF u
    <3> QED BY <3>1, <3>3, <3>4
  <2> QED BY <2>1, <2>2
<1>2. /\ task' \in Seq(Tasks) /\ Watch!Ids' = Watch!Ids \union {Len(task) + 1} /\ Len(task) + 1 \notin Watch!Ids
      /\ task'[Len(task) + 1] = t
      /\ \A i \in Watch!Ids : task'[i] = task[i]
  BY <1>0, <1>1, TaskAdded
<1>3. WatchTyped' /\ quiet' \subseteq active' /\ loop'.due \subseteq active' /\ active' \subseteq Watch!Alerts
  BY <1>0, <1>1, <1>2 DEF WatchTyped, WatchInv
<1>4. \A i \in Watch!Ids' : Holds(task'[i], Kept', alerts')
  <2>1. loop.due \subseteq active /\ Kept \subseteq Kept'
    BY <1>1 DEF WatchInv, Kept
  <2>2. ASSUME NEW i \in Watch!Ids PROVE Holds(task'[i], Kept', alerts')
    BY <1>0, <1>1, <1>2, <2>1 DEF Holds
  <2>3. t.fresh => t.alert \in Kept'
    BY <1>1, <2>1 DEF Kept
  <2>4. Holds(t, Kept', alerts')
    BY <1>1, <2>3 DEF Holds
  <2> QED BY <1>2, <2>2, <2>4
<1>5. AlertsFollowActivity'
  <2>1. ASSUME NEW b \in active' PROVE b \in alerts' \union missed' \/ Watch!Raising(b)'
    <3>1. CASE b \in active
      <4>1. CASE b \in alerts \union missed
        BY <1>1, <4>1
      <4>2. CASE Watch!Raising(b)
        BY <1>2, <4>2 DEF Watch!Raising
      <4> QED BY <1>0, <3>1, <4>1, <4>2 DEF AlertsFollowActivity, Watch!AlertsFollowActivity
    <3>2. CASE b \notin active
      <4>1. b = a /\ t.fresh /\ t.alert = b /\ t.pc \in {"label", "selected"}
        BY <1>1, <3>2
      <4> QED BY <1>2, <4>1 DEF Watch!Raising
    <3> QED BY <3>1, <3>2
  <2>2. alerts' \subseteq active' \union orphan'
    BY <1>0, <1>1 DEF AlertsFollowActivity, Watch!AlertsFollowActivity
  <2> QED BY <2>1, <2>2 DEF AlertsFollowActivity, Watch!AlertsFollowActivity
<1> QED BY <1>3, <1>4, <1>5 DEF WatchInv

\* A coroutine goes on: its record becomes t, and the store may change.
LEMMA TaskGoesOn ==
    ASSUME WatchInv, NEW i \in Watch!Ids, NEW t \in Tasks, task' = [task EXCEPT ![i] = t],
           UNCHANGED <<active, quiet, loop, dark, orphan>>,
           alerts \subseteq alerts', alerts' \subseteq alerts \union {task[i].alert},
           alerts' # alerts => task[i].fresh,
           alerts \union missed \subseteq alerts' \union missed',
           t.fresh => task[i].fresh /\ t.alert = task[i].alert,
           t.pc \in {"selected", "inserted"} => t.fresh, t.pc = "done" => ~ t.fresh,
           t.pc = "selected" /\ t.found => t.alert \in alerts,
           \/ t.pc = "selected" /\ t.fresh
           \/ ~ task[i].fresh
           \/ task[i].pc \in {"inserted", "done"}
           \/ task[i].alert \in alerts' \union missed'
    PROVE  WatchInv'
<1>0. WatchTyped /\ AlertsFollowActivity /\ \A j \in Watch!Ids : Holds(task[j], Kept, alerts)
  BY DEF WatchInv
<1>1. /\ task' \in Seq(Tasks) /\ Watch!Ids' = Watch!Ids /\ task'[i] = t
      /\ \A j \in Watch!Ids : j # i => task'[j] = task[j]
  BY <1>0, TaskChanged
<1>2. WatchTyped' /\ quiet' \subseteq active' /\ loop'.due \subseteq active' /\ active' \subseteq Watch!Alerts
  BY <1>1 DEF WatchTyped, WatchInv
<1>3. \A j \in Watch!Ids' : Holds(task'[j], Kept', alerts')
  <2>1. Kept' = Kept /\ Holds(task[i], Kept, alerts)
    BY <1>0 DEF Kept
  <2>2. ASSUME NEW j \in Watch!Ids, j # i PROVE Holds(task'[j], Kept', alerts')
    <3>1. task'[j] = task[j] /\ Holds(task[j], Kept, alerts)
      BY <1>0, <1>1, <2>2
    <3> QED BY <2>1, <3>1 DEF Holds
  <2>3. Holds(t, Kept', alerts')
    BY <2>1 DEF Holds
  <2> QED BY <1>1, <2>2, <2>3
<1>4. AlertsFollowActivity'
  <2>1. ASSUME NEW b \in active' PROVE b \in alerts' \union missed' \/ Watch!Raising(b)'
    <3>1. CASE b \in alerts \union missed
      BY <3>1
    <3>2. CASE Watch!Raising(b)
      <4>1. PICK j \in Watch!Ids : task[j].alert = b /\ task[j].fresh /\ task[j].pc \in {"label", "selected"}
        BY <3>2 DEF Watch!Raising
      <4>2. CASE j # i
        BY <1>1, <4>1, <4>2 DEF Watch!Raising
      <4>3. CASE j = i /\ t.pc = "selected" /\ t.fresh
        BY <1>1, <4>1, <4>3 DEF Watch!Raising
      <4>4. CASE j = i /\ ~ (t.pc = "selected" /\ t.fresh)
        BY <4>1, <4>4
      <4> QED BY <4>2, <4>3, <4>4
    <3> QED BY <1>0, <3>1, <3>2 DEF AlertsFollowActivity, Watch!AlertsFollowActivity
  <2>2. alerts' \subseteq active' \union orphan'
    <3>1. alerts \subseteq active \union orphan
      BY <1>0 DEF AlertsFollowActivity, Watch!AlertsFollowActivity
    <3>2. task[i].fresh => task[i].alert \in active
      BY <1>0 DEF Holds, Kept
    <3> QED BY <3>1, <3>2
  <2> QED BY <2>1, <2>2 DEF AlertsFollowActivity, Watch!AlertsFollowActivity
<1> QED BY <1>2, <1>3, <1>4 DEF WatchInv

\* The steps of the coroutines.
LEMMA CoroutinesKeep ==
    ASSUME WatchInv, NEW i \in Watch!Ids,
           Watch!Labelled(i) \/ Watch!Insert(i) \/ Watch!InsertFails(i) \/ Watch!Raised(i)
    PROVE  WatchInv'
<1>0. WatchTyped /\ Holds(task[i], Kept, alerts) /\ task[i] \in Tasks
  BY TaskFields DEF WatchInv
<1>a. Watch!Over \in Tasks /\ ~ Watch!Over.fresh /\ Watch!Over.pc = "done"
  BY <1>0, TaskFields
<1>1. CASE Watch!Labelled(i)
  <2>1. UNCHANGED <<active, quiet, loop, dark, alerts, missed, orphan>> /\ task[i].pc = "label"
    BY <1>1 DEF Watch!Labelled, Watch!store
  <2>2. CASE task[i].fresh
    <3> DEFINE t == Watch!Asked(task[i])
    <3>1. /\ t \in Tasks /\ t.pc = "selected" /\ t.alert = task[i].alert /\ t.fresh
          /\ (t.found => task[i].alert \in alerts)
      BY <1>0, <2>2, TaskFields
    <3>2. task' = [task EXCEPT ![i] = t]
      BY <1>1, <2>2 DEF Watch!Labelled
    <3> HIDE DEF t
    <3> QED BY <2>1, <2>2, <3>1, <3>2, TaskGoesOn
  <2>3. CASE ~ task[i].fresh
    <3>1. task' = [task EXCEPT ![i] = Watch!Over]
      BY <1>1, <2>3 DEF Watch!Labelled
    <3> QED BY <1>a, <2>1, <2>3, <3>1, TaskGoesOn
  <2> QED BY <2>2, <2>3
<1>2. CASE Watch!Insert(i)
  <2> DEFINE t == [task[i] EXCEPT !.pc = "inserted"]
  <2>1. /\ UNCHANGED <<active, quiet, loop, dark, orphan>> /\ task[i].pc = "selected"
        /\ alerts' = (IF task[i].found THEN alerts ELSE alerts \union {task[i].alert})
        /\ missed' = missed \ {task[i].alert}
    BY <1>2 DEF Watch!Insert, Watch!light
  <2>2. task' = [task EXCEPT ![i] = t]
    BY <1>2 DEF Watch!Insert
  <2>3. t \in Tasks /\ t.pc = "inserted" /\ t.alert = task[i].alert /\ (t.fresh <=> task[i].fresh)
    BY <1>0, TaskFields
  <2> HIDE DEF t
  <2>4. task[i].fresh /\ (task[i].found => task[i].alert \in alerts)
    BY <1>0, <2>1 DEF Holds
  <2>5. task[i].alert \in alerts' /\ alerts \subseteq alerts' /\ alerts' \subseteq alerts \union {task[i].alert}
    BY <2>1, <2>4
  <2>6. alerts \union missed \subseteq alerts' \union missed'
    BY <2>1, <2>5
  <2> QED BY <2>1, <2>2, <2>3, <2>4, <2>5, <2>6, TaskGoesOn
<1>3. CASE Watch!InsertFails(i)
  <2>1. /\ UNCHANGED <<active, quiet, loop, dark, orphan, alerts>> /\ missed' = missed \union {task[i].alert}
        /\ task' = [task EXCEPT ![i] = Watch!Over]
    BY <1>3 DEF Watch!InsertFails, Watch!light
  <2> QED BY <1>a, <2>1, TaskGoesOn
<1>4. CASE Watch!Raised(i)
  <2>1. /\ UNCHANGED <<active, quiet, loop, dark, alerts, missed, orphan>> /\ task[i].pc = "inserted"
        /\ task' = [task EXCEPT ![i] = Watch!Over]
    BY <1>4 DEF Watch!Raised, Watch!store
  <2> QED BY <1>a, <2>1, TaskGoesOn
<1> QED BY <1>1, <1>2, <1>3, <1>4

\* The loop lets an alert go.
LEMMA ClearsKeep ==
    ASSUME WatchInv, NEW a \in Watch!Alerts, Watch!ClearOne(a) \/ Watch!ClearFails(a)
    PROVE  WatchInv'
<1>0. /\ WatchTyped /\ AlertsFollowActivity /\ \A j \in Watch!Ids : Holds(task[j], Kept, alerts)
      /\ quiet \subseteq active /\ loop.due \subseteq active /\ active \subseteq Watch!Alerts
  BY DEF WatchInv
<1>1. /\ a \in loop.due /\ active' = active \ {a} /\ quiet' = quiet \ {a} /\ UNCHANGED <<task, dark>>
      /\ missed' = missed \ {a}
      /\ \/ alerts' = alerts \ {a} /\ orphan' = orphan
         \/ alerts' = alerts /\ orphan' = orphan \union ({a} \intersect alerts)
      /\ \/ loop' = [loop EXCEPT !.due = loop.due \ {a}]
         \/ loop' = Watch!LoopIdle
  BY DEF Watch!ClearOne, Watch!ClearFails, Watch!light
<1>2. /\ loop' \in [pc : {"sleep", "clear", "light"}, due : SUBSET Watch!Alerts, dark : BOOLEAN]
      /\ loop'.due \subseteq loop.due \ {a}
  <2>1. CASE loop' = [loop EXCEPT !.due = loop.due \ {a}]
    BY <1>0, <2>1 DEF WatchTyped
  <2>2. CASE loop' = Watch!LoopIdle
    BY <2>2 DEF Watch!LoopIdle
  <2> QED BY <1>1, <2>1, <2>2
<1>3. Watch!Ids' = Watch!Ids
  BY <1>1 DEF Watch!Ids
<1>4. Kept \subseteq Kept' /\ a \notin Kept
  BY <1>1, <1>2 DEF Kept
<1>5. \A j \in Watch!Ids' : Holds(task'[j], Kept', alerts')
  <2> SUFFICES ASSUME NEW j \in Watch!Ids PROVE Holds(task[j], Kept', alerts')
    BY <1>1, <1>3
  <2>1. Holds(task[j], Kept, alerts)
    BY <1>0
  <2>2. task[j].pc = "selected" => task[j].alert # a
    BY <1>4, <2>1 DEF Holds
  <2> QED BY <1>1, <1>4, <2>1, <2>2 DEF Holds
<1>6. AlertsFollowActivity'
  <2>1. ASSUME NEW b \in active' PROVE b \in alerts' \union missed' \/ Watch!Raising(b)'
    <3>1. b \in active /\ b # a
      BY <1>1
    <3>2. b \in alerts \union missed \/ Watch!Raising(b)
      BY <1>0, <3>1 DEF AlertsFollowActivity, Watch!AlertsFollowActivity
    <3>3. Watch!Raising(b)' <=> Watch!Raising(b)
      BY <1>1, <1>3 DEF Watch!Raising
    <3> QED BY <1>1, <3>1, <3>2, <3>3
  <2>2. alerts' \subseteq active' \union orphan'
    BY <1>0, <1>1 DEF AlertsFollowActivity, Watch!AlertsFollowActivity
  <2> QED BY <2>1, <2>2 DEF AlertsFollowActivity, Watch!AlertsFollowActivity
<1>7. WatchTyped' /\ quiet' \subseteq active' /\ loop'.due \subseteq active' /\ active' \subseteq Watch!Alerts
  BY <1>0, <1>1, <1>2 DEF WatchTyped
<1> QED BY <1>5, <1>6, <1>7 DEF WatchInv

\* The host comes up again.
LEMMA WatchRestarts ==
    ASSUME WatchInv, Watch!Restart
    PROVE  WatchInv'
<1>0. WatchTyped
  BY DEF WatchInv
<1>1. /\ active' = {} /\ quiet' = {} /\ task' = [i \in Watch!Ids |-> Watch!Over] /\ loop' = Watch!LoopIdle
      /\ alerts' = savedAlerts /\ orphan' = savedAlerts /\ dark' = TRUE
  BY DEF Watch!Restart
<1>2. Watch!Over \in Tasks /\ ~ Watch!Over.fresh /\ Watch!Over.pc = "done"
  BY <1>0, TaskFields
<1>3. Len(task) \in Nat
  BY <1>0, LenProperties DEF WatchTyped
<1>4. task' \in Seq(Tasks) /\ Len(task') = Len(task) /\ \A i \in 1..Len(task) : task'[i] = Watch!Over
  <2>1. task' \in [1..Len(task) -> Tasks]
    BY <1>1, <1>2 DEF Watch!Ids
  <2> QED BY <1>1, <1>3, <2>1, SeqDef, LenProperties DEF Watch!Ids
<1>5. loop' \in [pc : {"sleep", "clear", "light"}, due : SUBSET Watch!Alerts, dark : BOOLEAN] /\ loop'.due = {}
  BY <1>1 DEF Watch!LoopIdle
<1>6. \A i \in Watch!Ids' : Holds(task'[i], Kept', alerts')
  BY <1>2, <1>4 DEF Watch!Ids, Holds
<1>7. AlertsFollowActivity'
  BY <1>1 DEF AlertsFollowActivity, Watch!AlertsFollowActivity
<1> QED BY <1>1, <1>4, <1>5, <1>6, <1>7 DEF WatchInv, WatchTyped

\* The alerts and the coroutines, at every step of the watch.
LEMMA WatchAlways == Watch!Spec => []WatchInv
<1>1. Watch!Init => WatchInv
  <2> SUFFICES ASSUME Watch!Init PROVE WatchInv
    OBVIOUS
  <2>1. active = {} /\ quiet = {} /\ task = <<>> /\ loop = Watch!LoopIdle /\ alerts = {} /\ dark = TRUE
    BY DEF Watch!Init
  <2>2. loop \in [pc : {"sleep", "clear", "light"}, due : SUBSET Watch!Alerts, dark : BOOLEAN] /\ loop.due = {}
    BY <2>1 DEF Watch!LoopIdle
  <2>3. task \in Seq(Tasks) /\ Watch!Ids = {}
    BY <2>1 DEF Watch!Ids
  <2> QED BY <2>1, <2>2, <2>3 DEF WatchInv, WatchTyped, AlertsFollowActivity, Watch!AlertsFollowActivity
<1>2. WatchInv /\ [Watch!Next]_Watch!vars => WatchInv'
  <2> SUFFICES ASSUME WatchInv, [Watch!Next]_Watch!vars PROVE WatchInv'
    OBVIOUS
  <2>0. loop \in [pc : {"sleep", "clear", "light"}, due : SUBSET Watch!Alerts, dark : BOOLEAN] /\ dark \in BOOLEAN
    BY DEF WatchInv, WatchTyped
  <2>a. quiet \subseteq active /\ active \subseteq Watch!Alerts
    BY DEF WatchInv
  <2>1. ASSUME NEW a \in active \ quiet, Watch!HoldEnds(a) PROVE WatchInv'
    <3>1. UNCHANGED <<active, task, loop, dark, alerts, missed, orphan>> /\ quiet' = quiet \union {a}
      BY <2>1 DEF Watch!HoldEnds, Watch!store, Watch!light
    <3>2. \A i \in Watch!Ids : task[i].fresh => task[i].alert # a
      <4>1. \A i \in Watch!Ids : task[i].pc # "done" => task[i].alert # a
        BY <2>1 DEF Watch!HoldEnds
      <4>2. \A i \in Watch!Ids : task[i].pc = "done" => ~ task[i].fresh
        BY DEF WatchInv, Holds
      <4> QED BY <4>1, <4>2
    <3> QED BY <2>0, <2>a, <3>1, <3>2, QuietWatch
  <2>2. CASE Watch!Wake
    <3>1. /\ UNCHANGED <<active, task, quiet, dark, alerts, missed, orphan>>
          /\ loop' = [pc |-> "clear", due |-> quiet, dark |-> dark]
      BY <2>2 DEF Watch!Wake, Watch!store, Watch!light
    <3>2. dark \in BOOLEAN
      BY <2>0
    <3>3. /\ loop' \in [pc : {"sleep", "clear", "light"}, due : SUBSET Watch!Alerts, dark : BOOLEAN]
          /\ loop'.due = quiet
      BY <2>a, <3>1, <3>2
    <3> QED BY <2>0, <2>a, <3>1, <3>3, QuietWatch
  <2>3. CASE \/ Watch!LightHoldEnds \/ Watch!OtherCommit \/ UNCHANGED Watch!vars
             \/ \E n \in Watch!Calls : \/ Watch!BoardSets(n) \/ Watch!BoardMisses(n)
                                      \/ Watch!CallAnswered(n) \/ Watch!CallTimesOut(n)
    <3>1. UNCHANGED <<active, task, quiet, loop, alerts, missed, orphan>> /\ dark' \in {dark, TRUE}
      BY <2>3 DEF Watch!LightHoldEnds, Watch!light, Watch!OtherCommit, Watch!vars, Watch!store, Watch!BoardSets,
                  Watch!BoardMisses, Watch!CallAnswered, Watch!CallTimesOut
    <3> QED BY <2>0, <2>a, <3>1, QuietWatch
  <2>4. CASE Watch!LightOff \/ Watch!LoopGoesOn \/ Watch!Stop
    <3>1. UNCHANGED <<active, task, quiet, dark, alerts, missed, orphan>>
      BY <2>4 DEF Watch!LightOff, Watch!light, Watch!LoopGoesOn, Watch!Stop, Watch!store
    <3>2. loop' = Watch!LoopIdle \/ loop' = [Watch!LoopIdle EXCEPT !.pc = "light"]
      BY <2>4 DEF Watch!LightOff, Watch!LoopGoesOn, Watch!Stop
    <3>3. /\ loop' \in [pc : {"sleep", "clear", "light"}, due : SUBSET Watch!Alerts, dark : BOOLEAN]
          /\ loop'.due = {}
      <4>1. CASE loop' = Watch!LoopIdle
        BY <4>1 DEF Watch!LoopIdle
      <4>2. CASE loop' = [Watch!LoopIdle EXCEPT !.pc = "light"]
        BY <4>2 DEF Watch!LoopIdle
      <4> QED BY <3>2, <4>1, <4>2
    <3> QED BY <2>0, <2>a, <3>1, <3>3, QuietWatch
  <2> QED BY <2>1, <2>2, <2>3, <2>4, TasksKeep, CoroutinesKeep, ClearsKeep, WatchRestarts DEF Watch!Next
<1> QED BY <1>1, <1>2, PTL DEF Watch!Spec

\* Every alert the watch holds is open in the store, about to be, or refused
\* by it; and every open alert is held, or was left behind by a restart or a
\* failure: _hit(), _new_device(), raise_alert() and _loop(), whose awaits
\* let them run in between each other.
THEOREM AlertsAndActivity == Watch!Spec => []AlertsFollowActivity
<1>1. WatchInv => AlertsFollowActivity
  BY DEF WatchInv
<1> QED BY <1>1, WatchAlways, PTL

-----------------------------------------------------------------------------
(* The light of the network watch.                                         *)

SetCall == [on : BOOLEAN, at : {"wire", "board", "nowhere"}, open : BOOLEAN]
Last == call[Len(call)]

\* The last call tells what light_on was set to, unless the host has come up
\* since; the light is what the last call says once the board has executed it,
\* and then no other one is on its way.
LightInv ==
    /\ call \in Seq(SetCall) /\ lit \in BOOLEAN /\ lightOn \in BOOLEAN
    /\ call # <<>> /\ (~ adrift \/ \E n \in Watch!Calls : call[n].open) => (Last.on <=> lightOn)
    /\ call # <<>> /\ Last.at = "board" => (lit <=> Last.on) /\ \A n \in Watch!Calls : call[n].at # "wire"

\* _set_light(): the new call is the last one.
LEMMA LightSet ==
    ASSUME LightInv, NEW on \in BOOLEAN, Watch!SetLight(on), UNCHANGED <<lit, adrift>>
    PROVE  LightInv'
<1>1. call \in Seq(SetCall) /\ Len(call) \in Nat
  BY LenProperties DEF LightInv
<1>2. PICK c \in SetCall : call' = Watch!Then(c) /\ c.at # "board" /\ (c.on <=> on)
  <2>1. /\ [on |-> on, at |-> "wire", open |-> TRUE] \in SetCall
        /\ [on |-> on, at |-> "nowhere", open |-> FALSE] \in SetCall
    BY DEF SetCall
  <2> QED BY <2>1 DEF Watch!SetLight
<1>3. lightOn' = on
  BY DEF Watch!SetLight
<1>4. Cardinality(Watch!Settled) \in Nat
  <2>1. IsFiniteSet(1..Len(call))
    BY <1>1, FS_Interval
  <2>2. Watch!Settled \subseteq 1..Len(call)
    BY DEF Watch!Settled, Watch!Calls
  <2>3. IsFiniteSet(Watch!Settled)
    BY <2>1, <2>2, FS_Subset
  <2> QED BY <2>3, FS_CardinalityType
<1>5. SubSeq(call, Cardinality(Watch!Settled) + 1, Len(call)) \in Seq(SetCall)
  <2>1. \A i \in (Cardinality(Watch!Settled) + 1)..Len(call) : call[i] \in SetCall
    BY <1>1, <1>4, ElementOfSeq
  <2> QED BY <1>1, <1>4, <2>1, SubSeqProperties
<1>6. /\ call' \in Seq(SetCall) /\ call' # <<>> /\ call'[Len(call')] = c
  <2> DEFINE s == SubSeq(call, Cardinality(Watch!Settled) + 1, Len(call))
  <2>0. Watch!Then(c) = Append(s, c)
    BY DEF Watch!Then, Cardinality, IsFiniteSet, Watch!Cardinality, Watch!IsFiniteSet
  <2>1. call' = Append(s, c)
    BY <1>2, <2>0
  <2>2. s \in Seq(SetCall) /\ Len(s) \in Nat
    BY <1>5, LenProperties
  <2> HIDE DEF s
  <2>3. call' \in Seq(SetCall) /\ Len(call') = Len(s) + 1 /\ call'[Len(s) + 1] = c
    BY <1>2, <2>1, <2>2, AppendProperties
  <2>4. call' # <<>>
    BY <2>2, <2>3, EmptySeq
  <2> QED BY <2>3, <2>4
<1> QED BY <1>2, <1>3, <1>6 DEF LightInv, Last

\* A call moves on: its record becomes c.
LEMMA CallChanged ==
    ASSUME call \in Seq(SetCall), NEW n \in Watch!Calls, NEW c \in SetCall, call' = [call EXCEPT ![n] = c]
    PROVE  /\ call' \in Seq(SetCall) /\ Watch!Calls' = Watch!Calls /\ Len(call') = Len(call) /\ call # <<>> /\ call' # <<>>
           /\ Len(call) \in Watch!Calls
           /\ \A m \in Watch!Calls : call'[m] = IF m = n THEN c ELSE call[m]
<1>1. Len(call) \in Nat /\ n \in 1..Len(call)
  BY LenProperties DEF Watch!Calls
<1>2. call' \in Seq(SetCall) /\ Len(call') = Len(call)
  BY <1>1, ExceptSeq
<1>3. \A m \in 1..Len(call) : call'[m] = IF m = n THEN c ELSE call[m]
  BY <1>1, LenProperties
<1>4. call # <<>> /\ call' # <<>> /\ Len(call) \in 1..Len(call)
  BY <1>1, <1>2, EmptySeq
<1> QED BY <1>2, <1>3, <1>4 DEF Watch!Calls

\* The calls on their way, their answers and their timeouts.
LEMMA CallsKeep ==
    ASSUME LightInv, NEW n \in Watch!Calls,
           Watch!BoardSets(n) \/ Watch!BoardMisses(n) \/ Watch!CallAnswered(n) \/ Watch!CallTimesOut(n)
    PROVE  LightInv'
<1>0. call \in Seq(SetCall) /\ call[n] \in SetCall
  BY ElementOfSeq DEF LightInv, Watch!Calls
<1>1. CASE Watch!BoardSets(n)
  <2> DEFINE c == [call[n] EXCEPT !.at = "board"]
  <2>1. c \in SetCall /\ c.at = "board" /\ (c.on <=> call[n].on) /\ (c.open <=> call[n].open)
    BY <1>0 DEF SetCall
  <2>2. /\ call' = [call EXCEPT ![n] = c] /\ lit' = call[n].on /\ UNCHANGED <<lightOn, adrift>>
        /\ call[n].at = "wire" /\ \A m \in Watch!Calls : call[m].at = "wire" => n <= m
    BY <1>1 DEF Watch!BoardSets, Watch!First
  <2> HIDE DEF c
  <2>3. /\ call' \in Seq(SetCall) /\ Watch!Calls' = Watch!Calls /\ Len(call') = Len(call) /\ call # <<>>
        /\ Len(call) \in Watch!Calls
        /\ \A m \in Watch!Calls : call'[m] = IF m = n THEN c ELSE call[m]
    BY <1>0, <2>1, <2>2, CallChanged
  <2>4. Last'.on <=> Last.on
    BY <2>1, <2>3 DEF Last
  <2>5. (\E m \in Watch!Calls' : call'[m].open) => \E m \in Watch!Calls : call[m].open
    BY <2>1, <2>3
  <2>6. CASE n = Len(call)
    <3>1. \A m \in Watch!Calls : m # n => call[m].at # "wire"
      BY <2>2, <2>6, LenProperties, <1>0 DEF Watch!Calls
    <3>2. \A m \in Watch!Calls' : call'[m].at # "wire"
      BY <2>1, <2>3, <3>1
    <3>3. Last'.at = "board" /\ (lit' <=> Last'.on) /\ lit' \in BOOLEAN
      BY <1>0, <2>1, <2>2, <2>3, <2>6 DEF Last, SetCall
    <3> QED BY <2>2, <2>3, <2>4, <2>5, <3>2, <3>3 DEF LightInv
  <2>7. CASE n # Len(call)
    <3>1. Last.at # "board"
      BY <2>2, <2>3 DEF LightInv
    <3>2. Last'.at # "board"
      BY <2>3, <2>7, <3>1 DEF Last
    <3>3. lit' \in BOOLEAN
      BY <1>0, <2>2 DEF SetCall
    <3> QED BY <2>2, <2>3, <2>4, <2>5, <3>2, <3>3 DEF LightInv
  <2> QED BY <2>6, <2>7
<1>2. CASE Watch!BoardMisses(n)
  <2> DEFINE c == [call[n] EXCEPT !.at = "nowhere"]
  <2>1. c \in SetCall /\ c.at = "nowhere" /\ (c.on <=> call[n].on) /\ (c.open <=> call[n].open)
    BY <1>0 DEF SetCall
  <2>2. call' = [call EXCEPT ![n] = c] /\ UNCHANGED <<lit, lightOn, adrift>> /\ call[n].at = "wire"
    BY <1>2 DEF Watch!BoardMisses, Watch!board
  <2> HIDE DEF c
  <2>3. /\ call' \in Seq(SetCall) /\ Watch!Calls' = Watch!Calls /\ Len(call') = Len(call) /\ call # <<>>
        /\ Len(call) \in Watch!Calls
        /\ \A m \in Watch!Calls : call'[m] = IF m = n THEN c ELSE call[m]
    BY <1>0, <2>1, <2>2, CallChanged
  <2>4. Last.at # "board"
    BY <2>2, <2>3 DEF LightInv
  <2>5. (Last'.on <=> Last.on) /\ Last'.at # "board"
    BY <2>1, <2>3, <2>4 DEF Last
  <2>6. (\E m \in Watch!Calls' : call'[m].open) => \E m \in Watch!Calls : call[m].open
    BY <2>1, <2>3
  <2> QED BY <2>2, <2>3, <2>5, <2>6 DEF LightInv
<1>3. CASE Watch!CallAnswered(n) \/ Watch!CallTimesOut(n)
  <2> DEFINE c == [call[n] EXCEPT !.open = FALSE]
  <2>1. c \in SetCall /\ c.at = call[n].at /\ (c.on <=> call[n].on) /\ ~ c.open
    BY <1>0 DEF SetCall
  <2>2. call' = [call EXCEPT ![n] = c] /\ UNCHANGED <<lit, lightOn>> /\ call[n].open
    BY <1>3 DEF Watch!CallAnswered, Watch!CallTimesOut, Watch!board
  <2> HIDE DEF c
  <2>3. /\ call' \in Seq(SetCall) /\ Watch!Calls' = Watch!Calls /\ Len(call') = Len(call) /\ call # <<>>
        /\ Len(call) \in Watch!Calls
        /\ \A m \in Watch!Calls : call'[m] = IF m = n THEN c ELSE call[m]
    BY <1>0, <2>1, <2>2, CallChanged
  <2>4. Last.on <=> lightOn
    BY <2>2, <2>3 DEF LightInv
  <2>5. (Last'.on <=> Last.on) /\ Last'.at = Last.at
    BY <2>1, <2>3 DEF Last
  <2>6. (\A m \in Watch!Calls : call[m].at # "wire") => \A m \in Watch!Calls' : call'[m].at # "wire"
    BY <2>1, <2>3
  <2> QED BY <2>2, <2>3, <2>4, <2>5, <2>6 DEF LightInv
<1> QED BY <1>1, <1>2, <1>3

\* The calls and the light, at every step of the watch.
LEMMA LightAlways == Watch!Spec => []LightInv
<1>1. Watch!Init => LightInv
  BY EmptySeq DEF Watch!Init, LightInv
<1>2. LightInv /\ [Watch!Next]_Watch!vars => LightInv'
  <2> SUFFICES ASSUME LightInv, [Watch!Next]_Watch!vars PROVE LightInv'
    OBVIOUS
  <2>1. ASSUME UNCHANGED <<call, lit, lightOn, adrift>> PROVE LightInv'
    BY <2>1 DEF LightInv, Last, Watch!Calls
  <2>2. ASSUME Watch!LightForHit, UNCHANGED <<lit, adrift>> PROVE LightInv'
    BY <2>1, <2>2, LightSet DEF Watch!LightForHit
  <2>3. CASE Watch!Restart
    <3> DEFINE closed(c) == [c EXCEPT !.open = FALSE, !.at = IF @ = "wire" THEN "nowhere" ELSE @]
    <3>1. call' = [n \in Watch!Calls |-> closed(call[n])] /\ lightOn' = FALSE /\ adrift' = TRUE /\ lit' = lit
      BY <2>3 DEF Watch!Restart
    <3>2. ASSUME NEW c \in SetCall
          PROVE  /\ closed(c) \in SetCall /\ ~ closed(c).open /\ (closed(c).on <=> c.on) /\ closed(c).at # "wire"
                 /\ closed(c).at = "board" => c.at = "board"
      BY DEF SetCall
    <3>3. call \in Seq(SetCall) /\ Len(call) \in Nat /\ \A n \in Watch!Calls : call[n] \in SetCall
      BY LenProperties, ElementOfSeq DEF LightInv, Watch!Calls
    <3> HIDE DEF closed
    <3>4. call' \in Seq(SetCall) /\ Len(call') = Len(call) /\ Watch!Calls' = Watch!Calls
      <4>1. call' \in [1..Len(call) -> SetCall]
        BY <3>1, <3>2, <3>3 DEF Watch!Calls
      <4> QED BY <3>3, <4>1, SeqDef, LenProperties DEF Watch!Calls
    <3>5. \A n \in Watch!Calls' : ~ call'[n].open /\ call'[n].at # "wire"
      BY <3>1, <3>2, <3>3, <3>4
    <3>6. call' # <<>> => Len(call) \in Watch!Calls /\ call # <<>>
      BY <3>3, <3>4, EmptySeq DEF Watch!Calls
    <3>7. call' # <<>> => (Last'.on <=> Last.on) /\ (Last'.at = "board" => Last.at = "board")
      BY <3>1, <3>2, <3>3, <3>4, <3>6 DEF Last
    <3> QED BY <3>1, <3>4, <3>5, <3>6, <3>7 DEF LightInv
  <2>4. CASE \E ip \in Ips : Watch!Hit(ip) \/ Watch!NewDevice(ip)
    BY <2>1, <2>2, <2>4 DEF Watch!Hit, Watch!NewDevice, Watch!light, Watch!board
  <2>5. CASE \E i \in Watch!Ids : \/ Watch!Labelled(i) \/ Watch!Insert(i) \/ Watch!InsertFails(i) \/ Watch!Raised(i)
    BY <2>1, <2>2, <2>5 DEF Watch!Labelled, Watch!Insert, Watch!InsertFails, Watch!Raised, Watch!light, Watch!board
  <2>6. CASE \/ \E a \in active \ quiet : Watch!HoldEnds(a)
             \/ \E a \in Watch!Alerts : Watch!ClearOne(a) \/ Watch!ClearFails(a)
             \/ Watch!LightHoldEnds \/ Watch!Wake \/ Watch!LoopGoesOn \/ Watch!OtherCommit \/ UNCHANGED Watch!vars
    BY <2>1, <2>6 DEF Watch!HoldEnds, Watch!ClearOne, Watch!ClearFails, Watch!LightHoldEnds, Watch!Wake,
       Watch!LoopGoesOn, Watch!OtherCommit, Watch!vars, Watch!light, Watch!board
  <2>7. CASE Watch!LightOff \/ Watch!Stop
    BY <2>1, <2>7, LightSet DEF Watch!LightOff, Watch!Stop, Watch!board
  <2> QED BY <2>3, <2>4, <2>5, <2>6, <2>7, CallsKeep DEF Watch!Next
<1> QED BY <1>1, <1>2, PTL DEF Watch!Spec

\* Once the board has executed the last call and no call is under way, its
\* light is what light_on says, although _set_light() runs in several
\* coroutines and calls are refused, lost, or late: _hit(), _loop(), stop().
THEOREM LightIsAsSet == Watch!Spec => []LightFollows
<1>1. LightInv => LightFollows
  <2> SUFFICES ASSUME LightInv, \A n \in Watch!Calls : ~ call[n].open,
                      call # <<>>, call[Len(call)].at = "board", ~ adrift
               PROVE  lit = lightOn
    BY DEF LightFollows, Watch!LightFollows
  <2>1. lit <=> lightOn
    BY DEF LightInv, Last
  <2>2. lit \in BOOLEAN /\ lightOn \in BOOLEAN
    BY DEF LightInv
  <2> QED BY <2>1, <2>2
<1> QED BY <1>1, LightAlways, PTL

-----------------------------------------------------------------------------
(* The points and the events of the export.                                *)

Rising(s) == \A i, j \in DOMAIN s : i < j => s[i] < s[j]
Under(S, T) == \A x \in S, y \in T : x < y

\* A part of a sequence, of its elements and in its order.
LEMMA PartOf ==
    ASSUME NEW s \in Seq(Nat), NEW a \in Nat \ {0}, NEW b \in Nat, b <= Len(s)
    PROVE  /\ SubSeq(s, a, b) \in Seq(Nat)
           /\ DOMAIN SubSeq(s, a, b) = 1..(IF a <= b THEN b - a + 1 ELSE 0)
           /\ \A i \in DOMAIN SubSeq(s, a, b) : i + a - 1 \in a..b /\ SubSeq(s, a, b)[i] = s[i + a - 1]
           /\ Export!Elements(SubSeq(s, a, b)) = {s[i] : i \in a..b}
           /\ Rising(s) => Rising(SubSeq(s, a, b))
<1> DEFINE t == SubSeq(s, a, b)
<1>1. Len(s) \in Nat /\ DOMAIN s = 1..Len(s) /\ \A i \in 1..Len(s) : s[i] \in Nat
  BY LenProperties, ElementOfSeq
<1>2. \A i \in a..b : s[i] \in Nat
  BY <1>1
<1>3. t \in Seq(Nat) /\ Len(t) = IF a <= b THEN b - a + 1 ELSE 0
  BY <1>1, <1>2, SubSeqProperties
<1>4. \A i \in 1..(b - a + 1) : t[i] = s[a + i - 1]
  BY <1>1, <1>2, SubSeqProperties
<1> HIDE DEF t
<1>5. DOMAIN t = 1..(IF a <= b THEN b - a + 1 ELSE 0)
  BY <1>3, LenProperties
<1>6. \A i \in DOMAIN t : i + a - 1 \in a..b /\ i \in 1..(b - a + 1)
  BY <1>5
<1>7. \A i \in DOMAIN t : t[i] = s[i + a - 1]
  BY <1>4, <1>6
<1>8. \A j \in a..b : j - a + 1 \in DOMAIN t /\ t[j - a + 1] = s[j]
  <2> SUFFICES ASSUME NEW j \in a..b PROVE j - a + 1 \in DOMAIN t /\ t[j - a + 1] = s[j]
    OBVIOUS
  <2>1. j - a + 1 \in DOMAIN t /\ (j - a + 1) + a - 1 = j
    BY <1>5
  <2> QED BY <2>1, <1>7
<1>9. Export!Elements(t) = {s[i] : i \in a..b}
  <2>1. Export!Elements(t) = {t[i] : i \in DOMAIN t}
    BY DEF Export!Elements
  <2>2. {t[i] : i \in DOMAIN t} \subseteq {s[i] : i \in a..b}
    BY <1>6, <1>7
  <2>3. {s[i] : i \in a..b} \subseteq {t[i] : i \in DOMAIN t}
    BY <1>8
  <2> QED BY <2>1, <2>2, <2>3
<1>10. ASSUME Rising(s), NEW i \in DOMAIN t, NEW j \in DOMAIN t, i < j PROVE t[i] < t[j]
  <2>1. i + a - 1 \in 1..Len(s) /\ j + a - 1 \in 1..Len(s) /\ i + a - 1 < j + a - 1
    BY <1>1, <1>5, <1>10
  <2>2. s[i + a - 1] < s[j + a - 1]
    BY <1>1, <1>10, <2>1 DEF Rising
  <2> QED BY <1>7, <2>2
<1> QED BY <1>3, <1>5, <1>6, <1>7, <1>9, <1>10 DEF t, Rising

\* A sequence in two parts.
LEMMA Parted ==
    ASSUME NEW s \in Seq(Nat), NEW k \in 0..Len(s)
    PROVE  LET a == SubSeq(s, 1, k)
               b == SubSeq(s, k + 1, Len(s)) IN
           /\ a \in Seq(Nat) /\ b \in Seq(Nat)
           /\ Export!Elements(a) \union Export!Elements(b) = Export!Elements(s)
           /\ Rising(s) => Rising(a) /\ Rising(b) /\ Under(Export!Elements(a), Export!Elements(b))
           /\ k < Len(s) => b # <<>>
<1> DEFINE a == SubSeq(s, 1, k)
           b == SubSeq(s, k + 1, Len(s))
<1>1. Len(s) \in Nat /\ DOMAIN s = 1..Len(s) /\ k \in Nat /\ k <= Len(s) /\ k + 1 \in Nat \ {0}
      /\ \A i \in 1..Len(s) : s[i] \in Nat
  BY LenProperties, ElementOfSeq
<1>2. /\ a \in Seq(Nat) /\ Export!Elements(a) = {s[i] : i \in 1..k}
      /\ Rising(s) => Rising(a)
  <2>1. 1 \in Nat \ {0}
    OBVIOUS
  <2> QED BY <1>1, <2>1, PartOf
<1>3. /\ b \in Seq(Nat) /\ Export!Elements(b) = {s[i] : i \in (k + 1)..Len(s)}
      /\ Rising(s) => Rising(b)
      /\ DOMAIN b = 1..(IF k + 1 <= Len(s) THEN Len(s) - (k + 1) + 1 ELSE 0)
  <2>1. Len(s) <= Len(s)
    BY <1>1
  <2> QED BY <1>1, <2>1, PartOf
<1> HIDE DEF a, b
<1>4. Export!Elements(a) \union Export!Elements(b) = Export!Elements(s)
  <2>1. Export!Elements(s) = {s[i] : i \in 1..Len(s)}
    BY <1>1 DEF Export!Elements
  <2>2. 1..Len(s) = (1..k) \union ((k + 1)..Len(s))
    BY <1>1
  <2> QED BY <1>2, <1>3, <2>1, <2>2
<1>5. Rising(s) => Under(Export!Elements(a), Export!Elements(b))
  <2> SUFFICES ASSUME Rising(s), NEW i \in 1..k, NEW j \in (k + 1)..Len(s) PROVE s[i] < s[j]
    BY <1>2, <1>3 DEF Under
  <2>1. i \in 1..Len(s) /\ j \in 1..Len(s) /\ i < j
    BY <1>1
  <2> QED BY <1>1, <2>1 DEF Rising
<1>6. k < Len(s) => b # <<>>
  <2> SUFFICES ASSUME k < Len(s), b = <<>> PROVE FALSE
    OBVIOUS
  <2>1. 1 \in DOMAIN b
    BY <1>1, <1>3
  <2>2. Len(b) = 0 /\ DOMAIN b = 1..Len(b)
    BY <1>3, EmptySeq, LenProperties
  <2> QED BY <2>1, <2>2
<1> QED BY <1>2, <1>3, <1>4, <1>5, <1>6 DEF a, b

\* One sequence behind the other.
LEMMA Joined ==
    ASSUME NEW s \in Seq(Nat), NEW t \in Seq(Nat)
    PROVE  /\ s \o t \in Seq(Nat) /\ Len(s \o t) = Len(s) + Len(t)
           /\ Export!Elements(s \o t) = Export!Elements(s) \union Export!Elements(t)
           /\ Rising(s) /\ Rising(t) /\ Under(Export!Elements(s), Export!Elements(t)) => Rising(s \o t)
<1> DEFINE u == s \o t
<1>1. /\ Len(s) \in Nat /\ DOMAIN s = 1..Len(s) /\ Len(t) \in Nat /\ DOMAIN t = 1..Len(t)
      /\ \A i \in 1..Len(s) : s[i] \in Nat
      /\ \A i \in 1..Len(t) : t[i] \in Nat
  BY LenProperties, ElementOfSeq
<1>2. u \in Seq(Nat) /\ Len(u) = Len(s) + Len(t)
  BY ConcatProperties
<1>3. \A i \in 1..(Len(s) + Len(t)) : u[i] = IF i <= Len(s) THEN s[i] ELSE t[i - Len(s)]
  BY ConcatProperties
<1> HIDE DEF u
<1>4. DOMAIN u = 1..(Len(s) + Len(t))
  BY <1>2, LenProperties
<1>5. \A i \in 1..Len(s) : i \in DOMAIN u /\ u[i] = s[i]
  BY <1>1, <1>3, <1>4
<1>6. \A i \in 1..Len(t) : i + Len(s) \in DOMAIN u /\ u[i + Len(s)] = t[i]
  <2> SUFFICES ASSUME NEW i \in 1..Len(t) PROVE i + Len(s) \in DOMAIN u /\ u[i + Len(s)] = t[i]
    OBVIOUS
  <2>1. i + Len(s) \in 1..(Len(s) + Len(t)) /\ ~ (i + Len(s) <= Len(s)) /\ (i + Len(s)) - Len(s) = i
    BY <1>1
  <2> QED BY <1>3, <1>4, <2>1
<1>7. \A i \in DOMAIN u : \/ i \in 1..Len(s) /\ u[i] = s[i]
                          \/ i - Len(s) \in 1..Len(t) /\ u[i] = t[i - Len(s)]
  BY <1>1, <1>3, <1>4
<1>8. Export!Elements(u) = Export!Elements(s) \union Export!Elements(t)
  <2>1. Export!Elements(u) \subseteq Export!Elements(s) \union Export!Elements(t)
    BY <1>1, <1>7 DEF Export!Elements
  <2>2. Export!Elements(s) \union Export!Elements(t) \subseteq Export!Elements(u)
    BY <1>1, <1>5, <1>6 DEF Export!Elements
  <2> QED BY <2>1, <2>2
<1>9. ASSUME Rising(s), Rising(t), Under(Export!Elements(s), Export!Elements(t)),
             NEW i \in DOMAIN u, NEW j \in DOMAIN u, i < j
      PROVE  u[i] < u[j]
  <2>1. CASE i \in 1..Len(s) /\ j \in 1..Len(s)
    BY <1>1, <1>5, <1>9, <2>1 DEF Rising
  <2>2. CASE i \in 1..Len(s) /\ j \notin 1..Len(s)
    <3>1. s[i] \in Export!Elements(s) /\ t[j - Len(s)] \in Export!Elements(t)
      BY <1>1, <1>7, <2>2 DEF Export!Elements
    <3> QED BY <1>5, <1>7, <1>9, <2>2, <3>1 DEF Under
  <2>3. CASE i \notin 1..Len(s)
    <3>1. /\ i - Len(s) \in 1..Len(t) /\ u[i] = t[i - Len(s)]
          /\ j - Len(s) \in 1..Len(t) /\ u[j] = t[j - Len(s)]
          /\ i - Len(s) < j - Len(s)
      BY <1>1, <1>4, <1>7, <1>9, <2>3
    <3> QED BY <1>1, <1>9, <3>1 DEF Rising
  <2> QED BY <2>1, <2>2, <2>3
<1> QED BY <1>2, <1>8, <1>9 DEF u, Rising

\* What a full deque keeps is a part of what it held, the newest in it.
LEMMA Extended ==
    ASSUME NEW q \in Seq(Nat), NEW new \in Seq(Nat), NEW limit \in Nat
    PROVE  LET e == Export!Elements(q) \union Export!Elements(new)
               kept == Export!Extend(q, new, limit) IN
           /\ kept \in Seq(Nat) /\ Export!Elements(kept) \subseteq e
           /\ e \subseteq Export!Elements(kept) \union Export!Pushed(q, new, limit)
           /\ Export!Pushed(q, new, limit) \subseteq e
           /\ Rising(q) /\ Rising(new) /\ Under(Export!Elements(q), Export!Elements(new)) => Rising(kept)
           /\ new # <<>> /\ limit # 0 => kept # <<>>
<1> DEFINE all == q \o new
           k == IF Len(all) > limit THEN Len(all) - limit ELSE 0
           kept == SubSeq(all, k + 1, Len(all))
<1>1. /\ all \in Seq(Nat) /\ Len(all) = Len(q) + Len(new)
      /\ Export!Elements(all) = Export!Elements(q) \union Export!Elements(new)
      /\ Rising(q) /\ Rising(new) /\ Under(Export!Elements(q), Export!Elements(new)) => Rising(all)
  BY Joined
<1>2. Len(q) \in Nat /\ Len(new) \in Nat /\ Len(all) \in Nat
  BY <1>1, LenProperties
<1>3. Export!Extend(q, new, limit) = kept
  <2>1. 1 + k = k + 1
    BY <1>2
  <2>2. Export!Extend(q, new, limit) = SubSeq(all, 1 + k, Len(all))
    BY DEF Export!Extend
  <2> QED BY <2>1, <2>2
<1>4. Export!Pushed(q, new, limit) = Export!Elements(all) \ Export!Elements(kept)
  BY <1>3 DEF Export!Pushed
<1> HIDE DEF all
<1>5. k \in 0..Len(all)
  BY <1>2
<1>6. new # <<>> => Len(all) > 0
  BY <1>1, <1>2, EmptySeq
<1>7. new # <<>> /\ limit # 0 => k < Len(all)
  BY <1>2, <1>6
<1> HIDE DEF k
<1>8. /\ kept \in Seq(Nat) /\ Export!Elements(kept) \subseteq Export!Elements(all)
      /\ Rising(all) => Rising(kept)
      /\ k < Len(all) => kept # <<>>
  <2>1. /\ kept \in Seq(Nat)
        /\ Export!Elements(SubSeq(all, 1, k)) \union Export!Elements(kept) = Export!Elements(all)
        /\ Rising(all) => Rising(SubSeq(all, 1, k)) /\ Rising(kept)
        /\ k < Len(all) => kept # <<>>
    BY <1>1, <1>5, Parted
  <2> QED BY <2>1
<1> HIDE DEF kept
<1> QED BY <1>1, <1>3, <1>4, <1>7, <1>8

\* Fields that hold what the invariant says of them.
Out(f) == IF f.pc = "points" THEN f.batch ELSE <<>>

ExportTyped ==
    /\ points \in Seq(Nat) /\ events \in Seq(Nat) /\ flush.batch \in Seq(Nat)
    /\ made \in [points : Nat, events : Nat]
    /\ sent \in [points : SUBSET Nat, events : SUBSET Nat]
    /\ over \in [points : SUBSET Nat, events : SUBSET Nat]
    /\ exportPhase = "up" => exportCut = {}
    /\ flush.pc = "events" => events # <<>>

\* The points in the batch, which are older, and those in the queue: in their
\* order, none of them posted.
LineStory(out, q, done, m) ==
    /\ Rising(out) /\ Rising(q) /\ Under(Export!Elements(out), Export!Elements(q))
    /\ Export!Elements(out) \union Export!Elements(q) \union done \subseteq 1..m
    /\ done \intersect (Export!Elements(out) \union Export!Elements(q)) = {}

\* Where a point can be, and an event.
NothingLost ==
    /\ 1..made.points \subseteq sent.points \union over.points \union exportCut \union Export!Elements(points)
                                 \union Export!Elements(Out(flush))
    /\ 1..made.events \subseteq sent.events \union over.events \union Export!Elements(events)

ExportInv == ExportTyped /\ LineStory(Out(flush), points, sent.points, made.points) /\ NothingLost

LEMMA NothingIn == /\ <<>> \in Seq(Nat) /\ Rising(<<>>) /\ Export!Elements(<<>>) = {} /\ Len(<<>>) = 0
<1>1. <<>> \in Seq(Nat) /\ Len(<<>>) = 0 /\ DOMAIN <<>> = {}
  BY EmptySeq
<1> QED BY <1>1 DEF Rising, Export!Elements

\* The loop of the events, with that of the checks behind it, posts no points.
LEMMA NextEventSteps ==
    ASSUME NEW q \in Seq(Nat), NEW all, Export!NextEvent(q, all)
    PROVE  /\ events' = q /\ flush'.batch \in Seq(Nat) /\ flush'.pc # "points"
           /\ flush'.pc = "events" => q # <<>>
           /\ exportPhase' = "up" => exportPhase = "up"
<1>1. events' = q
  BY DEF Export!NextEvent
<1>2. CASE q # <<>>
  <2>1. Head(q) \in Nat
    BY <1>2, HeadTailProperties
  <2>2. flush' = [pc |-> "events", batch |-> <<Head(q)>>, left |-> {}] /\ exportPhase' = exportPhase
    BY <1>2 DEF Export!NextEvent
  <2>3. <<Head(q)>> \in Seq(Nat)
    BY <2>1
  <2> QED BY <1>1, <1>2, <2>2, <2>3
<1>3. CASE q = <<>>
  <2>1. Export!NextChecks(all, all)
    BY <1>3 DEF Export!NextEvent
  <2>2. CASE all # {}
    <3>1. exportPhase' = exportPhase /\ flush'.batch = <<>> /\ flush'.pc = "checks"
      BY <2>1, <2>2 DEF Export!NextChecks
    <3> QED BY <1>1, <3>1, NothingIn
  <2>3. CASE all = {}
    <3>1. Export!FlushOver
      BY <2>1, <2>3 DEF Export!NextChecks
    <3>2. flush'.batch = <<>> /\ flush'.pc = "rest" /\ (exportPhase' = "up" => exportPhase = "up")
      BY <3>1 DEF Export!FlushOver, Export!AtRest
    <3> QED BY <1>1, <3>2, NothingIn
  <2> QED BY <2>2, <2>3
<1> QED BY <1>2, <1>3

\* The loop of the points splits what it takes them from.
LEMMA NextBatchSteps ==
    ASSUME NEW q \in Seq(Nat), events \in Seq(Nat), NEW all, Export!NextBatch(q, all)
    PROVE  /\ points' \in Seq(Nat) /\ events' = events /\ flush'.batch \in Seq(Nat)
           /\ flush'.pc = "events" => events # <<>>
           /\ exportPhase' = "up" => exportPhase = "up"
           /\ Export!Elements(Out(flush')) \union Export!Elements(points') = Export!Elements(q)
           /\ Rising(q) => /\ Rising(Out(flush')) /\ Rising(points')
                           /\ Under(Export!Elements(Out(flush')), Export!Elements(points'))
<1>1. CASE q # <<>>
  <2> DEFINE k == Export!Least(Len(q))
             a == SubSeq(q, 1, k)
             b == SubSeq(q, k + 1, Len(q))
  <2>1. k \in 0..Len(q)
    BY LenProperties, HostAssumption DEF Export!Least
  <2>2. /\ flush' = [pc |-> "points", batch |-> a, left |-> {}] /\ points' = b
        /\ events' = events /\ exportPhase' = exportPhase
    BY <1>1 DEF Export!NextBatch
  <2> HIDE DEF k
  <2>3. /\ a \in Seq(Nat) /\ b \in Seq(Nat)
        /\ Export!Elements(a) \union Export!Elements(b) = Export!Elements(q)
        /\ Rising(q) => Rising(a) /\ Rising(b) /\ Under(Export!Elements(a), Export!Elements(b))
    BY <2>1, Parted
  <2> HIDE DEF a, b
  <2>4. Out(flush') = a /\ flush'.batch = a /\ flush'.pc = "points"
    BY <2>2 DEF Out
  <2> QED BY <2>2, <2>3, <2>4
<1>2. CASE q = <<>>
  <2>1. points' = q /\ Export!NextEvent(events, all)
    BY <1>2 DEF Export!NextBatch
  <2>2. /\ events' = events /\ flush'.batch \in Seq(Nat) /\ flush'.pc # "points"
        /\ flush'.pc = "events" => events # <<>>
        /\ exportPhase' = "up" => exportPhase = "up"
    BY <2>1, NextEventSteps
  <2>3. Out(flush') = <<>>
    BY <2>2 DEF Out
  <2> QED BY <1>2, <2>1, <2>2, <2>3, NothingIn DEF Under
<1> QED BY <1>1, <1>2

\* New points at the end of the queue, with new numbers.
LEMMA FreshPoints ==
    ASSUME ExportInv, NEW new \in Seq(Nat), NEW k \in Nat, Rising(new),
           Export!Elements(new) = (made.points + 1)..(made.points + k)
    PROVE  LET kept == Export!Extend(points, new, MaxQueue)
               pushed == Export!Pushed(points, new, MaxQueue) IN
           /\ kept \in Seq(Nat) /\ pushed \in SUBSET Nat
           /\ LineStory(Out(flush), kept, sent.points, made.points + k)
           /\ 1..(made.points + k) \subseteq sent.points \union over.points \union pushed \union exportCut
                                               \union Export!Elements(kept) \union Export!Elements(Out(flush))
<1> DEFINE kept == Export!Extend(points, new, MaxQueue)
           pushed == Export!Pushed(points, new, MaxQueue)
           queued == Export!Elements(points)
           out == Export!Elements(Out(flush))
           m == made.points
<1>1. m \in Nat /\ points \in Seq(Nat) /\ MaxQueue \in Nat
  BY HostAssumption DEF ExportInv, ExportTyped
<1>2. /\ Rising(Out(flush)) /\ Rising(points) /\ Under(out, queued) /\ out \subseteq 1..m /\ queued \subseteq 1..m
      /\ sent.points \subseteq 1..m /\ sent.points \intersect out = {} /\ sent.points \intersect queued = {}
      /\ 1..m \subseteq sent.points \union over.points \union exportCut \union queued \union out
  BY DEF ExportInv, LineStory, NothingLost
<1> HIDE DEF m, queued, out
<1>3. Under(queued, (m + 1)..(m + k)) /\ Under(out, (m + 1)..(m + k))
  BY <1>1, <1>2 DEF Under
<1>4. /\ kept \in Seq(Nat) /\ Export!Elements(kept) \subseteq queued \union ((m + 1)..(m + k))
      /\ queued \union ((m + 1)..(m + k)) \subseteq Export!Elements(kept) \union pushed
      /\ pushed \subseteq queued \union ((m + 1)..(m + k))
      /\ Rising(kept)
  <2>1. Under(Export!Elements(points), Export!Elements(new))
    BY <1>3 DEF queued, m
  <2>2. /\ kept \in Seq(Nat) /\ Export!Elements(kept) \subseteq Export!Elements(points) \union Export!Elements(new)
        /\ Export!Elements(points) \union Export!Elements(new) \subseteq Export!Elements(kept) \union pushed
        /\ pushed \subseteq Export!Elements(points) \union Export!Elements(new)
        /\ Rising(points) /\ Rising(new) /\ Under(Export!Elements(points), Export!Elements(new)) => Rising(kept)
    BY <1>1, Extended
  <2> QED BY <1>2, <2>1, <2>2 DEF queued, m
<1> HIDE DEF kept, pushed
<1>5. Under(out, Export!Elements(kept))
  BY <1>2, <1>3, <1>4 DEF Under
<1>6. 1..m \subseteq 1..(m + k) /\ (m + 1)..(m + k) \subseteq 1..(m + k) /\ (1..m) \intersect ((m + 1)..(m + k)) = {}
      /\ 1..(m + k) = (1..m) \union ((m + 1)..(m + k)) /\ (m + 1)..(m + k) \subseteq Nat /\ 1..m \subseteq Nat
  BY <1>1
<1>7. LineStory(Out(flush), kept, sent.points, m + k)
  <2>1. out \union Export!Elements(kept) \union sent.points \subseteq 1..(m + k)
    BY <1>2, <1>4, <1>6
  <2>2. sent.points \intersect (out \union Export!Elements(kept)) = {}
    BY <1>2, <1>4, <1>6
  <2> QED BY <1>2, <1>4, <1>5, <2>1, <2>2 DEF LineStory, out
<1>8. 1..(m + k) \subseteq sent.points \union over.points \union pushed \union exportCut
                             \union Export!Elements(kept) \union out
  BY <1>2, <1>4, <1>6
<1>9. pushed \in SUBSET Nat
  BY <1>2, <1>4, <1>6
<1> QED BY <1>4, <1>7, <1>8, <1>9 DEF kept, pushed, out, m

\* The hooks that make points, and those that make events.
LEMMA HooksKeep ==
    ASSUME ExportInv,
           \/ Export!OnTelemetry
           \/ Export!OnAlert
           \/ \E b \in Boards, state \in {"online", "offline"} : Export!OnState(b, state)
    PROVE  ExportInv'
<1>0. ExportTyped
  BY DEF ExportInv
<1>1. CASE Export!OnTelemetry
  <2> DEFINE n == made.points + 1
             pushed == Export!Pushed(points, <<n>>, MaxQueue)
  <2>1. /\ points' = Export!Extend(points, <<n>>, MaxQueue)
        /\ over' = [over EXCEPT !.points = @ \union pushed]
        /\ made' = [made EXCEPT !.points = n]
        /\ UNCHANGED <<exportPhase, events, flush, sent, exportCut>>
    BY <1>1 DEF Export!OnTelemetry
  <2>2. n \in Nat /\ made.points \in Nat
    BY <1>0 DEF ExportTyped
  <2>3. <<n>> \in Seq(Nat) /\ Rising(<<n>>) /\ Export!Elements(<<n>>) = {n} /\ {n} = n..n
    <3>1. <<n>> \in Seq(Nat) /\ DOMAIN <<n>> = {1} /\ <<n>>[1] = n
      BY <2>2
    <3> QED BY <2>2, <3>1 DEF Rising, Export!Elements
  <2>4. /\ points' \in Seq(Nat) /\ pushed \in SUBSET Nat
        /\ LineStory(Out(flush), points', sent.points, n)
        /\ 1..n \subseteq sent.points \union over.points \union pushed \union exportCut
                            \union Export!Elements(points') \union Export!Elements(Out(flush))
    <3>1. Export!Elements(<<n>>) = (made.points + 1)..(made.points + 1) /\ 1 \in Nat
      BY <2>3
    <3> HIDE DEF n
    <3>2. n = made.points + 1
      BY DEF n
    <3> QED BY <2>1, <2>3, <3>1, <3>2, FreshPoints
  <2> HIDE DEF n, pushed
  <2>5. /\ made' \in [points : Nat, events : Nat] /\ made'.points = n /\ made'.events = made.events
        /\ over' \in [points : SUBSET Nat, events : SUBSET Nat]
        /\ over'.points = over.points \union pushed /\ over'.events = over.events
    BY <1>0, <2>1, <2>2, <2>4 DEF ExportTyped
  <2>6. ExportTyped'
    BY <1>0, <2>1, <2>4, <2>5 DEF ExportTyped
  <2>7. NothingLost'
    BY <2>1, <2>4, <2>5 DEF ExportInv, NothingLost
  <2> QED BY <2>1, <2>4, <2>5, <2>6, <2>7 DEF ExportInv
<1>2. ASSUME Export!NewEvent PROVE ExportInv'
  <2> DEFINE n == made.events + 1
             pushed == Export!Pushed(events, <<n>>, MaxEvents)
  <2>1. /\ events' = Export!Extend(events, <<n>>, MaxEvents)
        /\ over' = [over EXCEPT !.events = @ \union pushed]
        /\ made' = [made EXCEPT !.events = n]
        /\ UNCHANGED <<exportPhase, points, flush, sent, exportCut>>
    BY <1>2 DEF Export!NewEvent
  <2>2. n \in Nat /\ made.events \in Nat /\ events \in Seq(Nat)
        /\ MaxEvents \in Nat /\ MaxEvents # 0
    BY <1>0, HostAssumption DEF ExportTyped
  <2>3. <<n>> \in Seq(Nat) /\ <<n>> # <<>> /\ Export!Elements(<<n>>) = {n}
    <3>1. <<n>> \in Seq(Nat) /\ DOMAIN <<n>> = {1} /\ <<n>>[1] = n
      BY <2>2
    <3>2. Len(<<n>>) = 1
      BY <2>2
    <3> QED BY <3>1, <3>2, NothingIn DEF Export!Elements
  <2>4. /\ events' \in Seq(Nat) /\ events' # <<>>
        /\ Export!Elements(events) \union {n} \subseteq Export!Elements(events') \union pushed
        /\ pushed \subseteq Export!Elements(events) \union {n}
    <3> HIDE DEF n
    <3> QED BY <2>1, <2>2, <2>3, Extended
  <2>5. Export!Elements(events) \subseteq Nat
    BY <2>2, LenProperties, ElementOfSeq DEF Export!Elements
  <2>6. 1..n = (1..made.events) \union {n}
    BY <2>2
  <2> HIDE DEF n, pushed
  <2>7. /\ made' \in [points : Nat, events : Nat] /\ made'.points = made.points /\ made'.events = n
        /\ over' \in [points : SUBSET Nat, events : SUBSET Nat]
        /\ over'.points = over.points /\ over'.events = over.events \union pushed
    BY <1>0, <2>1, <2>2, <2>4, <2>5 DEF ExportTyped
  <2>8. ExportTyped'
    BY <1>0, <2>1, <2>4, <2>7 DEF ExportTyped
  <2>9. NothingLost'
    BY <2>1, <2>4, <2>6, <2>7 DEF ExportInv, NothingLost
  <2>10. LineStory(Out(flush'), points', sent'.points, made'.points)
    BY <2>1, <2>7 DEF ExportInv
  <2> QED BY <2>8, <2>9, <2>10 DEF ExportInv
<1> QED BY <1>1, <1>2 DEF Export!OnAlert, Export!OnState

\* flush() takes up its work, or goes on with it after a POST.
LEMMA FlushKeeps ==
    ASSUME ExportInv, Export!Flush \/ Export!PointsPosted \/ Export!EventPosted \/ Export!ChecksPosted
    PROVE  ExportInv'
<1>0. ExportTyped /\ NothingLost /\ LineStory(Out(flush), points, sent.points, made.points)
  BY DEF ExportInv
<1>1. CASE Export!Flush
  <2> DEFINE new == [i \in 1..FleetPoints |-> made.points + i]
             kept == Export!Extend(points, new, MaxQueue)
             pushed == Export!Pushed(points, new, MaxQueue)
             m == made.points + FleetPoints
  <2>1. /\ flush.pc = "rest"
        /\ made' = [made EXCEPT !.points = @ + FleetPoints]
        /\ over' = [over EXCEPT !.points = @ \union pushed]
        /\ Export!NextBatch(kept, Boards)
        /\ UNCHANGED <<sent, exportCut>>
    BY <1>1 DEF Export!Flush
  <2>2. made.points \in Nat /\ FleetPoints \in Nat /\ m \in Nat
    BY <1>0, HostAssumption DEF ExportTyped
  <2>3. new \in Seq(Nat) /\ Rising(new) /\ Export!Elements(new) = (made.points + 1)..(made.points + FleetPoints)
    <3>1. new \in [1..FleetPoints -> Nat] /\ DOMAIN new = 1..FleetPoints
      BY <2>2
    <3>2. new \in Seq(Nat)
      BY <2>2, <3>1, SeqDef
    <3>3. \A x \in (made.points + 1)..(made.points + FleetPoints) :
             x - made.points \in 1..FleetPoints /\ new[x - made.points] = x
      BY <2>2
    <3>4. \A i \in 1..FleetPoints : new[i] = made.points + i /\ new[i] \in (made.points + 1)..(made.points + FleetPoints)
      BY <2>2
    <3>5. Export!Elements(new) = {new[i] : i \in 1..FleetPoints}
      BY <3>1 DEF Export!Elements
    <3> HIDE DEF new
    <3>6. Export!Elements(new) = (made.points + 1)..(made.points + FleetPoints)
      BY <3>3, <3>4, <3>5
    <3>7. Rising(new)
      BY <2>2, <3>1, <3>4 DEF Rising
    <3> QED BY <3>2, <3>6, <3>7
  <2> HIDE DEF new
  <2>4. /\ kept \in Seq(Nat) /\ pushed \in SUBSET Nat
        /\ LineStory(Out(flush), kept, sent.points, m)
        /\ 1..m \subseteq sent.points \union over.points \union pushed \union exportCut
                            \union Export!Elements(kept) \union Export!Elements(Out(flush))
    BY <2>2, <2>3, FreshPoints
  <2> HIDE DEF kept, pushed
  <2>5. /\ points' \in Seq(Nat) /\ events' = events /\ flush'.batch \in Seq(Nat)
        /\ flush'.pc = "events" => events # <<>>
        /\ exportPhase' = "up" => exportPhase = "up"
        /\ Export!Elements(Out(flush')) \union Export!Elements(points') = Export!Elements(kept)
        /\ Rising(Out(flush')) /\ Rising(points')
        /\ Under(Export!Elements(Out(flush')), Export!Elements(points'))
    <3>1. Rising(kept) /\ events \in Seq(Nat)
      BY <1>0, <2>4 DEF LineStory, ExportTyped
    <3> QED BY <2>1, <2>4, <3>1, NextBatchSteps
  <2>6. Export!Elements(Out(flush)) = {}
    BY <2>1, NothingIn DEF Out
  <2>7. /\ made' \in [points : Nat, events : Nat] /\ made'.points = m /\ made'.events = made.events
        /\ over' \in [points : SUBSET Nat, events : SUBSET Nat]
        /\ over'.points = over.points \union pushed /\ over'.events = over.events
    BY <1>0, <2>1, <2>2, <2>4 DEF ExportTyped
  <2> HIDE DEF m
  <2>8. ExportTyped'
    BY <1>0, <2>1, <2>5, <2>7 DEF ExportTyped
  <2>9. NothingLost'
    BY <1>0, <2>1, <2>4, <2>5, <2>6, <2>7 DEF NothingLost
  <2>10. LineStory(Out(flush'), points', sent'.points, made'.points)
    BY <2>1, <2>4, <2>5, <2>6, <2>7 DEF LineStory
  <2> QED BY <2>8, <2>9, <2>10 DEF ExportInv
<1>2. CASE Export!PointsPosted
  <2> DEFINE posted == Export!Elements(flush.batch)
  <2>1. /\ flush.pc = "points"
        /\ sent' = [sent EXCEPT !.points = @ \union posted]
        /\ Export!NextBatch(points, checks)
        /\ UNCHANGED <<made, over, exportCut>>
    BY <1>2 DEF Export!PointsPosted
  <2>2. Export!Elements(Out(flush)) = posted
    BY <2>1 DEF Out
  <2> HIDE DEF posted
  <2>3. /\ Rising(points) /\ Under(posted, Export!Elements(points)) /\ posted \subseteq 1..made.points
        /\ made.points \in Nat /\ points \in Seq(Nat) /\ events \in Seq(Nat)
    BY <1>0, <2>2 DEF LineStory, ExportTyped
  <2>4. posted \intersect Export!Elements(points) = {}
    <3>1. \A x \in posted : ~ (x < x)
      BY <2>3
    <3> QED BY <2>3, <3>1 DEF Under
  <2>5. /\ points' \in Seq(Nat) /\ events' = events /\ flush'.batch \in Seq(Nat)
        /\ flush'.pc = "events" => events # <<>>
        /\ exportPhase' = "up" => exportPhase = "up"
        /\ Export!Elements(Out(flush')) \union Export!Elements(points') = Export!Elements(points)
        /\ Rising(Out(flush')) /\ Rising(points')
        /\ Under(Export!Elements(Out(flush')), Export!Elements(points'))
    BY <2>1, <2>3, NextBatchSteps
  <2>6. /\ sent' \in [points : SUBSET Nat, events : SUBSET Nat]
        /\ sent'.points = sent.points \union posted /\ sent'.events = sent.events
    <3>1. posted \in SUBSET Nat
      BY <2>3
    <3> QED BY <1>0, <2>1, <3>1 DEF ExportTyped
  <2>7. ExportTyped'
    BY <1>0, <2>1, <2>5, <2>6 DEF ExportTyped
  <2>8. NothingLost'
    BY <1>0, <2>1, <2>2, <2>5, <2>6 DEF NothingLost
  <2>9. LineStory(Out(flush'), points', sent'.points, made'.points)
    BY <1>0, <2>1, <2>2, <2>3, <2>4, <2>5, <2>6 DEF LineStory
  <2> QED BY <2>7, <2>8, <2>9 DEF ExportInv
<1>3. CASE Export!EventPosted
  <2> DEFINE posted == Export!Elements(flush.batch)
  <2>1. /\ flush.pc = "events"
        /\ sent' = [sent EXCEPT !.events = @ \union posted]
        /\ over' = [over EXCEPT !.events = @ \union ({Head(events)} \ posted)]
        /\ Export!NextEvent(Tail(events), checks)
        /\ UNCHANGED <<points, made, exportCut>>
    BY <1>3 DEF Export!EventPosted
  <2>2. events \in Seq(Nat) /\ events # <<>> /\ flush.batch \in Seq(Nat)
    BY <1>0, <2>1 DEF ExportTyped
  <2>3. posted \subseteq Nat
    BY <2>2, LenProperties, ElementOfSeq DEF Export!Elements
  <2>4. /\ Tail(events) \in Seq(Nat) /\ Head(events) \in Nat
        /\ Export!Elements(events) \subseteq {Head(events)} \union Export!Elements(Tail(events))
    <3>1. /\ Len(events) \in Nat \ {0} /\ DOMAIN events = 1..Len(events)
          /\ Head(events) = events[1] /\ Head(events) \in Nat
      BY <2>2, EmptySeq, LenProperties, HeadTailProperties
    <3>2. /\ Tail(events) \in Seq(Nat) /\ Len(Tail(events)) = Len(events) - 1
          /\ \A i \in 1..(Len(events) - 1) : Tail(events)[i] = events[i + 1]
      BY <2>2, HeadTailProperties
    <3>3. DOMAIN Tail(events) = 1..(Len(events) - 1)
      BY <3>2, LenProperties
    <3>4. \A i \in 1..Len(events) : i = 1 \/ (i - 1 \in 1..(Len(events) - 1) /\ (i - 1) + 1 = i)
      BY <3>1
    <3>5. \A i \in 1..Len(events) : events[i] = Head(events) \/ events[i] = Tail(events)[i - 1]
      BY <3>1, <3>2, <3>4
    <3>6. \A i \in 1..Len(events) : i = 1 \/ Tail(events)[i - 1] \in Export!Elements(Tail(events))
      BY <3>3, <3>4 DEF Export!Elements
    <3>7. \A i \in 1..Len(events) : events[i] \in {Head(events)} \union Export!Elements(Tail(events))
      BY <3>1, <3>5, <3>6
    <3>8. Export!Elements(events) = {events[i] : i \in 1..Len(events)}
      BY <3>1 DEF Export!Elements
    <3> QED BY <3>1, <3>2, <3>7, <3>8
  <2> HIDE DEF posted
  <2>5. /\ events' = Tail(events) /\ flush'.batch \in Seq(Nat) /\ flush'.pc # "points"
        /\ flush'.pc = "events" => Tail(events) # <<>>
        /\ exportPhase' = "up" => exportPhase = "up"
    BY <2>1, <2>4, NextEventSteps
  <2>6. /\ sent' \in [points : SUBSET Nat, events : SUBSET Nat]
        /\ sent'.points = sent.points /\ sent'.events = sent.events \union posted
        /\ over' \in [points : SUBSET Nat, events : SUBSET Nat]
        /\ over'.points = over.points /\ over'.events = over.events \union ({Head(events)} \ posted)
    BY <1>0, <2>1, <2>3, <2>4 DEF ExportTyped
  <2>7. Out(flush) = <<>> /\ Out(flush') = <<>>
    BY <2>1, <2>5 DEF Out
  <2>8. ExportTyped'
    BY <1>0, <2>1, <2>4, <2>5, <2>6 DEF ExportTyped
  <2>9. NothingLost'
    BY <1>0, <2>1, <2>4, <2>5, <2>6, <2>7 DEF NothingLost
  <2>10. LineStory(Out(flush'), points', sent'.points, made'.points)
    BY <1>0, <2>1, <2>6, <2>7
  <2> QED BY <2>8, <2>9, <2>10 DEF ExportInv
<1>4. CASE Export!ChecksPosted
  <2>1. /\ flush.pc = "checks" /\ Export!NextChecks(flush.left, checks)
        /\ UNCHANGED <<points, events, made, sent, over, exportCut>>
    BY <1>4 DEF Export!ChecksPosted
  <2>2. flush'.batch = <<>> /\ flush'.pc \in {"checks", "rest"} /\ (exportPhase' = "up" => exportPhase = "up")
    BY <2>1 DEF Export!NextChecks, Export!FlushOver, Export!AtRest
  <2>3. Out(flush) = <<>> /\ Out(flush') = <<>>
    BY <2>1, <2>2 DEF Out
  <2>4. ExportTyped'
    BY <1>0, <2>1, <2>2, NothingIn DEF ExportTyped
  <2>5. NothingLost'
    BY <1>0, <2>1, <2>3 DEF NothingLost
  <2>6. LineStory(Out(flush'), points', sent'.points, made'.points)
    BY <1>0, <2>1, <2>3
  <2> QED BY <2>4, <2>5, <2>6 DEF ExportInv
<1> QED BY <1>1, <1>2, <1>3, <1>4

\* A POST fails, a backoff is over, or the host stops.
LEMMA FailuresKeep ==
    ASSUME ExportInv, Export!PostFails \/ Export!Stop \/ Export!NoFlush \/ Export!BackoffEnds
    PROVE  ExportInv'
<1>0. ExportTyped /\ NothingLost /\ LineStory(Out(flush), points, sent.points, made.points)
  BY DEF ExportInv
<1>1. CASE Export!PostFails
  <2> DEFINE all == Out(flush) \o points
             k == IF Len(all) > MaxQueue THEN MaxQueue ELSE Len(all)
             kept == SubSeq(all, 1, k)
             gone == Export!Elements(all) \ Export!Elements(kept)
  <2>1. /\ points' = kept
        /\ over' = [over EXCEPT !.points = @ \union gone]
        /\ flush' = [pc |-> "rest", batch |-> <<>>, left |-> {}]
        /\ exportPhase' = "up" => exportPhase = "up"
        /\ UNCHANGED <<events, made, sent, exportCut>>
    BY <1>1 DEF Export!PostFails, Export!Requeue, Export!FlushOver, Export!AtRest, Out
  <2>2. Out(flush) \in Seq(Nat) /\ points \in Seq(Nat) /\ made.points \in Nat
    BY <1>0, NothingIn DEF ExportTyped, Out
  <2>3. /\ all \in Seq(Nat) /\ Rising(all)
        /\ Export!Elements(all) = Export!Elements(Out(flush)) \union Export!Elements(points)
    BY <1>0, <2>2, Joined DEF LineStory
  <2> HIDE DEF all
  <2>4. k \in 0..Len(all)
    BY <2>3, LenProperties, HostAssumption
  <2> HIDE DEF k
  <2>5. /\ kept \in Seq(Nat) /\ Rising(kept)
        /\ Export!Elements(kept) \union Export!Elements(SubSeq(all, k + 1, Len(all))) = Export!Elements(all)
    BY <2>3, <2>4, Parted
  <2> HIDE DEF kept
  <2>6. /\ Export!Elements(all) \subseteq 1..made.points
        /\ sent.points \intersect Export!Elements(all) = {} /\ sent.points \subseteq 1..made.points
    BY <1>0, <2>3 DEF LineStory
  <2>7. gone \in SUBSET Nat
    BY <2>2, <2>6
  <2>8. Export!Elements(all) = Export!Elements(kept) \union gone
    BY <2>5
  <2> HIDE DEF gone
  <2>9. /\ over' \in [points : SUBSET Nat, events : SUBSET Nat]
        /\ over'.points = over.points \union gone /\ over'.events = over.events
    BY <1>0, <2>1, <2>7 DEF ExportTyped
  <2>10. Out(flush') = <<>> /\ flush'.batch = <<>> /\ flush'.pc = "rest"
    BY <2>1 DEF Out
  <2>11. ExportTyped'
    BY <1>0, <2>1, <2>5, <2>9, <2>10, NothingIn DEF ExportTyped
  <2>12. NothingLost'
    BY <1>0, <2>1, <2>3, <2>8, <2>9 DEF NothingLost
  <2>13. LineStory(Out(flush'), points', sent'.points, made'.points)
    BY <2>1, <2>5, <2>6, <2>8, <2>10, NothingIn DEF LineStory, Under
  <2> QED BY <2>11, <2>12, <2>13 DEF ExportInv
<1>2. CASE Export!Stop
  <2>1. /\ exportPhase = "up" /\ exportPhase' = "stopping" /\ exportCut = {}
        /\ exportCut' = IF flush.pc = "points" THEN Export!Elements(flush.batch) ELSE {}
        /\ flush' = [pc |-> "rest", batch |-> <<>>, left |-> {}]
        /\ UNCHANGED <<points, events, made, sent, over>>
    BY <1>0, <1>2 DEF Export!Stop, Export!AtRest, ExportTyped
  <2>2. exportCut' = Export!Elements(Out(flush)) /\ Out(flush') = <<>> /\ flush'.batch = <<>> /\ flush'.pc = "rest"
    BY <2>1, NothingIn DEF Out
  <2>3. ExportTyped'
    BY <1>0, <2>1, <2>2, NothingIn DEF ExportTyped
  <2>4. NothingLost'
    BY <1>0, <2>1, <2>2 DEF NothingLost
  <2>5. LineStory(Out(flush'), points', sent'.points, made'.points)
    BY <1>0, <2>1, <2>2, NothingIn DEF LineStory, Under
  <2> QED BY <2>3, <2>4, <2>5 DEF ExportInv
<1>3. CASE Export!NoFlush \/ Export!BackoffEnds
  <2>1. /\ exportPhase' = "up" => exportPhase = "up"
        /\ UNCHANGED <<points, events, flush, made, sent, over, exportCut>>
    BY <1>3 DEF Export!NoFlush, Export!BackoffEnds
  <2>2. ExportTyped'
    BY <1>0, <2>1 DEF ExportTyped
  <2>3. NothingLost'
    BY <1>0, <2>1 DEF NothingLost
  <2> QED BY <1>0, <2>1, <2>2, <2>3 DEF ExportInv
<1> QED BY <1>1, <1>2, <1>3

\* The queues and the batch, at every step of the export.
LEMMA ExportAlways == Export!Spec => []ExportInv
<1>1. Export!Init => ExportInv
  <2> SUFFICES ASSUME Export!Init PROVE ExportInv
    OBVIOUS
  <2>1. /\ exportPhase = "up" /\ points = <<>> /\ events = <<>> /\ exportCut = {}
        /\ flush = [pc |-> "rest", batch |-> <<>>, left |-> {}]
        /\ made = [points |-> 0, events |-> 0]
        /\ sent = [points |-> {}, events |-> {}] /\ over = [points |-> {}, events |-> {}]
    BY DEF Export!Init, Export!AtRest
  <2>2. Out(flush) = <<>> /\ 1..0 = {}
    BY <2>1 DEF Out
  <2>3. ExportTyped
    BY <2>1, NothingIn DEF ExportTyped
  <2>4. LineStory(<<>>, <<>>, {}, 0)
    BY NothingIn DEF LineStory, Under
  <2>5. NothingLost
    BY <2>1, <2>2 DEF NothingLost
  <2> QED BY <2>1, <2>2, <2>3, <2>4, <2>5 DEF ExportInv
<1>2. ExportInv /\ [Export!Next]_Export!vars => ExportInv'
  <2> SUFFICES ASSUME ExportInv, [Export!Next]_Export!vars PROVE ExportInv'
    OBVIOUS
  <2>1. CASE UNCHANGED Export!vars
    BY <2>1 DEF Export!vars, ExportInv, ExportTyped, NothingLost
  <2> QED BY <2>1, HooksKeep, FlushKeeps, FailuresKeep DEF Export!Next
<1> QED BY <1>1, <1>2, PTL DEF Export!Spec

\* Whatever fails and whenever the queues are full, the points stay in their
\* order, each is in the queue, in the batch, posted, or lost to a full queue or
\* to stop(), and none is posted twice; no event goes but by a POST or because
\* the queue was full: flush() and the hooks of datadog.py.
THEOREM PointsKept == Export!Spec => []PointsAccounted
<1>1. ExportInv => PointsAccounted
  <2> SUFFICES ASSUME ExportInv PROVE PointsAccounted
    OBVIOUS
  <2>1. Out(flush) = IF flush.pc = "points" THEN flush.batch ELSE <<>>
    BY DEF Out
  <2>2. Export!Elements(Out(flush)) = IF flush.pc = "points" THEN Export!Elements(flush.batch) ELSE {}
    BY <2>1, NothingIn
  <2> QED BY <2>2 DEF ExportInv, NothingLost, LineStory, Rising, PointsAccounted, Export!PointsAccounted
<1> QED BY <1>1, ExportAlways, PTL

-----------------------------------------------------------------------------
(* The types of the resolver.                                              *)

\* What DnsInv leaves of them: the bounds of the requests and of the cache.  What is
\* forwarded is a question.
DnsRest ==
    /\ phase \in {"new", "unbound", "up", "stopping", "stopped", "down"}
    /\ Arrived <= MaxQueries
    /\ Cardinality(inflight) <= MaxInflight
    /\ upstream \in [Queries -> 0..Upstreams]
    /\ \A i \in Queries : upstream[i] # 0 => asked[i] \in Keys
    /\ DOMAIN cache \subseteq Keys /\ IsFiniteSet(DOMAIN cache) /\ Cardinality(DOMAIN cache) <= MaxCache
    /\ expired \subseteq DOMAIN cache
    /\ excused \subseteq Queries /\ cut \subseteq Queries

Finished(i) == inflight \ {i}

\* There are as many queries as datagrams, and as many tasks at most.
LEMMA QueriesFinite ==
    ASSUME DnsTyped
    PROVE  /\ Arrived \in Nat /\ IsFiniteSet(inflight) /\ Cardinality(inflight) \in Nat
           /\ \A i : Cardinality(Finished(i)) <= Cardinality(inflight) /\ Cardinality(Finished(i)) \in Nat
<1>1. Arrived \in Nat
  BY LenProperties DEF DnsTyped, Arrived
<1>2. IsFiniteSet(inflight)
  <2>1. IsFiniteSet(1..Arrived)
    BY <1>1, FS_Interval
  <2>2. inflight \in SUBSET (1..Arrived)
    BY DEF DnsTyped, Queries, Arrived
  <2> QED BY <2>1, <2>2, FS_Subset
<1>3. ASSUME NEW i PROVE Cardinality(Finished(i)) <= Cardinality(inflight) /\ Cardinality(Finished(i)) \in Nat
  BY <1>2, FS_Subset, FS_CardinalityType DEF Finished
<1> QED BY <1>1, <1>2, <1>3, FS_CardinalityType

\* Over its cap the cache gives way: _evict().
LEMMA EvictBounds ==
    ASSUME NEW entries, NEW stale, IsFiniteSet(DOMAIN entries), NEW S \in Evict(entries, stale)
    PROVE  S \subseteq DOMAIN entries /\ IsFiniteSet(S) /\ Cardinality(S) <= MaxCache
<1> DEFINE live == DOMAIN entries \ stale
<1>1. live \subseteq DOMAIN entries /\ MaxCache \in Nat
  BY DnsAssumption
<1>2. \/ S = DOMAIN entries /\ Cardinality(DOMAIN entries) <= MaxCache
      \/ S = live /\ Cardinality(live) <= MaxCache
      \/ S \subseteq live /\ Cardinality(S) = MaxCache
  BY DEF Evict
<1> HIDE DEF live
<1>3. S \subseteq DOMAIN entries /\ Cardinality(S) <= MaxCache
  BY <1>1, <1>2
<1> QED BY <1>3, FS_Subset

\* Steps that leave the requests as they are.
LEMMA RowsTypes ==
    ASSUME DnsInv, DnsRest, UNCHANGED requests,
           phase' \in {"new", "unbound", "up", "stopping", "stopped", "down"},
           excused' \subseteq Queries, cut' \subseteq Queries
    PROVE  DnsRest'
BY DEF DnsRest, requests, Queries, Arrived

\* A datagram gets a task where fewer than MAX_INFLIGHT run.
LEMMA DatagramTypes ==
    ASSUME DnsInv, DnsRest, NEW q \in Questions, Datagram(q)
    PROVE  DnsRest'
<1>1. /\ asked' = Append(asked, q) /\ upstream' = Append(upstream, 0) /\ Arrived < MaxQueries
      /\ inflight' = IF Cardinality(inflight) < MaxInflight THEN inflight \union {Arrived + 1} ELSE inflight
      /\ UNCHANGED <<phase, cache, expired, excused, cut>>
  BY DEF Datagram, rows
<1>2. /\ Arrived \in Nat /\ Arrived' = Arrived + 1 /\ IsFiniteSet(inflight) /\ Cardinality(inflight) \in Nat
      /\ MaxQueries \in Nat /\ MaxInflight \in Nat /\ Upstreams \in Nat
  BY <1>1, QueriesFinite, AppendProperties, DnsAssumption DEF DnsInv, DnsTyped, Arrived
<1>3. Queries' = 1..(Arrived + 1) /\ Queries \subseteq Queries'
  BY <1>2 DEF Queries, Arrived
<1>4. upstream \in Seq(0..Upstreams) /\ Len(upstream) = Arrived /\ asked \in Seq(Questions) /\ Len(asked) = Arrived
  <2>1. upstream \in [1..Arrived -> 0..Upstreams]
    BY DEF DnsRest, Queries, Arrived
  <2> QED BY <1>2, <2>1, SeqDef, LenProperties DEF DnsInv, DnsTyped, Arrived
<1>7. upstream' \in [Queries' -> 0..Upstreams]
  <2>1. upstream' \in Seq(0..Upstreams) /\ Len(upstream') = Arrived + 1
    BY <1>1, <1>2, <1>4, AppendProperties
  <2> QED BY <1>3, <2>1, LenProperties
<1>6. \A i \in Queries' : upstream'[i] # 0 => asked'[i] \in Keys
  <2>1. \A i \in Queries : upstream'[i] = upstream[i] /\ asked'[i] = asked[i]
    BY <1>1, <1>4, AppendProperties DEF Queries, Arrived
  <2>2. upstream'[Arrived + 1] = 0
    BY <1>1, <1>4, AppendProperties
  <2>3. \A i \in Queries' : i \in Queries \/ i = Arrived + 1
    BY <1>2, <1>3 DEF Queries, Arrived
  <2> QED BY <2>1, <2>2, <2>3 DEF DnsRest
<1>5. Cardinality(inflight') <= MaxInflight
  <2>1. CASE Cardinality(inflight) < MaxInflight
    <3>1. Cardinality(inflight \union {Arrived + 1}) = Cardinality(inflight) + 1
      <4>1. Arrived + 1 \notin inflight
        BY <1>2 DEF DnsInv, DnsTyped, Queries, Arrived
      <4> QED BY <1>2, <4>1, FS_AddElement
    <3> QED BY <1>1, <1>2, <2>1, <3>1
  <2>2. CASE ~(Cardinality(inflight) < MaxInflight)
    BY <1>1, <2>2 DEF DnsRest
  <2> QED BY <2>1, <2>2
<1>8. Arrived' <= MaxQueries
  BY <1>1, <1>2
<1> QED BY <1>1, <1>3, <1>5, <1>6, <1>7, <1>8 DEF DnsRest

\* handle(), with what it asks of its upstreams and keeps in the cache.
LEMMA HandleTypes ==
    ASSUME DnsInv, DnsRest, NEW i \in Queries, Lookup(i) \/ Relay(i)
    PROVE  DnsRest'
<1>0. /\ MaxInflight \in Nat /\ Upstreams \in Nat \ {0} /\ DnsTyped /\ Cardinality(inflight) \in Nat
      /\ \A j : Cardinality(Finished(j)) <= Cardinality(inflight) /\ Cardinality(Finished(j)) \in Nat
  BY QueriesFinite, DnsAssumption DEF DnsInv
<1>1. ASSUME asked' = asked PROVE Queries' = Queries /\ Arrived' = Arrived
  BY <1>1 DEF Queries, Arrived
<1>2. ASSUME Finish(i) PROVE Cardinality(inflight') <= MaxInflight
  <2>1. inflight' = Finished(i)
    BY <1>2 DEF Finish, Finished
  <2> QED BY <1>0, <2>1 DEF DnsRest
<1>3. ASSUME Record(i) PROVE excused' \subseteq Queries /\ cut' = cut
  BY <1>3 DEF Record, GiveUp, DnsRest
<1>4. CASE Ignore(i)
  BY <1>1, <1>2, <1>4 DEF Ignore, rows, DnsRest
<1>5. CASE FromCache(i) \/ Fail(i)
  BY <1>1, <1>2, <1>3, <1>5 DEF FromCache, Fail, DnsRest
<1>6. CASE Forward(i) \/ NextUpstream(i)
  <2>1. UNCHANGED <<phase, asked, inflight, cache, expired, rows>>
    BY <1>6 DEF Forward, NextUpstream
  <2>2. /\ upstream' \in [Queries -> 0..Upstreams] /\ asked[i] \in Keys
        /\ \A j \in Queries \ {i} : upstream'[j] = upstream[j]
    BY <1>0, <1>6 DEF Forward, NextUpstream, Waits, DnsRest
  <2> QED BY <1>1, <2>1, <2>2 DEF DnsRest, rows
<1>7. ASSUME NEW r \in Responses, Answer(i, r) PROVE DnsRest'
  <2> DEFINE k == CacheKey(asked[i])
             entries == [j \in DOMAIN cache \union {k} |-> IF j = k THEN i ELSE cache[j]]
  <2>1. Waits(i) /\ Finish(i) /\ Record(i) /\ UNCHANGED <<phase, asked, upstream>>
    BY <1>7 DEF Answer
  <2>2. DOMAIN cache' \subseteq Keys /\ IsFiniteSet(DOMAIN cache') /\ Cardinality(DOMAIN cache') <= MaxCache
        /\ expired' \subseteq DOMAIN cache'
    <3>1. CASE UNCHANGED <<cache, expired>>
      BY <3>1 DEF DnsRest
    <3>2. CASE \E S \in Evict(entries, expired \ {k}) :
                  cache' = [j \in S |-> entries[j]] /\ expired' = (expired \ {k}) \intersect S
      <4>1. PICK S \in Evict(entries, expired \ {k}) :
                  cache' = [j \in S |-> entries[j]] /\ expired' = (expired \ {k}) \intersect S
        BY <3>2
      <4>2. DOMAIN entries = DOMAIN cache \union {k} /\ k \in Keys
        BY <2>1 DEF CacheKey, Waits, DnsRest
      <4>3. IsFiniteSet(DOMAIN entries)
        BY <4>2, FS_AddElement DEF DnsRest
      <4> HIDE DEF entries
      <4>4. S \subseteq DOMAIN entries /\ IsFiniteSet(S) /\ Cardinality(S) <= MaxCache
        BY <4>3, EvictBounds
      <4>5. DOMAIN cache' = S
        BY <4>1
      <4> QED BY <4>1, <4>2, <4>4, <4>5 DEF DnsRest
    <3> QED BY <1>7, <3>1, <3>2 DEF Answer
  <2> QED BY <1>1, <1>2, <1>3, <2>1, <2>2 DEF DnsRest
<1> QED BY <1>4, <1>5, <1>6, <1>7 DEF Lookup, Relay

\* The writer, the pruner, and the end: what they give up are rows.
LEMMA WriterTypes ==
    ASSUME DnsInv, DnsRest,
           \/ Swap \/ InsertRows \/ InsertCounts \/ CommitBatch \/ BatchFails \/ OtherCommit \/ Prune
           \/ Stop \/ Stopped \/ Closed \/ Crash
    PROVE  DnsRest'
<1>0. /\ phase \in {"new", "unbound", "up", "stopping", "stopped", "down"}
      /\ excused \subseteq Queries /\ cut \subseteq Queries
      /\ pending \subseteq Queries /\ writer.batch \subseteq Queries
      /\ db.queries \subseteq Queries
  BY DEF DnsInv, DnsTyped, DnsRest
<1>1. CASE Swap \/ InsertRows \/ InsertCounts \/ CommitBatch \/ OtherCommit
  <2>1. UNCHANGED <<phase, requests, excused, cut>>
    BY <1>1 DEF Swap, InsertRows, InsertCounts, CommitBatch, OtherCommit
  <2> QED BY <1>0, <2>1, RowsTypes
<1>2. CASE BatchFails \/ Prune
  <2>1. UNCHANGED <<phase, requests>> /\ excused' \subseteq Queries /\ cut' \subseteq Queries
    BY <1>0, <1>2 DEF BatchFails, Prune, GiveUp, UpTo
  <2> QED BY <1>0, <2>1, RowsTypes
<1>3. CASE Stop \/ Stopped
  <2>1. UNCHANGED requests /\ phase' \in {"stopping", "stopped"} /\ excused' = excused
    BY <1>3 DEF Stop, Stopped, rows
  <2>2. cut' \subseteq Queries
    BY <1>0, <1>3 DEF Stop, Stopped, rows
  <2> QED BY <1>0, <2>1, <2>2, RowsTypes
<1>4. CASE Closed \/ Crash
  <2>1. /\ phase' = "down" /\ inflight' = {} /\ cache' = <<>> /\ expired' = {} /\ UNCHANGED <<asked, upstream>>
    BY <1>4 DEF Closed, Crash
  <2>2. excused' \subseteq Queries /\ cut' \subseteq Queries
    BY <1>0, <1>4 DEF Closed, Crash, GiveUp
  <2>3. IsFiniteSet({}) /\ Cardinality({}) = 0 /\ DOMAIN <<>> = {}
    BY FS_EmptySet, EmptySeq
  <2>4. MaxCache \in Nat /\ MaxInflight \in Nat /\ Queries' = Queries /\ Arrived' = Arrived
    BY <2>1, DnsAssumption DEF Queries, Arrived
  <2> QED BY <2>1, <2>2, <2>3, <2>4 DEF DnsRest
<1> QED BY <1>1, <1>2, <1>3, <1>4

\* The types of the resolver; no more than MAX_INFLIGHT queries have a task, and
\* the cache is back under MAX_CACHE whenever an entry has come: datagram_received()
\* and _cache_put() of dns_resolver.py.
THEOREM DnsTypes == Spec => []DnsTypeOK
<1>1. Init => DnsRest
  <2> SUFFICES ASSUME Init PROVE DnsRest
    OBVIOUS
  <2>0. /\ phase = "new" /\ asked = <<>> /\ inflight = {} /\ upstream = <<>>
        /\ cache = <<>> /\ expired = {} /\ excused = {} /\ cut = {}
    BY DEF Init
  <2>1. IsFiniteSet({}) /\ Cardinality({}) = 0 /\ DOMAIN <<>> = {} /\ Len(<<>>) = 0
    BY FS_EmptySet, EmptySeq
  <2>2. Queries = {} /\ Arrived = 0
    <3>1. Queries = 1..0
      BY <2>0, <2>1 DEF Queries, Arrived
    <3> QED BY <2>0, <2>1, <3>1 DEF Arrived
  <2>3. upstream \in [Queries -> 0..Upstreams]
    BY <2>0, <2>2
  <2>4. MaxCache \in Nat /\ MaxInflight \in Nat /\ MaxQueries \in Nat
    BY DnsAssumption
  <2> QED BY <2>0, <2>1, <2>2, <2>3, <2>4 DEF DnsRest
<1>2. DnsInv /\ DnsRest /\ [Next]_vars => DnsRest'
  <2> SUFFICES ASSUME DnsInv, DnsRest, [Next]_vars PROVE DnsRest'
    OBVIOUS
  <2>1. CASE Start \/ UNCHANGED vars
    <3>1. UNCHANGED <<requests, rows>> /\ phase' \in {"up", "unbound", phase}
      BY <2>1 DEF Start, Bind, vars, requests, rows
    <3>2. /\ phase \in {"new", "unbound", "up", "stopping", "stopped", "down"}
          /\ excused' \subseteq Queries /\ cut' \subseteq Queries
      BY <3>1 DEF DnsRest, rows
    <3> QED BY <3>1, <3>2, RowsTypes
  <2>2. ASSUME NEW k \in DOMAIN cache \ expired, Expire(k) PROVE DnsRest'
    <3>1. UNCHANGED <<phase, asked, inflight, upstream, cache, excused, cut>> /\ expired' = expired \union {k}
      BY <2>2 DEF Expire, rows
    <3> QED BY <3>1 DEF DnsRest, Queries, Arrived
  <2> QED BY <2>1, <2>2, DatagramTypes, HandleTypes, WriterTypes DEF Next
<1>3. DnsInv /\ DnsRest => DnsTypeOK
  BY DEF DnsInv, DnsTyped, TasksUnanswered, DnsRest, DnsTypeOK
<1> QED BY <1>1, <1>2, <1>3, DnsAlways, PTL DEF Spec

-----------------------------------------------------------------------------
(* The types of the network watch.                                         *)

\* What WatchInv and LightInv leave of them.
WatchRest ==
    /\ watchPhase \in {"up", "stopped"} /\ error \in BOOLEAN /\ adrift \in BOOLEAN
    /\ savedAlerts \subseteq Watch!Alerts /\ orphan \subseteq Watch!Alerts /\ missed \subseteq Watch!Alerts
    /\ Len(task) <= MaxHits
    /\ \A i \in Watch!Ids : task[i].alert \in Watch!Alerts

\* An alert that is open is one: it is held, or was lost.
LEMMA AlertsOnly == WatchInv /\ WatchRest => active \subseteq Watch!Alerts /\ alerts \subseteq Watch!Alerts
BY DEF WatchInv, WatchRest, AlertsFollowActivity, Watch!AlertsFollowActivity

\* The coroutines that are over keep an alert, where there is any.
LEMMA OverAlert == Watch!Alerts # {} => Watch!Over.alert \in Watch!Alerts
BY DEF Watch!Over

LEMMA LightTypes ==
    ASSUME WatchRest, Watch!LightForHit \/ UNCHANGED <<lightOn, error, call>> \/ \E on \in BOOLEAN : Watch!SetLight(on)
    PROVE  error' \in BOOLEAN
BY DEF Watch!LightForHit, Watch!SetLight, WatchRest

\* Steps that leave the coroutines alone.
LEMMA CalmTypes ==
    ASSUME WatchInv, WatchRest, UNCHANGED task,
           watchPhase' \in {"up", "stopped"}, error' \in BOOLEAN, adrift' \in BOOLEAN,
           savedAlerts' \subseteq Watch!Alerts, orphan' \subseteq Watch!Alerts, missed' \subseteq Watch!Alerts
    PROVE  WatchRest'
BY DEF WatchRest, Watch!Ids

\* One coroutine more, or one that goes on.
LEMMA TaskTypes ==
    ASSUME WatchInv, WatchRest, UNCHANGED <<watchPhase, adrift, savedAlerts>>, error' \in BOOLEAN,
           orphan' \subseteq orphan, missed' \subseteq Watch!Alerts, NEW t \in Tasks, t.alert \in Watch!Alerts,
           \/ task' = Append(task, t) /\ Len(task) < MaxHits
           \/ \E i \in Watch!Ids : task' = [task EXCEPT ![i] = t]
    PROVE  WatchRest'
<1>0. WatchTyped /\ task \in Seq(Tasks) /\ Len(task) \in Nat /\ MaxHits \in Nat
  BY LenProperties, HostAssumption DEF WatchInv, WatchTyped
<1>1. CASE task' = Append(task, t) /\ Len(task) < MaxHits
  <2>1. /\ Watch!Ids' = Watch!Ids \union {Len(task) + 1} /\ task'[Len(task) + 1] = t
        /\ \A i \in Watch!Ids : task'[i] = task[i]
    BY <1>0, <1>1, TaskAdded
  <2>2. Len(task') = Len(task) + 1
    BY <1>0, <1>1, AppendProperties
  <2>3. Len(task') <= MaxHits
    BY <1>0, <1>1, <2>2
  <2>4. ASSUME NEW i \in Watch!Ids' PROVE task'[i].alert \in Watch!Alerts
    BY <2>1 DEF WatchRest
  <2> QED BY <2>3, <2>4 DEF WatchRest
<1>2. ASSUME NEW i \in Watch!Ids, task' = [task EXCEPT ![i] = t] PROVE WatchRest'
  <2>1. Watch!Ids' = Watch!Ids /\ task'[i] = t /\ \A j \in Watch!Ids : j # i => task'[j] = task[j]
    BY <1>0, <1>2, TaskChanged
  <2>2. Len(task') = Len(task)
    BY <1>0, <1>2, ExceptSeq DEF Watch!Ids
  <2> QED BY <2>1, <2>2 DEF WatchRest
<1> QED BY <1>1, <1>2

LEMMA ArrivalTypes ==
    ASSUME WatchInv, WatchRest, NEW ip \in Ips, Watch!Hit(ip) \/ Watch!NewDevice(ip)
    PROVE  WatchRest'
<1>0. WatchTyped /\ missed \subseteq Watch!Alerts
  BY DEF WatchInv, WatchRest
<1>1. CASE Watch!Hit(ip)
  <2> DEFINE a == <<"watch", ip>>
             t == [alert |-> a, pc |-> "label", fresh |-> a \notin active, found |-> FALSE]
  <2>1. a \in Watch!Alerts
    BY DEF Watch!Alerts
  <2>2. t \in Tasks /\ t.alert = a
    BY <2>1 DEF Tasks
  <2>3. /\ orphan' = orphan \ {a} /\ UNCHANGED <<watchPhase, adrift, savedAlerts, missed>> /\ Len(task) < MaxHits
        /\ \/ task' = Append(task, t) /\ UNCHANGED <<lightOn, error, call>>
           \/ t.fresh /\ task' = Append(task, Watch!Asked(t)) /\ UNCHANGED <<lightOn, error, call>>
           \/ ~t.fresh /\ task' = Append(task, Watch!Over) /\ Watch!LightForHit
    BY <1>1 DEF Watch!Hit, Watch!board
  <2> HIDE DEF a, t
  <2>4. Watch!Asked(t) \in Tasks /\ Watch!Asked(t).alert = a /\ Watch!Over \in Tasks /\ Watch!Over.alert \in Watch!Alerts
    BY <1>0, <2>1, <2>2, TaskFields, OverAlert
  <2>5. error' \in BOOLEAN
    BY <2>3, LightTypes
  <2>6. PICK u \in Tasks : u.alert \in Watch!Alerts /\ task' = Append(task, u)
    BY <2>1, <2>2, <2>3, <2>4
  <2> QED BY <1>0, <2>3, <2>5, <2>6, TaskTypes
<1>2. CASE Watch!NewDevice(ip)
  <2> DEFINE a == <<"new", ip>>
             t == [alert |-> a, pc |-> "label", fresh |-> TRUE, found |-> FALSE]
             u == Watch!Asked(t)
  <2>1. a \in Watch!Alerts
    BY DEF Watch!Alerts
  <2>2. t \in Tasks /\ t.alert = a
    BY <2>1 DEF Tasks
  <2>3. /\ orphan' = orphan \ {a} /\ UNCHANGED <<watchPhase, error, adrift, savedAlerts, missed>>
        /\ Len(task) < MaxHits /\ task' = Append(task, u)
    BY <1>2 DEF Watch!NewDevice, Watch!light, Watch!board
  <2> HIDE DEF a, t
  <2>4. u \in Tasks /\ u.alert = a /\ error' \in BOOLEAN
    BY <1>0, <2>2, <2>3, TaskFields DEF WatchRest
  <2> HIDE DEF u
  <2> QED BY <1>0, <2>1, <2>3, <2>4, TaskTypes
<1> QED BY <1>1, <1>2

LEMMA CoroutineTypes ==
    ASSUME WatchInv, WatchRest, NEW i \in Watch!Ids,
           Watch!Labelled(i) \/ Watch!Insert(i) \/ Watch!InsertFails(i) \/ Watch!Raised(i)
    PROVE  WatchRest'
<1> DEFINE t == task[i]
           inserted == [t EXCEPT !.pc = "inserted"]
<1>0. WatchTyped /\ missed \subseteq Watch!Alerts /\ t \in Tasks /\ t.alert \in Watch!Alerts
  BY TaskFields DEF WatchInv, WatchRest
<1>1. /\ Watch!Asked(t) \in Tasks /\ Watch!Asked(t).alert = t.alert
      /\ inserted \in Tasks /\ inserted.alert = t.alert
      /\ Watch!Over \in Tasks /\ Watch!Over.alert \in Watch!Alerts
  BY <1>0, TaskFields, OverAlert
<1>2. /\ UNCHANGED <<watchPhase, adrift, savedAlerts, orphan>> /\ missed' \subseteq missed \union {t.alert}
      /\ Watch!LightForHit \/ UNCHANGED <<lightOn, error, call>>
  BY DEF Watch!Labelled, Watch!Insert, Watch!InsertFails, Watch!Raised, Watch!light, Watch!board, Watch!store
<1>3. \/ task' = [task EXCEPT ![i] = Watch!Asked(t)] \/ task' = [task EXCEPT ![i] = Watch!Over]
      \/ task' = [task EXCEPT ![i] = inserted]
  BY DEF Watch!Labelled, Watch!Insert, Watch!InsertFails, Watch!Raised
<1> HIDE DEF t, inserted
<1>4. PICK u \in Tasks : u.alert \in Watch!Alerts /\ task' = [task EXCEPT ![i] = u]
  BY <1>0, <1>1, <1>3
<1>5. error' \in BOOLEAN
  BY <1>2, LightTypes
<1>6. missed' \subseteq Watch!Alerts /\ orphan' \subseteq orphan
  BY <1>0, <1>2
<1> QED BY <1>2, <1>4, <1>5, <1>6, TaskTypes

\* The types of the network watch.
THEOREM WatchTypes == Watch!Spec => []Watch!WatchTypeOK
<1>1. Watch!Init => WatchRest
  <2> SUFFICES ASSUME Watch!Init PROVE WatchRest
    OBVIOUS
  <2>1. /\ watchPhase = "up" /\ task = <<>> /\ error = FALSE /\ adrift = FALSE
        /\ savedAlerts = {} /\ orphan = {} /\ missed = {}
    BY DEF Watch!Init
  <2>2. Len(task) = 0 /\ Watch!Ids = {}
    BY <2>1, EmptySeq DEF Watch!Ids
  <2>3. Len(task) <= MaxHits
    BY <2>2, HostAssumption
  <2>4. \A i \in Watch!Ids : task[i].alert \in Watch!Alerts
    BY <2>2
  <2>5. watchPhase \in {"up", "stopped"} /\ error \in BOOLEAN /\ adrift \in BOOLEAN
    BY <2>1
  <2> QED BY <2>1, <2>3, <2>4, <2>5 DEF WatchRest
<1>2. WatchInv /\ WatchRest /\ [Watch!Next]_Watch!vars => WatchRest'
  <2> SUFFICES ASSUME WatchInv, WatchRest, [Watch!Next]_Watch!vars PROVE WatchRest'
    OBVIOUS
  <2>0. /\ watchPhase \in {"up", "stopped"} /\ error \in BOOLEAN /\ adrift \in BOOLEAN
        /\ savedAlerts \subseteq Watch!Alerts /\ orphan \subseteq Watch!Alerts /\ missed \subseteq Watch!Alerts
        /\ alerts \subseteq Watch!Alerts
    BY AlertsOnly DEF WatchRest
  <2>1. CASE \/ \E a \in active \ quiet : Watch!HoldEnds(a)
             \/ Watch!LightHoldEnds \/ Watch!Wake \/ Watch!LoopGoesOn \/ Watch!OtherCommit \/ UNCHANGED Watch!vars
    <3>1. UNCHANGED <<task, watchPhase, error, adrift, orphan, missed>> /\ savedAlerts' \subseteq Watch!Alerts
      BY <2>0, <2>1 DEF Watch!HoldEnds, Watch!LightHoldEnds, Watch!Wake, Watch!LoopGoesOn, Watch!OtherCommit,
         Watch!vars, Watch!light, Watch!board, Watch!store
    <3> QED BY <2>0, <3>1, CalmTypes
  <2>2. ASSUME NEW a \in Watch!Alerts, Watch!ClearOne(a) \/ Watch!ClearFails(a) PROVE WatchRest'
    <3>1. UNCHANGED <<task, watchPhase, error, adrift, savedAlerts>> /\ orphan' \subseteq Watch!Alerts /\ missed' \subseteq missed
      BY <2>0, <2>2 DEF Watch!ClearOne, Watch!ClearFails, Watch!light, Watch!board
    <3> QED BY <2>0, <3>1, CalmTypes
  <2>3. CASE Watch!LightOff \/ Watch!Stop
    <3>1. /\ UNCHANGED <<task, adrift, savedAlerts, orphan, missed>> /\ watchPhase' \in {watchPhase, "stopped"}
          /\ UNCHANGED <<lightOn, error, call>> \/ \E on \in BOOLEAN : Watch!SetLight(on)
      BY <2>3 DEF Watch!LightOff, Watch!Stop, Watch!board, Watch!store
    <3> QED BY <2>0, <3>1, LightTypes, CalmTypes
  <2>4. CASE Watch!Restart
    <3>1. /\ task' = [i \in Watch!Ids |-> Watch!Over] /\ watchPhase' = "up" /\ error' = FALSE /\ adrift' = TRUE
          /\ orphan' = savedAlerts /\ savedAlerts' = savedAlerts /\ missed' = {}
      BY <2>4 DEF Watch!Restart
    <3>2. task \in Seq(Tasks) /\ Len(task) \in Nat
      BY LenProperties DEF WatchInv, WatchTyped
    <3>3. Watch!Over \in Tasks
      BY TaskFields DEF WatchInv
    <3>4. task' \in Seq(Tasks) /\ Len(task') = Len(task)
      <4>1. task' \in [1..Len(task) -> Tasks]
        BY <3>1, <3>3 DEF Watch!Ids
      <4> QED BY <3>2, <4>1, SeqDef, LenProperties
    <3>5. \A i \in Watch!Ids' : task'[i].alert \in Watch!Alerts
      <4> SUFFICES ASSUME NEW i \in Watch!Ids PROVE Watch!Over.alert \in Watch!Alerts
        BY <3>1, <3>4 DEF Watch!Ids
      <4> QED BY OverAlert DEF WatchRest
    <3> QED BY <2>0, <3>1, <3>4, <3>5 DEF WatchRest
  <2>5. ASSUME NEW n \in Watch!Calls, \/ Watch!BoardSets(n) \/ Watch!BoardMisses(n) \/ Watch!CallAnswered(n) \/ Watch!CallTimesOut(n)
        PROVE  WatchRest'
    <3>1. /\ UNCHANGED <<task, watchPhase, savedAlerts, orphan, missed>>
          /\ error' \in {error, TRUE, FALSE} /\ adrift' \in {adrift, FALSE}
      BY <2>5 DEF Watch!BoardSets, Watch!BoardMisses, Watch!CallAnswered, Watch!CallTimesOut, Watch!board, Watch!store
    <3>2. error' \in BOOLEAN /\ adrift' \in BOOLEAN
      BY <2>0, <3>1
    <3> QED BY <2>0, <3>1, <3>2, CalmTypes
  <2> QED BY <2>1, <2>2, <2>3, <2>4, <2>5, ArrivalTypes, CoroutineTypes DEF Watch!Next
<1>3. WatchInv /\ LightInv /\ WatchRest => Watch!WatchTypeOK
  <2> SUFFICES ASSUME WatchInv, LightInv, WatchRest PROVE Watch!WatchTypeOK
    OBVIOUS
  <2> DEFINE T == [alert : Watch!Alerts, pc : {"label", "selected", "inserted", "done"}, fresh : BOOLEAN, found : BOOLEAN]
  <2>1. task \in Seq(T)
    <3>1. task \in Seq(Tasks) /\ Len(task) \in Nat
      BY LenProperties DEF WatchInv, WatchTyped
    <3>2. ASSUME NEW i \in 1..Len(task) PROVE task[i] \in T
      <4>1. task[i] \in Tasks /\ task[i].alert \in Watch!Alerts
        BY <3>1, ElementOfSeq DEF WatchRest, Watch!Ids
      <4> QED BY <4>1 DEF Tasks
    <3> HIDE DEF T
    <3>3. task \in [1..Len(task) -> T]
      BY <3>1, <3>2, LenProperties
    <3> QED BY <3>1, <3>3, SeqDef
  <2>2. alerts \subseteq Watch!Alerts
    BY AlertsOnly
  <2> QED BY <2>1, <2>2 DEF WatchInv, WatchTyped, LightInv, SetCall, WatchRest, Watch!WatchTypeOK
<1> QED BY <1>1, <1>2, <1>3, WatchAlways, LightAlways, PTL DEF Watch!Spec

-----------------------------------------------------------------------------
(* The types of the export.                                                *)

FlushTyped(f) == f.pc \in {"rest", "points", "events", "checks"} /\ f.left \subseteq Boards /\ Len(f.batch) <= PerPost

\* What ExportInv leaves of them: the limits of the queues, and the numbers of
\* the events and of what has gone.
ExportLimits ==
    /\ exportPhase \in {"up", "stopping", "stopped"} /\ backoff \in BOOLEAN
    /\ checks \subseteq Boards /\ last \in [Boards -> {"none", "online", "offline"}]
    /\ Len(points) <= MaxQueue /\ Len(events) <= MaxEvents /\ FlushTyped(flush)
    /\ made.points <= MaxPoints /\ made.events <= MaxNews

EventNumbers ==
    /\ Export!Elements(events) \subseteq 1..made.events
    /\ flush.pc = "events" => Export!Elements(flush.batch) \subseteq 1..made.events
    /\ sent.events \subseteq 1..made.events /\ over.events \subseteq 1..made.events

PointNumbers == over.points \subseteq 1..made.points /\ exportCut \subseteq 1..made.points

ExportRest == ExportLimits /\ EventNumbers /\ PointNumbers

\* A full deque stays within its limit.
LEMMA ExtendedFits ==
    ASSUME NEW q \in Seq(Nat), NEW new \in Seq(Nat), NEW limit \in Nat
    PROVE  Len(Export!Extend(q, new, limit)) <= limit
<1> DEFINE all == q \o new
           k == IF Len(all) > limit THEN Len(all) - limit ELSE 0
<1>1. all \in Seq(Nat)
  BY Joined
<1>2. Len(all) \in Nat /\ \A i \in 1..Len(all) : all[i] \in Nat
  BY <1>1, LenProperties, ElementOfSeq
<1>3. Export!Extend(q, new, limit) = SubSeq(all, 1 + k, Len(all))
  BY DEF Export!Extend
<1> HIDE DEF all
<1>4. k \in 0..Len(all) /\ Len(all) - k <= limit /\ (Len(all) <= limit => k = 0)
  BY <1>2
<1> HIDE DEF k
<1>5. Len(SubSeq(all, 1 + k, Len(all))) = IF 1 + k <= Len(all) THEN Len(all) - (1 + k) + 1 ELSE 0
  <2>1. \A i \in (1 + k)..Len(all) : all[i] \in Nat
    BY <1>2, <1>4
  <2> QED BY <1>2, <1>4, <2>1, SubSeqProperties
<1> QED BY <1>2, <1>3, <1>4, <1>5

\* What a loop of flush() leaves for the next: the checks, the events, the points.
LEMMA ChecksTypes ==
    ASSUME NEW left \in SUBSET Boards, NEW all \in SUBSET Boards, Export!NextChecks(left, all)
    PROVE  /\ FlushTyped(flush') /\ flush'.pc \in {"rest", "checks"} /\ checks' \subseteq Boards
           /\ exportPhase' \in {exportPhase, "stopped"}
<1>0. PerPost \in Nat
  BY HostAssumption
<1>1. CASE left # {}
  <2>1. PICK S \in SUBSET left : flush' = [pc |-> "checks", batch |-> <<>>, left |-> left \ S] /\ checks' = all
                                /\ exportPhase' = exportPhase
    BY <1>1 DEF Export!NextChecks
  <2> QED BY <1>0, <2>1, NothingIn DEF FlushTyped
<1>2. CASE left = {}
  <2>1. flush' = [pc |-> "rest", batch |-> <<>>, left |-> {}] /\ checks' = {} /\ exportPhase' \in {exportPhase, "stopped"}
    BY <1>2 DEF Export!NextChecks, Export!FlushOver, Export!AtRest
  <2> QED BY <1>0, <2>1, NothingIn DEF FlushTyped
<1> QED BY <1>1, <1>2

LEMMA EventTypes ==
    ASSUME NEW q \in Seq(Nat), NEW all \in SUBSET Boards, Export!NextEvent(q, all)
    PROVE  /\ events' = q /\ FlushTyped(flush') /\ checks' \subseteq Boards
           /\ exportPhase' \in {exportPhase, "stopped"}
           /\ flush'.pc # "points"
           /\ flush'.pc = "events" => Export!Elements(flush'.batch) \subseteq Export!Elements(q)
<1>1. CASE q # <<>>
  <2>1. /\ flush' = [pc |-> "events", batch |-> <<Head(q)>>, left |-> {}] /\ events' = q /\ checks' = all
        /\ exportPhase' = exportPhase
    BY <1>1 DEF Export!NextEvent
  <2>2. Head(q) = q[1] /\ 1 \in DOMAIN q
    BY <1>1, HeadTailProperties, EmptySeq, LenProperties
  <2>3. Export!Elements(<<Head(q)>>) \subseteq Export!Elements(q)
    BY <2>2 DEF Export!Elements
  <2>4. FlushTyped(flush')
    <3>1. Len(<<Head(q)>>) = 1 /\ PerPost \in Nat \ {0}
      BY HostAssumption
    <3> QED BY <2>1, <3>1 DEF FlushTyped
  <2> QED BY <2>1, <2>3, <2>4
<1>2. CASE q = <<>>
  <2>1. events' = q /\ Export!NextChecks(all, all)
    BY <1>2 DEF Export!NextEvent
  <2> QED BY <2>1, ChecksTypes
<1> QED BY <1>1, <1>2

LEMMA BatchTypes ==
    ASSUME NEW q \in Seq(Nat), events \in Seq(Nat), NEW all \in SUBSET Boards, Export!NextBatch(q, all)
    PROVE  /\ events' = events /\ FlushTyped(flush') /\ checks' \subseteq Boards
           /\ exportPhase' \in {exportPhase, "stopped"}
           /\ Len(points') <= Len(q)
           /\ flush'.pc = "events" => Export!Elements(flush'.batch) \subseteq Export!Elements(events)
<1>0. Len(q) \in Nat /\ PerPost \in Nat \ {0} /\ \A i \in 1..Len(q) : q[i] \in Nat
  BY HostAssumption, LenProperties, ElementOfSeq
<1>1. CASE q # <<>>
  <2> DEFINE k == Export!Least(Len(q))
  <2>1. k \in 0..Len(q) /\ k <= PerPost
    BY <1>0 DEF Export!Least
  <2>2. /\ flush' = [pc |-> "points", batch |-> SubSeq(q, 1, k), left |-> {}] /\ points' = SubSeq(q, k + 1, Len(q))
        /\ events' = events /\ exportPhase' = exportPhase /\ checks' = all
    BY <1>1 DEF Export!NextBatch
  <2> HIDE DEF k
  <2>3. Len(SubSeq(q, 1, k)) = k
    <3>1. \A i \in 1..k : q[i] \in Nat
      BY <1>0, <2>1
    <3> QED BY <1>0, <2>1, <3>1, SubSeqProperties
  <2>4. Len(SubSeq(q, k + 1, Len(q))) = IF k + 1 <= Len(q) THEN Len(q) - (k + 1) + 1 ELSE 0
    <3>1. \A i \in (k + 1)..Len(q) : q[i] \in Nat
      BY <1>0, <2>1
    <3> QED BY <1>0, <2>1, <3>1, SubSeqProperties
  <2>5. FlushTyped(flush')
    BY <2>1, <2>2, <2>3 DEF FlushTyped
  <2>6. Len(points') <= Len(q)
    BY <1>0, <2>1, <2>2, <2>4
  <2> QED BY <2>2, <2>5, <2>6
<1>2. CASE q = <<>>
  <2>1. points' = q /\ Export!NextEvent(events, all)
    BY <1>2 DEF Export!NextBatch
  <2> QED BY <1>0, <2>1, EventTypes
<1> QED BY <1>1, <1>2

LEMMA HooksTypes ==
    ASSUME ExportInv, ExportRest,
           \/ Export!OnTelemetry
           \/ Export!OnAlert
           \/ \E b \in Boards, state \in {"online", "offline"} : Export!OnState(b, state)
    PROVE  ExportRest'
<1>0. ExportTyped /\ ExportLimits /\ EventNumbers /\ PointNumbers /\ Export!Elements(points) \subseteq 1..made.points
  BY DEF ExportInv, ExportRest, LineStory
<1>1. CASE Export!OnTelemetry
  <2> DEFINE n == made.points + 1
             pushed == Export!Pushed(points, <<n>>, MaxQueue)
  <2>1. /\ points' = Export!Extend(points, <<n>>, MaxQueue) /\ n <= MaxPoints
        /\ over' = [over EXCEPT !.points = @ \union pushed]
        /\ made' = [made EXCEPT !.points = n]
        /\ UNCHANGED <<exportPhase, events, checks, last, backoff, flush, sent, exportCut>>
    BY <1>1 DEF Export!OnTelemetry
  <2>2. n \in Nat /\ made.points \in Nat /\ points \in Seq(Nat) /\ MaxQueue \in Nat /\ 1..n = (1..made.points) \union {n}
    BY <1>0, HostAssumption DEF ExportTyped
  <2>3. <<n>> \in Seq(Nat) /\ Export!Elements(<<n>>) = {n}
    <3>1. <<n>> \in Seq(Nat) /\ DOMAIN <<n>> = {1} /\ <<n>>[1] = n
      BY <2>2
    <3> QED BY <3>1 DEF Export!Elements
  <2>4. Len(points') <= MaxQueue /\ pushed \subseteq Export!Elements(points) \union {n}
    <3> HIDE DEF n
    <3> QED BY <2>1, <2>2, <2>3, Extended, ExtendedFits
  <2> HIDE DEF n, pushed
  <2>5. /\ made'.points = n /\ made'.events = made.events
        /\ over'.points = over.points \union pushed /\ over'.events = over.events
    BY <1>0, <2>1 DEF ExportTyped
  <2>6. ExportLimits'
    BY <1>0, <2>1, <2>4, <2>5 DEF ExportLimits
  <2>7. EventNumbers'
    BY <1>0, <2>1, <2>5 DEF EventNumbers
  <2>8. PointNumbers'
    BY <1>0, <2>1, <2>2, <2>4, <2>5 DEF PointNumbers
  <2> QED BY <2>6, <2>7, <2>8 DEF ExportRest
<1>2. ASSUME Export!NewEvent, last' \in [Boards -> {"none", "online", "offline"}] PROVE ExportRest'
  <2> DEFINE n == made.events + 1
             pushed == Export!Pushed(events, <<n>>, MaxEvents)
  <2>1. /\ events' = Export!Extend(events, <<n>>, MaxEvents) /\ n <= MaxNews
        /\ over' = [over EXCEPT !.events = @ \union pushed]
        /\ made' = [made EXCEPT !.events = n]
        /\ UNCHANGED <<exportPhase, points, checks, backoff, flush, sent, exportCut>>
    BY <1>2 DEF Export!NewEvent
  <2>2. n \in Nat /\ made.events \in Nat /\ events \in Seq(Nat) /\ MaxEvents \in Nat /\ 1..n = (1..made.events) \union {n}
    BY <1>0, HostAssumption DEF ExportTyped
  <2>3. <<n>> \in Seq(Nat) /\ Export!Elements(<<n>>) = {n}
    <3>1. <<n>> \in Seq(Nat) /\ DOMAIN <<n>> = {1} /\ <<n>>[1] = n
      BY <2>2
    <3> QED BY <3>1 DEF Export!Elements
  <2>4. /\ Len(events') <= MaxEvents /\ pushed \subseteq Export!Elements(events) \union {n}
        /\ Export!Elements(events') \subseteq Export!Elements(events) \union {n}
    <3> HIDE DEF n
    <3> QED BY <2>1, <2>2, <2>3, Extended, ExtendedFits
  <2> HIDE DEF n, pushed
  <2>5. /\ made'.points = made.points /\ made'.events = n
        /\ over'.points = over.points /\ over'.events = over.events \union pushed
    BY <1>0, <2>1 DEF ExportTyped
  <2>6. ExportLimits'
    BY <1>0, <1>2, <2>1, <2>4, <2>5 DEF ExportLimits
  <2>7. EventNumbers'
    BY <1>0, <2>1, <2>2, <2>4, <2>5 DEF EventNumbers
  <2>8. PointNumbers'
    BY <1>0, <2>1, <2>5 DEF PointNumbers
  <2> QED BY <2>6, <2>7, <2>8 DEF ExportRest
<1>3. CASE Export!OnAlert
  BY <1>0, <1>2, <1>3 DEF Export!OnAlert, ExportLimits
<1>4. ASSUME NEW b \in Boards, NEW state \in {"online", "offline"}, Export!OnState(b, state) PROVE ExportRest'
  BY <1>0, <1>2, <1>4 DEF Export!OnState, ExportLimits
<1> QED BY <1>1, <1>3, <1>4

LEMMA FlushTypes ==
    ASSUME ExportInv, ExportRest, Export!Flush \/ Export!PointsPosted \/ Export!EventPosted \/ Export!ChecksPosted
    PROVE  ExportRest'
<1>0. /\ ExportTyped /\ ExportLimits /\ EventNumbers /\ PointNumbers
      /\ Export!Elements(points) \subseteq 1..made.points
      /\ checks \in SUBSET Boards /\ flush.left \in SUBSET Boards
  BY DEF ExportInv, ExportRest, ExportLimits, FlushTyped, LineStory
<1>1. CASE Export!Flush
  <2> DEFINE new == [i \in 1..FleetPoints |-> made.points + i]
             kept == Export!Extend(points, new, MaxQueue)
             pushed == Export!Pushed(points, new, MaxQueue)
             m == made.points + FleetPoints
  <2>1. /\ made.points <= MaxPoints - FleetPoints
        /\ made' = [made EXCEPT !.points = @ + FleetPoints]
        /\ over' = [over EXCEPT !.points = @ \union pushed]
        /\ Export!NextBatch(kept, Boards)
        /\ UNCHANGED <<last, backoff, sent, exportCut>>
    BY <1>1 DEF Export!Flush
  <2>2. /\ made.points \in Nat /\ FleetPoints \in Nat /\ m \in Nat /\ MaxPoints \in Nat /\ MaxQueue \in Nat
        /\ points \in Seq(Nat) /\ events \in Seq(Nat)
    BY <1>0, HostAssumption DEF ExportTyped
  <2>3. new \in Seq(Nat) /\ Export!Elements(new) \subseteq 1..m /\ 1..made.points \subseteq 1..m /\ m <= MaxPoints
    <3>1. new \in [1..FleetPoints -> Nat] /\ DOMAIN new = 1..FleetPoints
      BY <2>2
    <3>2. new \in Seq(Nat)
      BY <2>2, <3>1, SeqDef
    <3>3. \A i \in 1..FleetPoints : new[i] \in 1..m
      BY <2>2
    <3>4. 1..made.points \subseteq 1..m /\ m <= MaxPoints
      BY <2>1, <2>2
    <3> HIDE DEF new, m
    <3> QED BY <3>1, <3>2, <3>3, <3>4 DEF Export!Elements
  <2> HIDE DEF new
  <2>4. /\ kept \in Seq(Nat) /\ pushed \subseteq Export!Elements(points) \union Export!Elements(new)
        /\ Len(kept) <= MaxQueue
    BY <2>2, <2>3, Extended, ExtendedFits
  <2> HIDE DEF kept, pushed
  <2>5. /\ events' = events /\ FlushTyped(flush') /\ checks' \subseteq Boards
        /\ exportPhase' \in {exportPhase, "stopped"} /\ Len(points') <= Len(kept)
        /\ flush'.pc = "events" => Export!Elements(flush'.batch) \subseteq Export!Elements(events)
    BY <2>1, <2>2, <2>4, BatchTypes
  <2>6. Len(points') <= MaxQueue
    <3>1. points' \in Seq(Nat)
      BY <2>1, <2>2, <2>4, NextBatchSteps
    <3> QED BY <2>2, <2>4, <2>5, <3>1, LenProperties
  <2>7. /\ made'.points = m /\ made'.events = made.events
        /\ over'.points = over.points \union pushed /\ over'.events = over.events
    BY <1>0, <2>1 DEF ExportTyped
  <2> HIDE DEF m
  <2>8. ExportLimits'
    BY <1>0, <2>1, <2>3, <2>5, <2>6, <2>7 DEF ExportLimits
  <2>9. EventNumbers'
    BY <1>0, <2>1, <2>5, <2>7 DEF EventNumbers
  <2>10. PointNumbers'
    BY <1>0, <2>1, <2>3, <2>4, <2>7 DEF PointNumbers
  <2> QED BY <2>8, <2>9, <2>10 DEF ExportRest
<1>2. CASE Export!PointsPosted
  <2>1. /\ sent' = [sent EXCEPT !.points = @ \union Export!Elements(flush.batch)]
        /\ Export!NextBatch(points, checks)
        /\ UNCHANGED <<last, backoff, made, over, exportCut>>
    BY <1>2 DEF Export!PointsPosted
  <2>2. points \in Seq(Nat) /\ events \in Seq(Nat) /\ sent'.events = sent.events
    BY <1>0, <2>1 DEF ExportTyped
  <2>3. /\ events' = events /\ FlushTyped(flush') /\ checks' \subseteq Boards
        /\ exportPhase' \in {exportPhase, "stopped"} /\ Len(points') <= Len(points)
        /\ flush'.pc = "events" => Export!Elements(flush'.batch) \subseteq Export!Elements(events)
    BY <1>0, <2>1, <2>2, BatchTypes
  <2>4. Len(points') <= MaxQueue
    <3>1. points' \in Seq(Nat)
      BY <1>0, <2>1, <2>2, NextBatchSteps
    <3>2. Len(points) <= MaxQueue
      BY <1>0 DEF ExportLimits
    <3> QED BY <2>2, <2>3, <3>1, <3>2, LenProperties, HostAssumption
  <2>5. ExportLimits'
    BY <1>0, <2>1, <2>3, <2>4 DEF ExportLimits
  <2> QED BY <1>0, <2>1, <2>2, <2>3, <2>5 DEF ExportRest, EventNumbers, PointNumbers
<1>3. CASE Export!EventPosted
  <2> DEFINE posted == Export!Elements(flush.batch)
  <2>1. /\ flush.pc = "events"
        /\ sent' = [sent EXCEPT !.events = @ \union posted]
        /\ over' = [over EXCEPT !.events = @ \union ({Head(events)} \ posted)]
        /\ Export!NextEvent(Tail(events), checks)
        /\ UNCHANGED <<points, last, backoff, made, exportCut>>
    BY <1>3 DEF Export!EventPosted
  <2>2. events \in Seq(Nat) /\ events # <<>> /\ Len(events) <= MaxEvents /\ MaxEvents \in Nat
    BY <1>0, <2>1, HostAssumption DEF ExportTyped, ExportLimits
  <2>3. /\ Tail(events) \in Seq(Nat) /\ Len(Tail(events)) <= MaxEvents
        /\ Export!Elements(Tail(events)) \subseteq Export!Elements(events) /\ Head(events) \in Export!Elements(events)
    <3>1. /\ Len(events) \in Nat \ {0} /\ DOMAIN events = 1..Len(events) /\ Head(events) = events[1]
      BY <2>2, EmptySeq, LenProperties, HeadTailProperties
    <3>2. /\ Tail(events) \in Seq(Nat) /\ Len(Tail(events)) = Len(events) - 1
          /\ \A i \in 1..(Len(events) - 1) : Tail(events)[i] = events[i + 1]
      BY <2>2, HeadTailProperties
    <3>3. DOMAIN Tail(events) = 1..(Len(events) - 1) /\ 1 \in DOMAIN events
      BY <3>1, <3>2, LenProperties
    <3>4. \A i \in 1..(Len(events) - 1) : i + 1 \in DOMAIN events
      BY <3>1
    <3>5. Export!Elements(Tail(events)) \subseteq Export!Elements(events) /\ Head(events) \in Export!Elements(events)
      BY <3>1, <3>2, <3>3, <3>4 DEF Export!Elements
    <3>6. Len(Tail(events)) <= MaxEvents
      BY <2>2, <3>1, <3>2
    <3> QED BY <3>2, <3>5, <3>6
  <2> HIDE DEF posted
  <2>4. /\ events' = Tail(events) /\ FlushTyped(flush') /\ checks' \subseteq Boards
        /\ exportPhase' \in {exportPhase, "stopped"}
        /\ flush'.pc = "events" => Export!Elements(flush'.batch) \subseteq Export!Elements(Tail(events))
    BY <1>0, <2>1, <2>3, EventTypes
  <2>5. /\ sent'.events = sent.events \union posted
        /\ over'.points = over.points /\ over'.events = over.events \union ({Head(events)} \ posted)
    BY <1>0, <2>1 DEF ExportTyped
  <2>6. ExportLimits'
    BY <1>0, <2>1, <2>3, <2>4 DEF ExportLimits
  <2>7. EventNumbers'
    BY <1>0, <2>1, <2>3, <2>4, <2>5 DEF EventNumbers, posted
  <2> QED BY <1>0, <2>1, <2>5, <2>6, <2>7 DEF ExportRest, PointNumbers
<1>4. CASE Export!ChecksPosted
  <2>1. /\ Export!NextChecks(flush.left, checks)
        /\ UNCHANGED <<points, events, last, backoff, made, sent, over, exportCut>>
    BY <1>4 DEF Export!ChecksPosted
  <2>2. /\ FlushTyped(flush') /\ flush'.pc \in {"rest", "checks"} /\ checks' \subseteq Boards
        /\ exportPhase' \in {exportPhase, "stopped"}
    BY <1>0, <2>1, ChecksTypes
  <2> QED BY <1>0, <2>1, <2>2 DEF ExportRest, ExportLimits, EventNumbers, PointNumbers
<1> QED BY <1>1, <1>2, <1>3, <1>4

LEMMA FailureTypes ==
    ASSUME ExportInv, ExportRest, Export!PostFails \/ Export!Stop \/ Export!NoFlush \/ Export!BackoffEnds
    PROVE  ExportRest'
<1>0. /\ ExportTyped /\ ExportLimits /\ EventNumbers /\ PointNumbers
      /\ Export!Elements(points) \subseteq 1..made.points /\ Export!Elements(Out(flush)) \subseteq 1..made.points
  BY DEF ExportInv, ExportRest, LineStory
<1>1. FlushTyped(Export!AtRest) /\ Export!AtRest.pc = "rest"
  BY NothingIn, HostAssumption DEF FlushTyped, Export!AtRest
<1>2. CASE Export!PostFails
  <2> DEFINE all == Out(flush) \o points
             k == IF Len(all) > MaxQueue THEN MaxQueue ELSE Len(all)
             kept == SubSeq(all, 1, k)
             gone == Export!Elements(all) \ Export!Elements(kept)
  <2>1. /\ points' = kept
        /\ over' = [over EXCEPT !.points = @ \union gone]
        /\ flush' = Export!AtRest /\ backoff' = TRUE /\ exportPhase' \in {exportPhase, "stopped"}
        /\ UNCHANGED <<events, checks, last, made, sent, exportCut>>
    BY <1>2 DEF Export!PostFails, Export!Requeue, Export!FlushOver, Out
  <2>2. Out(flush) \in Seq(Nat) /\ points \in Seq(Nat)
    BY <1>0, NothingIn DEF ExportTyped, Out
  <2>3. all \in Seq(Nat) /\ Export!Elements(all) = Export!Elements(Out(flush)) \union Export!Elements(points)
    BY <2>2, Joined
  <2> HIDE DEF all
  <2>4. k \in 0..Len(all) /\ k <= MaxQueue /\ Len(all) \in Nat /\ \A i \in 1..Len(all) : all[i] \in Nat
    BY <2>3, LenProperties, ElementOfSeq, HostAssumption
  <2> HIDE DEF k
  <2>5. Len(kept) = k
    <3>1. \A i \in 1..k : all[i] \in Nat
      BY <2>4
    <3> QED BY <2>4, <3>1, SubSeqProperties
  <2>6. over'.points = over.points \union gone /\ over'.events = over.events
    BY <1>0, <2>1 DEF ExportTyped
  <2>7. Len(points') <= MaxQueue
    BY <2>1, <2>4, <2>5
  <2> HIDE DEF kept
  <2>8. gone \subseteq 1..made.points
    BY <1>0, <2>3
  <2> HIDE DEF gone
  <2>9. ExportLimits'
    BY <1>0, <1>1, <2>1, <2>7 DEF ExportLimits
  <2>10. EventNumbers' /\ PointNumbers'
    BY <1>0, <1>1, <2>1, <2>6, <2>8 DEF EventNumbers, PointNumbers
  <2> QED BY <2>9, <2>10 DEF ExportRest
<1>3. CASE Export!Stop
  <2>1. /\ exportPhase' = "stopping" /\ flush' = Export!AtRest
        /\ exportCut' = IF flush.pc = "points" THEN Export!Elements(flush.batch) ELSE {}
        /\ UNCHANGED <<points, events, checks, last, backoff, made, sent, over>>
    BY <1>3 DEF Export!Stop
  <2>2. exportCut' \subseteq 1..made.points
    BY <1>0, <2>1 DEF Out
  <2> QED BY <1>0, <1>1, <2>1, <2>2 DEF ExportRest, ExportLimits, EventNumbers, PointNumbers
<1>4. CASE Export!NoFlush \/ Export!BackoffEnds
  <2>1. /\ exportPhase' \in {exportPhase, "stopped"} /\ backoff' \in BOOLEAN
        /\ UNCHANGED <<points, events, checks, last, flush, made, sent, over, exportCut>>
    BY <1>0, <1>4 DEF Export!NoFlush, Export!BackoffEnds, ExportLimits
  <2> QED BY <1>0, <2>1 DEF ExportRest, ExportLimits, EventNumbers, PointNumbers
<1> QED BY <1>2, <1>3, <1>4

\* The types of the export; its queues stay within MAX_QUEUE and the limit of
\* the events, and no POST carries more than MAX_SERIES_PER_POST.
THEOREM ExportTypes == Export!Spec => []Export!ExportTypeOK
<1>1. Export!Init => ExportRest
  <2> SUFFICES ASSUME Export!Init PROVE ExportRest
    OBVIOUS
  <2>1. /\ exportPhase = "up" /\ points = <<>> /\ events = <<>> /\ checks = {} /\ last = [b \in Boards |-> "none"]
        /\ backoff = FALSE /\ exportCut = {}
        /\ flush = [pc |-> "rest", batch |-> <<>>, left |-> {}]
        /\ made = [points |-> 0, events |-> 0]
        /\ sent = [points |-> {}, events |-> {}] /\ over = [points |-> {}, events |-> {}]
    BY DEF Export!Init, Export!AtRest
  <2>2. ExportLimits
    <3>1. Len(points) <= MaxQueue /\ Len(events) <= MaxEvents /\ Len(flush.batch) <= PerPost
      <4>1. Len(points) = 0 /\ Len(events) = 0 /\ Len(flush.batch) = 0
        BY <2>1, NothingIn
      <4> QED BY <4>1, HostAssumption
    <3>2. last \in [Boards -> {"none", "online", "offline"}] /\ checks \subseteq Boards
      BY <2>1
    <3>3. FlushTyped(flush)
      BY <2>1, <3>1 DEF FlushTyped
    <3>4. made.points <= MaxPoints /\ made.events <= MaxNews
      <4>1. made.points = 0 /\ made.events = 0
        BY <2>1
      <4> QED BY <4>1, HostAssumption
    <3>5. exportPhase \in {"up", "stopping", "stopped"} /\ backoff \in BOOLEAN
      BY <2>1
    <3> QED BY <3>1, <3>2, <3>3, <3>4, <3>5 DEF ExportLimits
  <2>3. EventNumbers /\ PointNumbers
    BY <2>1, NothingIn DEF EventNumbers, PointNumbers
  <2> QED BY <2>2, <2>3 DEF ExportRest
<1>2. ExportInv /\ ExportRest /\ [Export!Next]_Export!vars => ExportRest'
  <2> SUFFICES ASSUME ExportInv, ExportRest, [Export!Next]_Export!vars PROVE ExportRest'
    OBVIOUS
  <2>1. CASE UNCHANGED Export!vars
    BY <2>1 DEF Export!vars, ExportRest, ExportLimits, EventNumbers, PointNumbers
  <2> QED BY <2>1, HooksTypes, FlushTypes, FailureTypes DEF Export!Next
<1>3. ExportInv /\ ExportRest => Export!ExportTypeOK
  <2> SUFFICES ASSUME ExportInv, ExportRest PROVE Export!ExportTypeOK
    OBVIOUS
  <2>1. /\ points \in Seq(Nat) /\ events \in Seq(Nat)
        /\ Export!Elements(points) \subseteq 1..made.points /\ Export!Elements(events) \subseteq 1..made.events
        /\ sent.points \subseteq 1..made.points
    BY DEF ExportInv, ExportTyped, LineStory, ExportRest, EventNumbers
  <2>2. ASSUME NEW s \in Seq(Nat), NEW n, Export!Elements(s) \subseteq 1..n PROVE s \in Seq(1..n)
    <3>1. Len(s) \in Nat /\ DOMAIN s = 1..Len(s) /\ \A i \in 1..Len(s) : s[i] \in 1..n
      BY <2>2, LenProperties DEF Export!Elements
    <3> DEFINE T == 1..n
    <3>2. \A i \in 1..Len(s) : s[i] \in T
      BY <3>1
    <3> HIDE DEF T
    <3>3. s \in [1..Len(s) -> T]
      BY <3>1, <3>2, LenProperties
    <3>4. s \in Seq(T)
      BY <3>1, <3>3, SeqDef
    <3> QED BY <3>4 DEF T
  <2>3. points \in Seq(1..made.points) /\ events \in Seq(1..made.events)
    BY <2>1, <2>2
  <2> QED BY <2>1, <2>3 DEF ExportRest, ExportLimits, FlushTyped, EventNumbers, PointNumbers, Export!ExportTypeOK
<1> QED BY <1>1, <1>2, <1>3, ExportAlways, PTL DEF Export!Spec

-----------------------------------------------------------------------------
(* The sweep of the LAN.                                                   *)

\* The host has no MAC of its own in the table, so that it is never known.
SweepInv == Lan!SweepTypeOK /\ row[SweepHost] # "mac"

LEMMA SweepInvInit == Lan!Init => SweepInv
BY HostAssumption DEF Lan!Init, SweepInv, Lan!SweepTypeOK, Lan!Rows

\* upsert_lan_device() of a device.
LEMMA SeenTypes ==
    ASSUME SweepInv, NEW ip \in Lan!Rows, NEW kind \in {"dns", "mac"}, Lan!Seen(ip, kind), ip = SweepHost => kind = "dns"
    PROVE  row' \in [Lan!Rows -> {"none", "dns", "mac"}] /\ old' \subseteq Lan!Rows /\ row'[SweepHost] # "mac"
BY DEF SweepInv, Lan!SweepTypeOK, Lan!Seen, Lan!Rows

LEMMA SweepStep ==
    ASSUME SweepInv, [Lan!Next]_Lan!vars
    PROVE  SweepInv'
<1>0. /\ present \subseteq SweepIps /\ old \subseteq Lan!Rows /\ row \in [Lan!Rows -> {"none", "dns", "mac"}]
      /\ sweeps \in 0..2 /\ pc \in {"sleep", "poke", "list", "arp", "upsert"}
      /\ known \subseteq SweepIps /\ first \in BOOLEAN /\ table \subseteq SweepIps
      /\ awaited \subseteq present /\ moves \in 0..MaxMoves /\ row[SweepHost] # "mac"
      /\ SweepIps \subseteq Lan!Rows /\ SweepHost \in Lan!Rows /\ SweepHost \notin SweepIps
  BY HostAssumption DEF SweepInv, Lan!SweepTypeOK, Lan!Rows
<1>1. Lan!Move => moves' \in 0..MaxMoves
  BY <1>0, HostAssumption DEF Lan!Move
<1>2. ASSUME NEW ip \in SweepIps, Lan!Join(ip) \/ Lan!Leave(ip) \/ Lan!Ages(ip) PROVE SweepInv'
  BY <1>0, <1>1, <1>2 DEF Lan!Join, Lan!Leave, Lan!Ages, Lan!local, SweepInv, Lan!SweepTypeOK
<1>3. ASSUME NEW ip \in SweepIps, Lan!DnsRow(ip) \/ Lan!Upsert(ip) PROVE SweepInv'
  <2>1. row' \in [Lan!Rows -> {"none", "dns", "mac"}] /\ old' \subseteq Lan!Rows /\ row'[SweepHost] # "mac"
    BY <1>0, <1>3, SeenTypes DEF Lan!DnsRow, Lan!Upsert
  <2> QED BY <1>0, <1>3, <2>1 DEF Lan!DnsRow, Lan!Upsert, Lan!local, SweepInv, Lan!SweepTypeOK
<1>4. ASSUME NEW ip \in SweepIps, NEW written \in BOOLEAN, Lan!UpsertFails(ip, written) PROVE SweepInv'
  <2>1. row' \in [Lan!Rows -> {"none", "dns", "mac"}] /\ old' \subseteq Lan!Rows /\ row'[SweepHost] # "mac"
    BY <1>0, <1>4, SeenTypes DEF Lan!UpsertFails
  <2> QED BY <1>0, <1>1, <1>4, <2>1 DEF Lan!UpsertFails, SweepInv, Lan!SweepTypeOK
<1>5. CASE Lan!NameHost
  <2>1. row' \in [Lan!Rows -> {"none", "dns", "mac"}] /\ old' \subseteq Lan!Rows /\ row'[SweepHost] # "mac"
    BY <1>0, <1>5, SeenTypes DEF Lan!NameHost
  <2> QED BY <1>0, <1>5, <2>1 DEF Lan!NameHost, SweepInv, Lan!SweepTypeOK
<1>6. CASE Lan!NameHostFails
  BY <1>0, <1>1, <1>6 DEF Lan!NameHostFails, SweepInv, Lan!SweepTypeOK
<1>12. CASE Lan!ListFails
  BY <1>0, <1>1, <1>12 DEF Lan!ListFails, SweepInv, Lan!SweepTypeOK
<1>13. CASE Lan!Restart
  BY <1>0, <1>1, <1>13 DEF Lan!Restart, SweepInv, Lan!SweepTypeOK
<1>11. CASE Lan!ReadArp
  <2>1. table' \subseteq SweepIps /\ pc' = "upsert"
    BY <1>0, <1>11 DEF Lan!ReadArp
  <2> QED BY <1>0, <1>11, <2>1 DEF Lan!ReadArp, SweepInv, Lan!SweepTypeOK
<1>7. CASE Lan!Poke \/ Lan!PokeFails
  BY <1>0, <1>1, <1>7 DEF Lan!Poke, Lan!PokeFails, Lan!Swept, SweepInv, Lan!SweepTypeOK
<1>8. CASE Lan!List
  <2>1. Lan!Known \subseteq SweepIps
    BY <1>0 DEF Lan!Known, Lan!WithMac, Lan!Rows
  <2> QED BY <1>0, <1>8, <2>1 DEF Lan!List, SweepInv, Lan!SweepTypeOK
<1>9. CASE Lan!PruneLan
  <2>1. row' \in [Lan!Rows -> {"none", "dns", "mac"}] /\ row'[SweepHost] # "mac" /\ old' = {}
    BY <1>0, <1>9 DEF Lan!PruneLan
  <2> QED BY <1>0, <1>9, <2>1 DEF Lan!PruneLan, SweepInv, Lan!SweepTypeOK
<1>10. CASE UNCHANGED Lan!vars
  BY <1>0, <1>10 DEF Lan!vars, SweepInv, Lan!SweepTypeOK
<1> QED BY <1>2, <1>3, <1>4, <1>5, <1>6, <1>7, <1>8, <1>9, <1>10, <1>11, <1>12, <1>13 DEF Lan!Next

\* The types of the sweep; what it takes for known are devices and never the
\* host itself: _refresh_arp().
THEOREM SweepTypes == Lan!Spec => []Lan!SweepTypeOK
BY SweepInvInit, SweepStep, PTL DEF Lan!Spec, SweepInv

-----------------------------------------------------------------------------
(* The callers of the sentinel, and its verdict.                           *)

Spots == {"idle", "gather", "area", "exit", "send", "open", "gone"}
Statuses == {"shedding", "quiet"}
AtExit == at[Network!Broadcaster] = "exit"

\* What a telemetry tells fits what it reports, load shedding only if it is the
\* status that was correlated.
Fits(x, same) ==
    /\ x.verdict = "mains" <=> x.mains = "off"
    /\ x.verdict # "mains" => (x.link = "outage" <=> x.verdict # "no outage")
    /\ same => /\ x.verdict = "substation" => x.grid = "shedding"
               /\ x.verdict = "fibre" => x.grid = "quiet"

\* While the broadcaster closes its connection it holds what is cached, unless
\* another caller has written to the cache.
SentinelInv ==
    /\ Network!SentinelTypeOK
    /\ AtExit => held # Network!Never /\ (~raced => grid = held)
    /\ VerdictFitsReport

\* A telemetry is assembled in one step.
LEMMA GatheredFits ==
    ASSUME mains \in {"on", "off"}, NEW status \in Statuses, NEW cached, NEW x \in Network!Gathered(status, cached)
    PROVE  x \in Network!Telemetry /\ Fits(x, status = cached)
<1>1. PICK online \in Network!Online :
        x = [mains |-> mains, grid |-> status, link |-> Network!StabilityScore(online),
             verdict |-> Network!Correlate(cached, online)]
  BY DEF Network!Gathered
<1>2. /\ Network!StabilityScore(online) = IF online THEN "scored" ELSE "outage"
      /\ Network!Correlate(cached, online) = IF mains = "off" THEN "mains"
                     ELSE IF online THEN "no outage"
                     ELSE IF cached = "shedding" THEN "substation" ELSE "fibre"
  BY DEF Network!StabilityScore, Network!Correlate, Network!Cause
<1>3. /\ x.mains = mains /\ x.grid = status /\ x.link = IF online THEN "scored" ELSE "outage"
      /\ x.verdict = IF mains = "off" THEN "mains"
                     ELSE IF online THEN "no outage"
                     ELSE IF cached = "shedding" THEN "substation" ELSE "fibre"
  BY <1>1, <1>2
<1>4. x \in Network!Telemetry
  <2>1. /\ Network!StabilityScore(online) \in {"outage", "scored"}
        /\ Network!Correlate(cached, online) \in {"mains", "substation", "fibre", "no outage"}
    BY <1>2
  <2> QED BY <1>1, <2>1 DEF Network!Telemetry, Statuses
<1>5. CASE mains = "off"
  BY <1>3, <1>4, <1>5 DEF Fits
<1>6. CASE mains = "on" /\ online
  BY <1>3, <1>4, <1>6 DEF Fits
<1>7. CASE mains = "on" /\ ~ online
  BY <1>3, <1>4, <1>7 DEF Fits, Statuses
<1> QED BY <1>5, <1>6, <1>7

\* A caller that goes elsewhere than to the exit.
LEMMA GoesTypes ==
    ASSUME Network!SentinelTypeOK, NEW p, NEW spot \in Spots, Network!Goes(p, spot)
    PROVE  at' \in [Network!Callers -> Spots] /\ ((AtExit' /\ spot # "exit") => AtExit /\ p # Network!Broadcaster)
BY DEF Network!SentinelTypeOK, Network!Goes, Network!Callers, Spots, AtExit

\* What a caller does with a telemetry.
LEMMA DeliverTypes ==
    ASSUME Network!SentinelTypeOK, NEW p \in Network!Callers, NEW status, NEW cached,
           p = Network!Broadcaster => status \in Statuses, Network!Deliver(p, status, cached)
    PROVE  /\ at' \in [Network!Callers -> Spots] /\ data' \in {Network!NoData} \union Network!Telemetry
           /\ sockets' \subseteq Dashboards /\ todo' \subseteq Dashboards /\ shown' \in [Dashboards -> {Network!Never, "on", "off"}]
           /\ AtExit' => AtExit /\ p # Network!Broadcaster
           /\ data' = data \/ (p = Network!Broadcaster /\ Fits(data', status = cached))
<1>0. /\ data \in {Network!NoData} \union Network!Telemetry
      /\ sockets \subseteq Dashboards /\ todo \subseteq Dashboards /\ mains \in {"on", "off"}
      /\ shown \in [Dashboards -> {Network!Never, "on", "off"}]
  BY DEF Network!SentinelTypeOK
<1>2. CASE p = Network!Broadcaster /\ Network!RoundBegins(status, cached)
  <2>1. data' \in Network!Telemetry /\ Fits(data', status = cached)
    <3>1. data' \in Network!Gathered(status, cached) /\ status \in Statuses
      BY <1>2 DEF Network!RoundBegins
    <3> QED BY <1>0, <3>1, GatheredFits
  <2>2. at' \in [Network!Callers -> Spots] /\ (AtExit' => AtExit /\ p # Network!Broadcaster)
    <3>1. Network!Goes(p, "send") /\ "send" \in Spots /\ "send" # "exit"
      BY <1>2 DEF Network!RoundBegins, Spots
    <3> QED BY <3>1, GoesTypes
  <2>3. todo' = sockets /\ UNCHANGED <<sockets, shown>>
    BY <1>2 DEF Network!RoundBegins
  <2> QED BY <1>0, <1>2, <2>1, <2>2, <2>3
<1>3. CASE p \in Dashboards /\ Network!FirstMessage(p)
  <2>1. /\ sockets' \subseteq sockets /\ (shown' = shown \/ shown' = [shown EXCEPT ![p] = mains])
        /\ UNCHANGED <<data, todo>>
    BY <1>3 DEF Network!FirstMessage
  <2>2. at' \in [Network!Callers -> Spots] /\ (AtExit' => AtExit /\ p # Network!Broadcaster)
    <3>1. (Network!Goes(p, "gone") \/ Network!Goes(p, "open")) /\ {"gone", "open"} \subseteq Spots \ {"exit"}
      BY <1>3 DEF Network!FirstMessage, Spots
    <3> QED BY <3>1, GoesTypes
  <2>3. shown' \in [Dashboards -> {Network!Never, "on", "off"}]
    BY <1>0, <2>1
  <2>4. sockets' \subseteq sockets /\ data' = data /\ todo' = todo
    BY <2>1
  <2> QED BY <1>0, <2>2, <2>3, <2>4
<1>4. CASE Network!Answered(p)
  <2>1. Network!Goes(p, "idle") /\ "idle" \in Spots /\ "idle" # "exit" /\ UNCHANGED <<data, sockets, todo, shown>>
    BY <1>4 DEF Network!Answered, Spots
  <2>2. at' \in [Network!Callers -> Spots] /\ (AtExit' => AtExit /\ p # Network!Broadcaster)
    BY <2>1, GoesTypes
  <2> QED BY <1>0, <2>1, <2>2
<1> QED BY <1>2, <1>3, <1>4 DEF Network!Deliver

\* Steps that tell no verdict: that of the broadcaster stays, or is done with,
\* and so does what it holds, unless the cache has been written to.
LEMMA SentinelRests ==
    ASSUME SentinelInv, Network!SentinelTypeOK',
           data' = Network!NoData \/ (data' = data /\ (raced => raced')),
           AtExit' => AtExit /\ held' = held /\ (raced' \/ (grid' = grid /\ raced' = raced))
    PROVE  SentinelInv'
<1>1. raced \in BOOLEAN /\ raced' \in BOOLEAN
  BY DEF SentinelInv, Network!SentinelTypeOK
<1>2. VerdictFitsReport'
  BY <1>1 DEF SentinelInv, VerdictFitsReport, Network!VerdictFitsReport
<1> QED BY <1>1, <1>2 DEF SentinelInv

\* A telemetry is assembled, and the cache written to or not.
LEMMA DeliverKeeps ==
    ASSUME SentinelInv, NEW p \in Network!Callers, NEW status, NEW cached,
           p = Network!Broadcaster => status \in Statuses, Network!Deliver(p, status, cached),
           UNCHANGED <<dead, broken, mains, key, changes>>,
           grid' \in {Network!Never, "shedding", "quiet"}, held' \in {Network!Never, "shedding", "quiet"}, raced' \in BOOLEAN,
           raced => raced',
           p = Network!Broadcaster => (raced' \/ status = cached),
           p # Network!Broadcaster => held' = held /\ (AtExit => raced' \/ (grid' = grid /\ raced' = raced))
    PROVE  SentinelInv'
<1>0. Network!SentinelTypeOK
  BY DEF SentinelInv
<1>1. /\ at' \in [Network!Callers -> Spots] /\ data' \in {Network!NoData} \union Network!Telemetry
      /\ sockets' \subseteq Dashboards /\ todo' \subseteq Dashboards /\ shown' \in [Dashboards -> {Network!Never, "on", "off"}]
      /\ AtExit' => AtExit /\ p # Network!Broadcaster
      /\ data' = data \/ (p = Network!Broadcaster /\ Fits(data', status = cached))
  BY <1>0, DeliverTypes
<1>2. Network!SentinelTypeOK'
  BY <1>0, <1>1 DEF Network!SentinelTypeOK, Spots
<1>3. CASE data' = data
  BY <1>1, <1>2, <1>3, SentinelRests
<1>4. CASE p = Network!Broadcaster /\ Fits(data', status = cached)
  BY <1>1, <1>2, <1>4 DEF SentinelInv, Fits, VerdictFitsReport, Network!VerdictFitsReport
<1> QED BY <1>1, <1>3, <1>4

\* The mock takes the place of the status, in the cache as well.
LEMMA FallbackKeeps ==
    ASSUME SentinelInv, NEW p \in Network!Callers, Network!Fallback(p), UNCHANGED <<dead, broken, mains, key, changes>>
    PROVE  SentinelInv'
<1>1. /\ Network!Deliver(p, Network!Mock, Network!Mock) /\ Network!Mock \in Statuses
      /\ grid' \in {Network!Never, "shedding", "quiet"} /\ held' = held
      /\ raced' = (raced \/ (p # Network!Broadcaster /\ AtExit))
  BY DEF Network!Fallback, Network!Caches, Network!Mock, Statuses, Network!At, AtExit
<1>2. raced \in BOOLEAN /\ held \in {Network!Never, "shedding", "quiet"}
  BY DEF SentinelInv, Network!SentinelTypeOK
<1>3. /\ raced' \in BOOLEAN /\ (raced => raced')
      /\ p # Network!Broadcaster => (AtExit => raced' \/ (grid' = grid /\ raced' = raced))
  BY <1>1, <1>2
<1> QED BY <1>1, <1>2, <1>3, DeliverKeeps

\* A caller goes on to ask for the status, or asks.
LEMMA GoesKeeps ==
    ASSUME SentinelInv, NEW p \in Network!Callers, NEW spot \in Spots \ {"exit"}, Network!Goes(p, spot),
           sockets' \subseteq Dashboards, UNCHANGED <<data, todo, grid, held, raced, shown, dead, broken, mains, key, changes>>
    PROVE  SentinelInv'
<1>1. Network!SentinelTypeOK /\ spot \in Spots /\ spot # "exit"
  BY DEF SentinelInv
<1>2. at' \in [Network!Callers -> Spots] /\ (AtExit' => AtExit)
  BY <1>1, GoesTypes
<1>3. Network!SentinelTypeOK'
  BY <1>1, <1>2 DEF Network!SentinelTypeOK, Spots
<1> QED BY <1>2, <1>3, SentinelRests

LEMMA StatusKeeps ==
    ASSUME SentinelInv, NEW p \in Network!Callers, Network!Status(p), UNCHANGED <<dead, broken, mains, key, changes>>
    PROVE  SentinelInv'
<1>0. /\ grid \in {Network!Never, "shedding", "quiet"} /\ held \in {Network!Never, "shedding", "quiet"} /\ raced \in BOOLEAN
      /\ sockets \subseteq Dashboards
  BY DEF SentinelInv, Network!SentinelTypeOK
<1>1. CASE grid # Network!Never /\ Network!Deliver(p, grid, grid) /\ UNCHANGED Network!statuses
  <2>1. grid \in Statuses /\ UNCHANGED <<grid, held, raced>>
    BY <1>0, <1>1 DEF Network!statuses, Statuses
  <2> QED BY <1>0, <1>1, <2>1, DeliverKeeps
<1>2. CASE Network!Goes(p, "area") /\ UNCHANGED <<data, sockets, todo, Network!statuses, shown>>
  <2>1. "area" \in Spots \ {"exit"} /\ UNCHANGED <<grid, held, raced>>
    BY <1>2 DEF Spots, Network!statuses
  <2> QED BY <1>0, <1>2, <2>1, GoesKeeps
<1>3. CASE Network!Fallback(p)
  BY <1>3, FallbackKeeps
<1> QED BY <1>1, <1>2, <1>3 DEF Network!Status

\* EskomSePush answers: the status is cached and held, and the connection closed.
LEMMA AreaKeeps ==
    ASSUME SentinelInv, NEW p \in Network!Callers, Network!AreaAnswers(p)
    PROVE  SentinelInv'
<1>0. Network!SentinelTypeOK /\ UNCHANGED <<dead, broken, mains, key, changes>>
  BY DEF SentinelInv, Network!AreaAnswers, Network!world
<1>1. ASSUME NEW status \in Statuses, Network!Parsed(p, status) PROVE SentinelInv'
  <2>1. /\ grid' = status /\ raced' = (raced \/ (p # Network!Broadcaster /\ AtExit))
        /\ held' = (IF p = Network!Broadcaster THEN status ELSE held)
        /\ Network!Goes(p, "exit") /\ UNCHANGED <<data, sockets, todo, shown>>
    BY <1>1 DEF Network!Parsed, Network!Caches, Network!At, AtExit
  <2>2. at' \in [Network!Callers -> Spots] /\ (p # Network!Broadcaster => (AtExit' => AtExit))
    BY <1>0, <2>1 DEF Network!SentinelTypeOK, Network!Goes, Spots, Network!Callers, AtExit
  <2>3. Network!SentinelTypeOK'
    BY <1>0, <1>1, <2>1, <2>2 DEF Network!SentinelTypeOK, Spots, Statuses
  <2>4. raced \in BOOLEAN /\ (raced => raced') /\ status # Network!Never
    BY <1>0, <1>1, <2>1 DEF Network!SentinelTypeOK, Statuses, Network!Never
  <2>5. VerdictFitsReport'
    BY <1>0, <2>1, <2>4 DEF SentinelInv, VerdictFitsReport, Network!VerdictFitsReport
  <2>6. CASE p = Network!Broadcaster
    BY <2>1, <2>3, <2>4, <2>5, <2>6 DEF SentinelInv
  <2>7. CASE p # Network!Broadcaster
    BY <2>1, <2>2, <2>3, <2>4, <2>5, <2>7 DEF SentinelInv
  <2> QED BY <2>6, <2>7
<1>2. CASE Network!Fallback(p)
  BY <1>0, <1>2, FallbackKeeps
<1> QED BY <1>1, <1>2 DEF Network!AreaAnswers, Network!AreaReports, Statuses

\* They are closed: what the broadcaster holds is what is cached, but for a race.
LEMMA ClosedKeeps ==
    ASSUME SentinelInv, NEW p \in Network!Callers, Network!Closed(p)
    PROVE  SentinelInv'
<1>1. /\ Network!Deliver(p, held, grid) /\ (p = Network!Broadcaster => AtExit)
      /\ UNCHANGED <<grid, raced, dead, broken, mains, key, changes>>
      /\ held' = (IF p = Network!Broadcaster THEN Network!Never ELSE held)
  BY DEF Network!Closed, Network!At, AtExit, Network!world
<1>2. /\ held \in {Network!Never, "shedding", "quiet"} /\ grid \in {Network!Never, "shedding", "quiet"} /\ raced \in BOOLEAN
      /\ AtExit => held # Network!Never /\ (~raced => grid = held)
  BY DEF SentinelInv, Network!SentinelTypeOK
<1>3. p = Network!Broadcaster => held \in Statuses /\ (raced' \/ held = grid)
  BY <1>1, <1>2 DEF Statuses
<1>4. held' \in {Network!Never, "shedding", "quiet"} /\ (p # Network!Broadcaster => held' = held)
  BY <1>1, <1>2
<1> QED BY <1>1, <1>2, <1>3, <1>4, DeliverKeeps

LEMMA SentinelInit == Network!Init => SentinelInv
<1> SUFFICES ASSUME Network!Init PROVE SentinelInv
  OBVIOUS
<1>1. Network!SentinelTypeOK
  <2>1. /\ at \in [Network!Callers -> Spots] /\ shown \in [Dashboards -> {Network!Never, "on", "off"}]
        /\ changes \in 0..MaxChanges
    BY HostAssumption DEF Network!Init, Spots
  <2>2. /\ data \in {Network!NoData} \union Network!Telemetry /\ key \in BOOLEAN /\ raced \in BOOLEAN
        /\ grid = Network!Never /\ held = Network!Never /\ mains \in {"on", "off"}
    BY DEF Network!Init
  <2>3. sockets = {} /\ todo = {} /\ dead = {} /\ broken = {}
    BY DEF Network!Init
  <2> QED BY <2>1, <2>2, <2>3 DEF Network!SentinelTypeOK, Spots
<1>2. ~ AtExit
  BY DEF Network!Init, AtExit, Network!Callers
<1>3. VerdictFitsReport
  BY DEF Network!Init, VerdictFitsReport, Network!VerdictFitsReport
<1> QED BY <1>1, <1>2, <1>3 DEF SentinelInv

LEMMA SentinelStep ==
    ASSUME SentinelInv, [Network!Next]_Network!vars
    PROVE  SentinelInv'
<1>a. Network!SentinelTypeOK
  BY DEF SentinelInv
<1>0. /\ at \in [Network!Callers -> Spots] /\ data \in {Network!NoData} \union Network!Telemetry
      /\ sockets \subseteq Dashboards /\ todo \subseteq Dashboards /\ dead \subseteq Dashboards /\ broken \subseteq Dashboards
      /\ mains \in {"on", "off"} /\ key \in BOOLEAN
      /\ shown \in [Dashboards -> {Network!Never, "on", "off"}] /\ changes \in 0..MaxChanges
      /\ Dashboards \subseteq Network!Callers /\ Clients \subseteq Network!Callers /\ Network!Broadcaster \in Network!Callers
  BY <1>a DEF Network!SentinelTypeOK, Spots, Network!Callers
<1>2. Network!Move => changes' \in 0..MaxChanges
  BY <1>0, HostAssumption DEF Network!Move
<1>3. ASSUME NEW p \in Network!Callers, Network!Gather(p) \/ Network!AskGrid(p) PROVE SentinelInv'
  BY <1>3, StatusKeeps DEF Network!Gather, Network!AskGrid, Network!world
<1>5. ASSUME NEW d \in Dashboards, Network!Connect(d) \/ Network!Disconnected(d) PROVE SentinelInv'
  <2>1. /\ Network!Goes(d, "gather") \/ Network!Goes(d, "gone")
        /\ sockets' \subseteq Dashboards /\ UNCHANGED <<data, todo, grid, held, raced, shown, dead, broken, mains, key, changes>>
    BY <1>0, <1>5 DEF Network!Connect, Network!Disconnected, Network!world, Network!statuses
  <2>2. d \in Network!Callers /\ {"gather", "gone"} \subseteq Spots \ {"exit"}
    BY <1>0 DEF Spots
  <2> QED BY <2>1, <2>2, GoesKeeps
<1>6. ASSUME NEW p \in Network!Callers, Network!Ask(p) \/ (p = Network!Broadcaster /\ Network!Period) PROVE SentinelInv'
  <2>1. /\ Network!Goes(p, "gather") /\ "gather" \in Spots \ {"exit"}
        /\ sockets' \subseteq Dashboards /\ UNCHANGED <<data, todo, grid, held, raced, shown, dead, broken, mains, key, changes>>
    BY <1>0, <1>6 DEF Network!Ask, Network!Period, Network!world, Network!statuses, Spots
  <2> QED BY <2>1, GoesKeeps
<1>7. CASE Network!RoundEnds
  <2>1. /\ data' = Network!NoData /\ raced' = FALSE /\ sockets' \subseteq Dashboards /\ dead' \subseteq Dashboards
        /\ UNCHANGED <<todo, grid, held, broken, mains, key, changes, shown>> /\ Network!Goes(Network!Broadcaster, "idle")
    BY <1>0, <1>7 DEF Network!RoundEnds, Network!world
  <2>2. at' \in [Network!Callers -> Spots] /\ ~ AtExit'
    BY <1>a, <2>1, GoesTypes DEF Spots
  <2>3. Network!SentinelTypeOK'
    BY <1>a, <2>1, <2>2 DEF Network!SentinelTypeOK, Spots
  <2> QED BY <2>1, <2>2, <2>3, SentinelRests
<1>8. ASSUME NEW d \in Dashboards, Network!Send(d) PROVE SentinelInv'
  <2>0. /\ UNCHANGED <<at, data, sockets, grid, held, raced, broken, mains, key, changes>>
        /\ todo' \subseteq Dashboards /\ AtExit' = AtExit
    BY <1>0, <1>8 DEF Network!Send, Network!statuses, Network!world, AtExit
  <2>1. CASE shown' = shown
    <3>1. dead' \subseteq Dashboards
      BY <1>0, <1>8 DEF Network!Send
    <3>2. Network!SentinelTypeOK'
      BY <1>a, <2>0, <2>1, <3>1 DEF Network!SentinelTypeOK
    <3> QED BY <2>0, <3>2, SentinelRests
  <2>2. CASE shown' = [shown EXCEPT ![d] = data.mains] /\ dead' = dead
    <3>1. data.mains \in {Network!Never, "on", "off"}
      <4>1. CASE data = Network!NoData
        BY <4>1 DEF Network!NoData
      <4>2. CASE data \in Network!Telemetry
        BY <4>2 DEF Network!Telemetry
      <4> QED BY <1>0, <4>1, <4>2
    <3>2. shown' \in [Dashboards -> {Network!Never, "on", "off"}]
      BY <1>0, <2>2, <3>1
    <3>3. Network!SentinelTypeOK'
      BY <1>a, <2>0, <2>2, <3>2 DEF Network!SentinelTypeOK
    <3> QED BY <2>0, <3>3, SentinelRests
  <2> QED BY <1>8, <2>1, <2>2 DEF Network!Send
<1>9. CASE Network!HardwareFeed
  <2>1. /\ UNCHANGED <<at, data, sockets, todo, dead, broken, grid, held, raced, key, shown>> /\ mains' \in {"on", "off"}
        /\ changes' \in 0..MaxChanges /\ AtExit' = AtExit
    BY <1>2, <1>9 DEF Network!HardwareFeed, Network!statuses, AtExit
  <2>2. Network!SentinelTypeOK'
    BY <1>a, <2>1 DEF Network!SentinelTypeOK
  <2> QED BY <2>1, <2>2, SentinelRests
<1>10. ASSUME NEW d \in Dashboards, Network!Leaves(d) PROVE SentinelInv'
  <2>1. /\ shown' \in [Dashboards -> {Network!Never, "on", "off"}] /\ broken' \subseteq Dashboards /\ AtExit' = AtExit
        /\ UNCHANGED <<at, data, sockets, todo, dead, grid, held, raced, mains, key>> /\ changes' \in 0..MaxChanges
    BY <1>0, <1>2, <1>10 DEF Network!Leaves, Network!statuses, AtExit
  <2>2. Network!SentinelTypeOK'
    BY <1>a, <2>1 DEF Network!SentinelTypeOK
  <2> QED BY <2>1, <2>2, SentinelRests
<1>11. CASE UNCHANGED Network!vars
  <2>1. UNCHANGED <<at, data, sockets, todo, dead, broken, grid, held, raced, mains, key, shown, changes>> /\ AtExit' = AtExit
    BY <1>11 DEF Network!vars, AtExit
  <2>2. Network!SentinelTypeOK'
    BY <1>a, <2>1 DEF Network!SentinelTypeOK
  <2> QED BY <2>1, <2>2, SentinelRests
<1> QED
  BY <1>0, <1>3, AreaKeeps, ClosedKeeps, <1>5, <1>6, <1>7, <1>8, <1>9, <1>10, <1>11 DEF Network!Next, Network!Broadcast

LEMMA SentinelAlways == Network!Spec => []SentinelInv
BY SentinelInit, SentinelStep, PTL DEF Network!Spec

\* The types of the sentinel.
THEOREM SentinelTypes == Network!Spec => []Network!SentinelTypeOK
<1>1. SentinelInv => Network!SentinelTypeOK
  BY DEF SentinelInv
<1> QED BY <1>1, SentinelAlways, PTL

\* The root cause told in a telemetry is that of the telemetry itself, whoever
\* receives the hardware feed or replaces the cached status meanwhile, unless
\* another caller does so between the answer of EskomSePush and the correlation:
\* get_live_telemetry(), get_loadshedding_status() and correlate_link_issue().
THEOREM VerdictIsOfItsReport == Network!Spec => []VerdictFitsReport
<1>1. SentinelInv => VerdictFitsReport
  BY DEF SentinelInv
<1> QED BY <1>1, SentinelAlways, PTL

-----------------------------------------------------------------------------
(* The types of the serial bridge, from its own proofs.                    *)

\* Its module of proofs, with the names of the host.
Bridge == INSTANCE SerialBridgeProofs WITH
    Boards <- UsbBoards, Ports <- UsbPorts, MaxMoves <- MaxPlugs, at <- plugged, moves <- plugs

LEMMA BridgeTypes == HostSpec => []Usb!BridgeTypeOK
<1>1. HostInit => Bridge!Inv
  <2>1. HostInit => Bridge!Init
    BY DEF HostInit, Usb!Init, Bridge!Init, Usb!NoWork, Bridge!NoWork, Usb!Writers, Bridge!Writers
  <2> QED BY <2>1, Bridge!InitInv
<1>2. [HostNext]_hostVars => [Bridge!Next]_Bridge!vars
  <2>1. UNCHANGED usbVars => UNCHANGED Bridge!vars
    BY DEF usbVars, Bridge!vars
  <2>2. Usb!Next => Bridge!Next
    BY DEF Usb!Next, Bridge!Next, Usb!Unplug, Usb!Plug, Usb!Discover, Usb!Pump, Usb!ReadDnsq, Usb!OnMessage,
       Usb!LookUp, Usb!Write, Usb!Known, Usb!Writers,
       Bridge!Unplug, Bridge!Plug, Bridge!Discover, Bridge!Pump, Bridge!ReadDnsq, Bridge!OnMessage,
       Bridge!LookUp, Bridge!Write, Bridge!Known, Bridge!Writers,
       Usb!Used, Usb!Closed, Usb!Open, Usb!Reads, Usb!ReadTlm, Usb!Learnt, Usb!Learn, Usb!Fails, Usb!DnsqRaises, Usb!RelayRaises, Usb!NoWork,
       Bridge!Used, Bridge!Closed, Bridge!Open, Bridge!Reads, Bridge!ReadTlm, Bridge!Learnt, Bridge!Learn, Bridge!Fails, Bridge!DnsqRaises, Bridge!RelayRaises, Bridge!NoWork
  <2> QED BY <2>1, <2>2 DEF HostNext, Resolves, Watches, Sweeps, Exports, Guards, Bridges, hostVars
<1>3. Bridge!Inv => Usb!BridgeTypeOK
  BY DEF Bridge!Inv, Bridge!BridgeTypeOK, Usb!BridgeTypeOK, Usb!Writers, Bridge!Writers
<1> QED BY <1>1, <1>2, <1>3, Bridge!NextInv, PTL DEF HostSpec

-----------------------------------------------------------------------------
(* The host as the run checks it.                                          *)

\* A step of one part leaves the state of the others alone.
LEMMA PartsRun == HostSpec => Spec /\ Watch!Spec /\ Lan!Spec /\ Network!Spec /\ Export!Spec
<1>1. HostInit => Init /\ Watch!Init /\ Lan!Init /\ Network!Init /\ Export!Init
  BY DEF HostInit
<1>2. [HostNext]_hostVars => [Next]_vars
  BY DEF HostNext, Resolves, Watches, Sweeps, Exports, Guards, Bridges, hostVars
<1>3. [HostNext]_hostVars => [Watch!Next]_Watch!vars
  <2>1. UNCHANGED watchVars => UNCHANGED Watch!vars
    BY DEF watchVars, Watch!vars, Watch!board
  <2> QED BY <2>1 DEF HostNext, Resolves, Watches, Sweeps, Exports, Guards, Bridges, hostVars
<1>4. [HostNext]_hostVars => [Network!Next]_Network!vars
  <2>1. UNCHANGED sentinelVars => UNCHANGED Network!vars
    BY DEF sentinelVars, Network!vars
  <2> QED BY <2>1 DEF HostNext, Resolves, Watches, Sweeps, Exports, Guards, Bridges, hostVars
<1>5. [HostNext]_hostVars => [Export!Next]_Export!vars
  <2>1. UNCHANGED exportVars => UNCHANGED Export!vars
    BY DEF exportVars, Export!vars
  <2> QED BY <2>1 DEF HostNext, Resolves, Watches, Sweeps, Exports, Guards, Bridges, hostVars
<1>6. [HostNext]_hostVars => [Lan!Next]_Lan!vars
  <2>1. UNCHANGED sweepVars => UNCHANGED Lan!vars
    BY DEF sweepVars, Lan!vars
  <2> QED BY <2>1 DEF HostNext, Resolves, Watches, Sweeps, Exports, Guards, Bridges, hostVars
<1> QED
  BY <1>1, <1>2, <1>3, <1>4, <1>5, <1>6, PTL DEF HostSpec, Spec, Watch!Spec, Lan!Spec, Network!Spec, Export!Spec

\* What the parts promise, they promise where they share a host.
THEOREM PartsKeepTheirWord ==
    HostSpec => [](RowsAccounted /\ AlertsFollowActivity /\ LightFollows /\ VerdictFitsReport /\ PointsAccounted)
BY PartsRun, AnswersLeaveRows, AlertsAndActivity, LightIsAsSet, VerdictIsOfItsReport, PointsKept, PTL

\* The part that runs keeps its variables in their types.
THEOREM HostTypes == HostSpec => []HostTypeOK
<1> DEFINE Program == program \in {"dns", "watch", "sweep", "export", "sentinel", "bridge"}
<1>1. HostInit => Program
  BY DEF HostInit
<1>2. Program /\ [HostNext]_hostVars => Program'
  BY DEF HostNext, Resolves, Watches, Sweeps, Exports, Guards, Bridges, hostVars
<1>3. /\ Program
      /\ DnsTypeOK /\ Watch!WatchTypeOK /\ Lan!SweepTypeOK /\ Export!ExportTypeOK /\ Network!SentinelTypeOK /\ Usb!BridgeTypeOK
      => HostTypeOK
  BY DEF HostTypeOK
<1>4. HostSpec => []Program
  <2> HIDE DEF Program
  <2> QED BY <1>1, <1>2, PTL DEF HostSpec
<1> HIDE DEF Program
<1> QED
  BY <1>3, <1>4, PartsRun, DnsTypes, WatchTypes, SweepTypes, ExportTypes, SentinelTypes, BridgeTypes, PTL

=============================================================================
