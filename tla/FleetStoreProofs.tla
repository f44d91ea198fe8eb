--------------------------- MODULE FleetStoreProofs ---------------------------
(***************************************************************************)
(* Proofs about the registry and the store of the fleet host, for any      *)
(* boards, sizes of the queue and the batch, numbers of readings, and      *)
(* whatever of the events happens.                                         *)
(***************************************************************************)
EXTENDS FleetStore, SequenceTheorems, FiniteSetTheorems, WellFoundedInduction, TLAPS

-----------------------------------------------------------------------------
(* What forget_device() keeps of the queue.                                *)

\* Among some numbers there is a least one.
LEMMA Least ==
    ASSUME NEW T \in SUBSET Nat, T # {}
    PROVE  \E m \in T : \A k \in T : m <= k
<1>1. IsWellFoundedOn(OpToRel(<, Nat), Nat)
  BY NatLessThanWellFounded
<1>2. \E m \in T : \A k \in T : ~ (<<k, m>> \in OpToRel(<, Nat))
  BY <1>1, WFMin
<1>3. \A k, m \in Nat : <<k, m>> \notin OpToRel(<, Nat) => m <= k
  BY DEF OpToRel
<1> QED BY <1>2, <1>3

\* One reading after the other: the recursion is well defined.
OneMore(g, q, d, k) ==
    IF k = 0 THEN <<>>
    ELSE IF q[k].dev = d THEN g[k - 1] ELSE Append(g[k - 1], q[k])

LEMMA SieveExists ==
    ASSUME NEW q \in Seq(Reading), NEW d
    PROVE  \E g \in [0..Len(q) -> Seq(Reading)] : \A k \in 0..Len(q) : g[k] = OneMore(g, q, d, k)
<1> DEFINE Fits(n) == \E g \in [0..n -> Seq(Reading)] : \A k \in 0..n : g[k] = OneMore(g, q, d, k)
           Bad == {n \in 0..Len(q) : ~ Fits(n)}
<1>0. Len(q) \in Nat /\ \A k \in 1..Len(q) : q[k] \in Reading
  BY LenProperties
<1>1. Fits(0)
  <2> DEFINE g == [k \in 0..0 |-> <<>>]
  <2>1. g \in [0..0 -> Seq(Reading)]
    BY EmptySeq
  <2>2. \A k \in 0..0 : g[k] = OneMore(g, q, d, k)
    BY DEF OneMore
  <2> QED BY <2>1, <2>2
<1>2. ASSUME NEW m \in 1..Len(q), Fits(m - 1) PROVE Fits(m)
  <2>1. PICK g \in [0..(m - 1) -> Seq(Reading)] : \A k \in 0..(m - 1) : g[k] = OneMore(g, q, d, k)
    BY <1>2
  <2> DEFINE new == IF q[m].dev = d THEN g[m - 1] ELSE Append(g[m - 1], q[m])
             h == [k \in 0..m |-> IF k = m THEN new ELSE g[k]]
  <2>2. m \in Nat /\ m - 1 \in 0..(m - 1) /\ m # 0 /\ \A k \in 0..m : k # m => k \in 0..(m - 1)
    BY <1>0
  <2>3. g[m - 1] \in Seq(Reading) /\ q[m] \in Reading
    BY <1>0, <2>2
  <2>4. new \in Seq(Reading)
    <3>1. Append(g[m - 1], q[m]) \in Seq(Reading)
      BY <2>3, AppendProperties
    <3> QED BY <2>3, <3>1
  <2>5. new = OneMore(g, q, d, m)
    BY <2>2 DEF OneMore
  <2> HIDE DEF new
  <2>6. h \in [0..m -> Seq(Reading)]
    BY <2>2, <2>4
  <2>7. ASSUME NEW k \in 0..m PROVE h[k] = OneMore(h, q, d, k)
    <3>1. k # 0 => k - 1 \in 0..m /\ k - 1 # m /\ h[k - 1] = g[k - 1]
      BY <2>2
    <3>2. OneMore(h, q, d, k) = OneMore(g, q, d, k)
      BY <3>1 DEF OneMore
    <3>3. h[k] = IF k = m THEN new ELSE g[k]
      OBVIOUS
    <3> HIDE DEF h
    <3> QED BY <2>1, <2>2, <2>5, <3>2, <3>3
  <2> HIDE DEF h
  <2> QED BY <2>6, <2>7
<1> HIDE DEF Fits
<1>3. Bad = {}
  <2> SUFFICES ASSUME Bad # {} PROVE FALSE
    OBVIOUS
  <2>1. Bad \in SUBSET Nat
    BY <1>0
  <2>2. PICK m \in Bad : \A k \in Bad : m <= k
    BY <2>1, Least
  <2>3. m \in 0..Len(q) /\ ~ Fits(m) /\ m # 0
    BY <1>1, <2>2
  <2>4. m - 1 \in 0..Len(q) /\ ~ (m <= m - 1) /\ m \in 1..Len(q)
    BY <1>0, <2>3
  <2>5. Fits(m - 1)
    BY <2>2, <2>4
  <2> QED BY <1>2, <2>3, <2>4, <2>5
<1>4. Fits(Len(q))
  BY <1>0, <1>3
<1> QED BY <1>4 DEF Fits

LEMMA SieveIs ==
    ASSUME NEW q \in Seq(Reading), NEW d
    PROVE  Sieved(q, d) = [k \in 0..Len(q) |-> OneMore(Sieved(q, d), q, d, k)]
<1>1. \E g : g = [k \in 0..Len(q) |-> OneMore(g, q, d, k)]
  <2>1. PICK g \in [0..Len(q) -> Seq(Reading)] : \A k \in 0..Len(q) : g[k] = OneMore(g, q, d, k)
    BY SieveExists
  <2>2. g = [k \in 0..Len(q) |-> OneMore(g, q, d, k)]
    BY <2>1
  <2> QED BY <2>2
<1> QED BY <1>1, Zenon DEF Sieved, OneMore

\* The readings of a queue are in the order of their arrival.
Increasing(q) == \A i, j \in 1..Len(q) : i < j => q[i].n < q[j].n

\* What is kept of the first k readings.
Kept1(s, q, d, k) ==
    /\ s \in Seq(Reading) /\ Len(s) <= k /\ Increasing(s)
    /\ \A j \in 1..Len(s) : \E i \in 1..k : s[j] = q[i] /\ q[i].dev # d
    /\ \A i \in 1..k : q[i].dev # d => \E j \in 1..Len(s) : s[j] = q[i]

LEMMA SieveStep ==
    ASSUME NEW q \in Seq(Reading), Increasing(q), NEW d, NEW m \in 1..Len(q),
           NEW s, Kept1(s, q, d, m - 1)
    PROVE  Kept1(IF q[m].dev = d THEN s ELSE Append(s, q[m]), q, d, m)
<1>0. /\ Len(q) \in Nat /\ m \in Nat /\ q[m] \in Reading /\ \A i \in 1..Len(q) : q[i].n \in Nat
      /\ s \in Seq(Reading) /\ Len(s) \in Nat /\ Len(s) <= m - 1
      /\ \A i \in 1..m : i = m \/ i \in 1..(m - 1)
      /\ \A i \in 1..(m - 1) : i \in 1..m /\ i \in 1..Len(q) /\ i < m
  <2>1. Len(q) \in Nat /\ q \in [1..Len(q) -> Reading]
    BY LenProperties
  <2>2. \A i \in 1..Len(q) : q[i] \in Reading /\ q[i].n \in Nat
    BY <2>1 DEF Reading
  <2>3. s \in Seq(Reading) /\ Len(s) \in Nat /\ Len(s) <= m - 1
    BY LenProperties DEF Kept1
  <2> QED BY <2>1, <2>2, <2>3
<1>1. CASE q[m].dev = d
  <2>1. Len(s) <= m
    BY <1>0
  <2> QED BY <1>0, <1>1, <2>1 DEF Kept1
<1>2. CASE q[m].dev # d
  <2> DEFINE t == Append(s, q[m])
  <2>1. /\ t \in Seq(Reading) /\ Len(t) = Len(s) + 1 /\ t[Len(s) + 1] = q[m]
        /\ \A j \in 1..Len(s) : t[j] = s[j]
    BY <1>0, AppendProperties
  <2>2. Len(t) <= m /\ \A j \in 1..Len(t) : j = Len(s) + 1 \/ j \in 1..Len(s)
    BY <1>0, <2>1
  <2>3. Len(s) + 1 \in 1..Len(t) /\ \A j \in 1..Len(s) : j \in 1..Len(t)
    BY <1>0, <2>1
  <2> HIDE DEF t
  <2>4. \A j \in 1..Len(s) : \E i \in 1..(m - 1) : s[j] = q[i] /\ q[i].dev # d
    BY DEF Kept1
  <2>5. Increasing(t)
    <3> SUFFICES ASSUME NEW i \in 1..Len(t), NEW j \in 1..Len(t), i < j PROVE t[i].n < t[j].n
      BY DEF Increasing
    <3>1. i \in 1..Len(s)
      BY <1>0, <2>2
    <3>2. CASE j \in 1..Len(s)
      BY <2>1, <3>1, <3>2 DEF Kept1, Increasing
    <3>3. CASE j = Len(s) + 1
      <4>1. PICK l \in 1..(m - 1) : s[i] = q[l]
        BY <2>4, <3>1
      <4>2. q[l].n < q[m].n
        BY <1>0 DEF Increasing
      <4> QED BY <2>1, <3>1, <3>3, <4>1, <4>2
    <3> QED BY <2>2, <3>2, <3>3
  <2>6. \A j \in 1..Len(t) : \E i \in 1..m : t[j] = q[i] /\ q[i].dev # d
    <3> TAKE j \in 1..Len(t)
    <3>1. CASE j \in 1..Len(s)
      BY <1>0, <2>1, <2>4, <3>1
    <3>2. CASE j = Len(s) + 1
      <4>1. m \in 1..m
        BY <1>0
      <4> QED BY <1>2, <2>1, <3>2, <4>1
    <3> QED BY <2>2, <3>1, <3>2
  <2>7. \A i \in 1..m : q[i].dev # d => \E j \in 1..Len(t) : t[j] = q[i]
    <3> SUFFICES ASSUME NEW i \in 1..m, q[i].dev # d PROVE \E j \in 1..Len(t) : t[j] = q[i]
      OBVIOUS
    <3>1. CASE i = m
      BY <2>1, <2>3, <3>1
    <3>2. CASE i \in 1..(m - 1)
      <4>1. PICK j \in 1..Len(s) : s[j] = q[i]
        BY <3>2 DEF Kept1
      <4> QED BY <2>1, <2>3, <4>1
    <3> QED BY <1>0, <3>1, <3>2
  <2> QED BY <1>2, <2>1, <2>2, <2>5, <2>6, <2>7 DEF Kept1, t
<1> QED BY <1>1, <1>2

\* The readings of other boards stay, in their order; no others do.
LEMMA SieveKeeps ==
    ASSUME NEW q \in Seq(Reading), Increasing(q), NEW d
    PROVE  Kept1(Sieved(q, d)[Len(q)], q, d, Len(q))
<1> DEFINE F == Sieved(q, d)
           Bad == {k \in 0..Len(q) : ~ Kept1(F[k], q, d, k)}
<1>0. Len(q) \in Nat
  BY LenProperties
<1>1. \A k \in 0..Len(q) : F[k] = IF k = 0 THEN <<>> ELSE IF q[k].dev = d THEN F[k - 1] ELSE Append(F[k - 1], q[k])
  <2>1. F = [k \in 0..Len(q) |-> OneMore(F, q, d, k)]
    BY SieveIs
  <2> HIDE DEF F
  <2>2. \A k \in 0..Len(q) : F[k] = OneMore(F, q, d, k)
    BY <2>1
  <2> QED BY <2>2 DEF OneMore
<1> HIDE DEF F
<1>2. Kept1(F[0], q, d, 0)
  <2>1. F[0] = <<>> /\ <<>> \in Seq(Reading) /\ Len(<<>>) = 0
    BY <1>0, <1>1, EmptySeq
  <2> QED BY <2>1 DEF Kept1, Increasing
<1>3. ASSUME NEW m \in 1..Len(q), Kept1(F[m - 1], q, d, m - 1) PROVE Kept1(F[m], q, d, m)
  <2>1. F[m] = IF q[m].dev = d THEN F[m - 1] ELSE Append(F[m - 1], q[m])
    BY <1>0, <1>1
  <2> QED BY <1>3, <2>1, SieveStep
<1>4. Bad = {}
  <2> SUFFICES ASSUME Bad # {} PROVE FALSE
    OBVIOUS
  <2>1. Bad \in SUBSET Nat
    BY <1>0
  <2>2. PICK m \in Bad : \A k \in Bad : m <= k
    BY <2>1, Least
  <2>3. m \in 0..Len(q) /\ ~ Kept1(F[m], q, d, m) /\ m # 0
    BY <1>2, <2>2
  <2>4. m - 1 \in 0..Len(q) /\ ~ (m <= m - 1) /\ m \in 1..Len(q)
    BY <1>0, <2>3
  <2>5. Kept1(F[m - 1], q, d, m - 1)
    BY <2>2, <2>4
  <2> QED BY <1>3, <2>3, <2>4, <2>5
<1> QED BY <1>0, <1>4 DEF F

-----------------------------------------------------------------------------
(* The inductive invariant.                                                *)

\* Reading r is the one that arrived with its number.
Arrived(r) == r.n \in 1..Len(history) /\ history[r.n] = r

\* Whatever is queued, taken or stored has arrived.
AllArrived ==
    /\ Len(history) <= MaxReadings
    /\ \A n \in 1..Len(history) : history[n].n = n
    /\ \A k \in 1..Len(queue) : Arrived(queue[k])
    /\ \A k \in 1..Len(writer.batch) : Arrived(writer.batch[k])
    /\ \A r \in db.telemetry \union saved.telemetry : Arrived(r)

\* The writer works on older readings than those in the queue.
InOrder ==
    /\ Increasing(queue)
    /\ \A i \in 1..Len(writer.batch), j \in 1..Len(queue) : writer.batch[i].n < queue[j].n

\* What is still to be written.
ToWrite == IF writer.pc \in {"collect", "insert"} THEN Numbers(writer.batch) ELSE {}

NotYetStored == \A r \in db.telemetry : r.n \notin Numbers(queue) \union ToWrite

NoneLost ==
    \A n \in 1..Len(history) : n \in excused \/ n \in Numbers(queue) \union ToWrite \/ history[n] \in db.telemetry

\* Where the writer is.
WriterStory ==
    /\ writer.pc \in {"collect", "insert", "done"} => writer.i = 1 
    /\ writer.pc = "eval" => writer.i \in 1..(Len(writer.batch) + 1)
    /\ writer.pc \in {"raise", "raised", "cleared"} => writer.i \in 1..Len(writer.batch)
    /\ writer.live => writer.pc \in {"raise", "raised", "cleared"} /\ Current.dev \in known
    /\ writer.pc = "done" => writer.batch = <<>> /\ phase = "stopping" /\ Numbers(queue) \subseteq excused

\* What ends with the process.
PhaseStory ==
    /\ phase # "up" => forget.pc = "idle"
    /\ phase = "down" => writer = WriterIdle /\ queue = <<>> /\ known = {} /\ db = saved

\* No two open alerts, and none that the writer is about to open.
AtMostOneOpen(alerts) == \A a, b \in alerts : a.open /\ b.open /\ a.dev = b.dev => a = b
AlertsSingle ==
    /\ AtMostOneOpen(db.alerts) /\ AtMostOneOpen(saved.alerts)
    /\ writer.pc = "raise" => ~ HasOpenAlert(db, Current.dev)

\* How far the deletion of a board has come.
Clean(t, d) == t.devices[d] = 0 /\ Of(t.telemetry, d) = {} /\ Of(t.alerts, d) = {} /\ d \notin t.commands
Forgetting(d) == forget.pc # "idle" /\ forget.dev = d
PurgeStory ==
    \A d \in Boards : gone[d] = "clean" =>
        /\ \A k \in 1..Len(queue) : queue[k].dev # d
        /\ \A k \in 1..Len(writer.batch) : writer.batch[k].dev # d
        /\ ~ Forgetting(d) => Clean(db, d) /\ Clean(saved, d)
        /\ Forgetting(d) =>
            /\ Of(db.telemetry, d) = {}
            /\ forget.pc # "alerts" => Of(db.alerts, d) = {}
            /\ forget.pc \in {"devices", "commit"} => d \notin db.commands
            /\ forget.pc = "commit" => db.devices[d] = 0

StoreInv ==
    /\ FleetTypeOK /\ AllArrived /\ InOrder /\ NotYetStored /\ NoneLost
    /\ WriterStory /\ PhaseStory /\ AlertsSingle /\ PurgeStory

\* What is idle, or empty, is of its type.
LEMMA IdleTypes ==
    /\ WriterIdle \in WriterState /\ WriterIdle.pc = "collect" /\ WriterIdle.batch = <<>> /\ WriterIdle.i = 1
    /\ WriterIdle.live = FALSE
    /\ [WriterIdle EXCEPT !.pc = "done"] \in WriterState
    /\ [WriterIdle EXCEPT !.pc = "done"].pc = "done" /\ [WriterIdle EXCEPT !.pc = "done"].batch = <<>>
    /\ [WriterIdle EXCEPT !.pc = "done"].i = 1 /\ [WriterIdle EXCEPT !.pc = "done"].live = FALSE
    /\ ForgetIdle.pc = "idle" /\ ForgetIdle.dev \in Boards
    /\ ForgetIdle \in [pc : {"idle", "alerts", "commands", "devices", "commit"}, dev : Boards]
    /\ NoRows \in Tables
    /\ <<>> \in Seq(Reading) /\ Len(<<>>) = 0
<1>1. <<>> \in Seq(Reading) /\ Len(<<>>) = 0
  BY EmptySeq
<1>2. WriterIdle \in WriterState /\ WriterIdle.pc = "collect" /\ WriterIdle.batch = <<>> /\ WriterIdle.i = 1
      /\ WriterIdle.live = FALSE
  BY <1>1 DEF WriterIdle, WriterState
<1>3. /\ [WriterIdle EXCEPT !.pc = "done"] \in WriterState
      /\ [WriterIdle EXCEPT !.pc = "done"].pc = "done" /\ [WriterIdle EXCEPT !.pc = "done"].batch = <<>>
      /\ [WriterIdle EXCEPT !.pc = "done"].i = 1 /\ [WriterIdle EXCEPT !.pc = "done"].live = FALSE
  BY <1>1 DEF WriterIdle, WriterState
<1>4. ForgetIdle.pc = "idle" /\ ForgetIdle.dev \in Boards
      /\ ForgetIdle \in [pc : {"idle", "alerts", "commands", "devices", "commit"}, dev : Boards]
  <2>1. (CHOOSE d \in Boards : TRUE) \in Boards
    BY FleetAssumption
  <2> QED BY <2>1 DEF ForgetIdle
<1>5. NoRows \in Tables
  BY DEF NoRows, Tables
<1> QED BY <1>1, <1>2, <1>3, <1>4, <1>5

\* The parts of the state in use.
LEMMA Parts ==
    ASSUME FleetTypeOK
    PROVE  /\ writer.pc \in {"collect", "insert", "eval", "raise", "raised", "cleared", "done"}
           /\ writer.batch \in Seq(Reading) /\ writer.i \in Nat /\ writer.live \in BOOLEAN
           /\ Len(writer.batch) \in Nat /\ \A k \in 1..Len(writer.batch) : writer.batch[k] \in Reading
           /\ queue \in Seq(Reading) /\ Len(queue) \in Nat /\ \A k \in 1..Len(queue) : queue[k] \in Reading
           /\ history \in Seq(Reading) /\ Len(history) \in Nat /\ \A k \in 1..Len(history) : history[k] \in Reading
           /\ \A t \in {db, saved} : /\ t \in Tables /\ t.telemetry \subseteq Reading /\ t.alerts \subseteq AlertRow
                                     /\ t.commands \subseteq Boards /\ t.devices \in [Boards -> Nat]
           /\ \A r \in Reading : r.n \in Nat /\ r.dev \in Boards
<1>1. /\ writer \in WriterState /\ queue \in Seq(Reading) /\ history \in Seq(Reading)
      /\ db \in Tables /\ saved \in Tables
  BY DEF FleetTypeOK
<1>2. /\ writer.pc \in {"collect", "insert", "eval", "raise", "raised", "cleared", "done"}
      /\ writer.batch \in Seq(Reading) /\ writer.i \in Nat /\ writer.live \in BOOLEAN
  BY <1>1 DEF WriterState
<1>3. ASSUME NEW q \in Seq(Reading) PROVE Len(q) \in Nat /\ \A k \in 1..Len(q) : q[k] \in Reading
  BY LenProperties
<1>4. \A t \in {db, saved} : /\ t \in Tables /\ t.telemetry \subseteq Reading /\ t.alerts \subseteq AlertRow
                              /\ t.commands \subseteq Boards /\ t.devices \in [Boards -> Nat]
  BY <1>1 DEF Tables
<1>5. \A r \in Reading : r.n \in Nat /\ r.dev \in Boards
  BY DEF Reading
<1> QED BY <1>1, <1>2, <1>3, <1>4, <1>5

\* What the steps of the writer make of its locals.
LEMMA WriterFields ==
    ASSUME FleetTypeOK
    PROVE  /\ WriterTake => /\ writer' \in WriterState /\ writer'.pc = writer.pc /\ writer'.i = writer.i /\ writer'.live = writer.live
                            /\ writer'.batch = Append(writer.batch, Head(queue))
           /\ WriterUpsert => /\ writer' \in WriterState /\ writer'.pc = "insert" /\ writer'.i = writer.i /\ writer'.live = writer.live
                              /\ writer'.batch = writer.batch
           /\ WriterInsert => /\ writer' \in WriterState /\ writer'.pc = "eval" /\ writer'.i = writer.i /\ writer'.live = writer.live
                              /\ writer'.batch = writer.batch
           /\ WriterSkip => /\ writer' \in WriterState /\ writer'.pc = writer.pc /\ writer'.i = writer.i + 1
                            /\ writer'.live = writer.live /\ writer'.batch = writer.batch
           /\ WriterRaiseSelect => /\ writer' \in WriterState /\ writer'.i = writer.i /\ writer'.batch = writer.batch
                                   /\ writer'.pc = IF HasOpenAlert(db, Current.dev) THEN "raised" ELSE "raise"
                                   /\ writer'.live = (Current.dev \in known)
           /\ WriterRaiseInsert => /\ writer' \in WriterState /\ writer'.pc = "raised" /\ writer'.i = writer.i
                                   /\ writer'.live = writer.live /\ writer'.batch = writer.batch
           /\ WriterClear => /\ writer' \in WriterState /\ writer'.pc = "cleared" /\ writer'.i = writer.i
                             /\ writer'.live = TRUE /\ writer'.batch = writer.batch
           /\ WriterMark => /\ writer' \in WriterState /\ writer'.pc = "eval" /\ writer'.i = writer.i + 1
                            /\ writer'.live = FALSE /\ writer'.batch = writer.batch
           /\ WriterCommit \/ WriterFails => writer' = WriterIdle
<1>0. writer \in WriterState /\ writer.i + 1 \in Nat
  BY Parts DEF FleetTypeOK
<1> DEFINE Fields(p, b, i, l) == /\ writer' \in WriterState /\ writer'.pc = p /\ writer'.i = i /\ writer'.live = l
                                 /\ writer'.batch = b
<1>1. ASSUME WriterTake PROVE Fields(writer.pc, Append(writer.batch, Head(queue)), writer.i, writer.live)
  <2>1. queue # <<>> /\ writer' = [writer EXCEPT !.batch = Append(writer.batch, Head(queue))]
    BY <1>1 DEF WriterTake
  <2>2. Append(writer.batch, Head(queue)) \in Seq(Reading)
    <3>1. Head(queue) \in Reading
      BY <2>1, Parts, HeadTailProperties
    <3> QED BY <3>1, Parts, AppendProperties
  <2> HIDE DEF Reading
  <2> QED BY <1>0, <2>1, <2>2 DEF WriterState
<1>2. WriterUpsert => Fields("insert", writer.batch, writer.i, writer.live)
  BY <1>0 DEF WriterUpsert, WriterState
<1>3. WriterInsert => Fields("eval", writer.batch, writer.i, writer.live)
  BY <1>0 DEF WriterInsert, WriterState
<1>4. WriterSkip => Fields(writer.pc, writer.batch, writer.i + 1, writer.live)
  <2> SUFFICES ASSUME WriterSkip PROVE Fields(writer.pc, writer.batch, writer.i + 1, writer.live)
    OBVIOUS
  <2>1. writer' = [writer EXCEPT !.i = writer.i + 1]
    BY DEF WriterSkip
  <2> QED BY <1>0, <2>1 DEF WriterState
<1>5. ASSUME WriterRaiseSelect
      PROVE  Fields(IF HasOpenAlert(db, Current.dev) THEN "raised" ELSE "raise", writer.batch, writer.i, Current.dev \in known)
  <2> DEFINE p == IF HasOpenAlert(db, Current.dev) THEN "raised" ELSE "raise"
             l == Current.dev \in known
  <2>1. writer' = [writer EXCEPT !.pc = p, !.live = l] /\ p \in {"raised", "raise"} /\ l \in BOOLEAN
    BY <1>5 DEF WriterRaiseSelect
  <2> HIDE DEF p, l
  <2>2. Fields(p, writer.batch, writer.i, l)
    BY <1>0, <2>1 DEF WriterState
  <2> QED BY <2>2 DEF p, l
<1>6. WriterRaiseInsert => Fields("raised", writer.batch, writer.i, writer.live)
  BY <1>0 DEF WriterRaiseInsert, WriterState
<1>7. WriterClear => Fields("cleared", writer.batch, writer.i, TRUE)
  BY <1>0 DEF WriterClear, WriterState
<1>8. WriterMark => Fields("eval", writer.batch, writer.i + 1, FALSE)
  <2> SUFFICES ASSUME WriterMark PROVE Fields("eval", writer.batch, writer.i + 1, FALSE)
    OBVIOUS
  <2>1. writer' = [writer EXCEPT !.pc = "eval", !.i = writer.i + 1, !.live = FALSE]
    BY DEF WriterMark
  <2> QED BY <1>0, <2>1 DEF WriterState
<1>9. WriterCommit \/ WriterFails => writer' = WriterIdle
  BY DEF WriterCommit, WriterFails
<1> QED BY <1>1, <1>2, <1>3, <1>4, <1>5, <1>6, <1>7, <1>8, <1>9

\* What the steps make of the tables.
Same(t, u, parts) ==
    /\ "devices" \in parts => t.devices = u.devices
    /\ "telemetry" \in parts => t.telemetry = u.telemetry
    /\ "alerts" \in parts => t.alerts = u.alerts
    /\ "commands" \in parts => t.commands = u.commands

LEMMA TableFields ==
    ASSUME FleetTypeOK
    PROVE  /\ \A boards \in SUBSET Boards :
                /\ Same(Upserted(boards), db, {"telemetry", "alerts", "commands"})
                /\ \A d \in Boards : Upserted(boards).devices[d] =
                      IF d \in boards THEN db.devices[d] + Counted(writer.batch, d) ELSE db.devices[d]
           /\ \A k \in 0..Len(writer.batch) :
                /\ Same(Inserted(k), db, {"devices", "alerts", "commands"})
                /\ Inserted(k).telemetry = db.telemetry \union {writer.batch[j] : j \in 1..k}
           /\ WriterRaiseInsert => /\ Same(db', db, {"devices", "telemetry", "commands"})
                                   /\ db'.alerts = db.alerts \union {[dev |-> Current.dev, n |-> Current.n, open |-> TRUE]}
           /\ WriterClear => /\ Same(db', db, {"devices", "telemetry", "commands"})
                             /\ db'.alerts = {IF a.dev = Current.dev THEN [a EXCEPT !.open = FALSE] ELSE a : a \in db.alerts}
           /\ \A d \in Boards : ForgetStart(d) => /\ Same(db', db, {"devices", "alerts", "commands"})
                                                  /\ db'.telemetry = db.telemetry \ Of(db.telemetry, d)
           /\ \A d \in Boards : Command(d) => /\ Same(db', db, {"devices", "telemetry", "alerts"})
                                              /\ db'.commands = db.commands \union {d}
           /\ Prune => \E newest \in db.telemetry :
                /\ Same(db', db, {"devices", "alerts", "commands"})
                /\ db'.telemetry = db.telemetry \ Old(newest.n)
                /\ excused' = excused \union {r.n : r \in Old(newest.n)}
<1>0. db \in Tables /\ writer.batch \in Seq(Reading) /\ Len(writer.batch) \in Nat
  BY Parts DEF FleetTypeOK
<1>1. ASSUME NEW boards \in SUBSET Boards
      PROVE  /\ Same(Upserted(boards), db, {"telemetry", "alerts", "commands"})
             /\ \A d \in Boards : Upserted(boards).devices[d] =
                   IF d \in boards THEN db.devices[d] + Counted(writer.batch, d) ELSE db.devices[d]
  BY <1>0 DEF Upserted, Same, Tables
<1>2. ASSUME NEW k \in 0..Len(writer.batch)
      PROVE  /\ Same(Inserted(k), db, {"devices", "alerts", "commands"})
             /\ Inserted(k).telemetry = db.telemetry \union {writer.batch[j] : j \in 1..k}
  <2>1. ToSet(SubSeq(writer.batch, 1, k)) = {writer.batch[j] : j \in 1..k}
    <3>0. \A i \in 1..k : writer.batch[i] \in Reading
      BY <1>0, Parts
    <3> DEFINE s == SubSeq(writer.batch, 1, k)
    <3>1. /\ s \in Seq(Reading) /\ Len(s) = IF 1 <= k THEN k - 1 + 1 ELSE 0
          /\ \A i \in 1..(k - 1 + 1) : s[i] = writer.batch[1 + i - 1]
      BY <1>0, <3>0, SubSeqProperties
    <3>2. DOMAIN s = 1..Len(s)
      BY <3>1, LenProperties
    <3>3. Len(s) = k /\ k - 1 + 1 = k
      BY <1>0, <3>1
    <3>4. \A i \in 1..k : s[i] = writer.batch[i]
      BY <1>0, <3>1, <3>3
    <3> HIDE DEF s
    <3>5. ToSet(s) = {writer.batch[j] : j \in 1..k}
      BY <3>2, <3>3, <3>4 DEF ToSet
    <3> QED BY <3>5 DEF s
  <2> QED BY <1>0, <2>1 DEF Inserted, Same, Tables
<1>3. WriterRaiseInsert => /\ Same(db', db, {"devices", "telemetry", "commands"})
                           /\ db'.alerts = db.alerts \union {[dev |-> Current.dev, n |-> Current.n, open |-> TRUE]}
  <2> DEFINE new == [dev |-> Current.dev, n |-> Current.n, open |-> TRUE]
  <2>1. WriterRaiseInsert => db' = [db EXCEPT !.alerts = db.alerts \union {new}]
    BY DEF WriterRaiseInsert
  <2> HIDE DEF new
  <2>2. WriterRaiseInsert => Same(db', db, {"devices", "telemetry", "commands"}) /\ db'.alerts = db.alerts \union {new}
    BY <1>0, <2>1 DEF Same, Tables
  <2> QED BY <2>2 DEF new
<1>4. WriterClear => /\ Same(db', db, {"devices", "telemetry", "commands"})
                     /\ db'.alerts = {IF a.dev = Current.dev THEN [a EXCEPT !.open = FALSE] ELSE a : a \in db.alerts}
  <2> DEFINE all == {IF a.dev = Current.dev THEN [a EXCEPT !.open = FALSE] ELSE a : a \in db.alerts}
  <2>1. WriterClear => db' = [db EXCEPT !.alerts = all]
    BY DEF WriterClear
  <2> HIDE DEF all
  <2>2. WriterClear => Same(db', db, {"devices", "telemetry", "commands"}) /\ db'.alerts = all
    BY <1>0, <2>1 DEF Same, Tables
  <2> QED BY <2>2 DEF all
<1>5. ASSUME NEW d \in Boards, ForgetStart(d)
      PROVE  Same(db', db, {"devices", "alerts", "commands"}) /\ db'.telemetry = db.telemetry \ Of(db.telemetry, d)
  <2> DEFINE rest == db.telemetry \ Of(db.telemetry, d)
  <2>1. db' = [db EXCEPT !.telemetry = rest]
    BY <1>5 DEF ForgetStart
  <2> HIDE DEF rest
  <2>2. Same(db', db, {"devices", "alerts", "commands"}) /\ db'.telemetry = rest
    BY <1>0, <2>1 DEF Same, Tables
  <2> QED BY <2>2 DEF rest
<1>6. ASSUME NEW d \in Boards, Command(d)
      PROVE  Same(db', db, {"devices", "telemetry", "alerts"}) /\ db'.commands = db.commands \union {d}
  BY <1>0, <1>6 DEF Command, Same, Tables
<1>7. ASSUME Prune
      PROVE  \E newest \in db.telemetry : /\ Same(db', db, {"devices", "alerts", "commands"})
                                          /\ db'.telemetry = db.telemetry \ Old(newest.n)
                                          /\ excused' = excused \union {r.n : r \in Old(newest.n)}
  <2>1. PICK newest \in db.telemetry : /\ db' = [db EXCEPT !.telemetry = db.telemetry \ Old(newest.n)]
                                       /\ excused' = excused \union {r.n : r \in Old(newest.n)}
    BY <1>7 DEF Prune
  <2> DEFINE rest == db.telemetry \ Old(newest.n)
  <2> HIDE DEF rest
  <2>2. Same(db', db, {"devices", "alerts", "commands"}) /\ db'.telemetry = rest
    BY <1>0, <2>1 DEF Same, Tables, rest
  <2> QED BY <2>1, <2>2 DEF rest
<1> QED BY <1>1, <1>2, <1>3, <1>4, <1>5, <1>6, <1>7

\* The rest of the deletion, one table after the other.
LEMMA DeleteFields ==
    ASSUME FleetTypeOK, ForgetDelete
    PROVE  /\ db' \in Tables /\ Same(db', db, {"telemetry"}) /\ forget'.dev = forget.dev /\ forget.dev \in Boards
           /\ forget' \in [pc : {"idle", "alerts", "commands", "devices", "commit"}, dev : Boards]
           /\ forget.pc \in {"alerts", "commands", "devices"}
           /\ forget.pc = "alerts" => /\ forget'.pc = "commands" /\ Same(db', db, {"devices", "commands"})
                                      /\ db'.alerts = db.alerts \ Of(db.alerts, forget.dev)
           /\ forget.pc = "commands" => /\ forget'.pc = "devices" /\ Same(db', db, {"devices", "alerts"})
                                        /\ db'.commands = db.commands \ {forget.dev}
           /\ forget.pc = "devices" => /\ forget'.pc = "commit" /\ Same(db', db, {"alerts", "commands"})
                                       /\ db'.devices[forget.dev] = 0
                                       /\ \A d \in Boards : d # forget.dev => db'.devices[d] = db.devices[d]
<1>0. db \in Tables /\ forget \in [pc : {"idle", "alerts", "commands", "devices", "commit"}, dev : Boards]
  BY DEF FleetTypeOK
<1>1. CASE forget.pc = "alerts"
  <2> DEFINE rest == db.alerts \ Of(db.alerts, forget.dev)
  <2>1. db' = [db EXCEPT !.alerts = rest] /\ forget' = [forget EXCEPT !.pc = "commands"]
    BY <1>1 DEF ForgetDelete
  <2>2. rest \subseteq db.alerts
    OBVIOUS
  <2> HIDE DEF rest
  <2>3. db' \in Tables /\ Same(db', db, {"telemetry", "devices", "commands"}) /\ db'.alerts = rest
    BY <1>0, <2>1, <2>2 DEF Tables, Same
  <2>4. forget'.pc = "commands" /\ forget'.dev = forget.dev /\ forget.dev \in Boards
        /\ forget' \in [pc : {"idle", "alerts", "commands", "devices", "commit"}, dev : Boards]
    BY <1>0, <2>1
  <2> QED BY <1>1, <2>3, <2>4 DEF Same, rest
<1>2. CASE forget.pc = "commands"
  <2>1. db' = [db EXCEPT !.commands = db.commands \ {forget.dev}] /\ forget' = [forget EXCEPT !.pc = "devices"]
    BY <1>2 DEF ForgetDelete
  <2>3. db' \in Tables /\ Same(db', db, {"telemetry", "devices", "alerts"}) /\ db'.commands = db.commands \ {forget.dev}
    BY <1>0, <2>1 DEF Tables, Same
  <2>4. forget'.pc = "devices" /\ forget'.dev = forget.dev /\ forget.dev \in Boards
        /\ forget' \in [pc : {"idle", "alerts", "commands", "devices", "commit"}, dev : Boards]
    BY <1>0, <2>1
  <2> QED BY <1>2, <2>3, <2>4 DEF Same
<1>3. CASE forget.pc = "devices"
  <2>1. db' = [db EXCEPT !.devices[forget.dev] = 0] /\ forget' = [forget EXCEPT !.pc = "commit"]
    BY <1>3 DEF ForgetDelete
  <2>2. forget'.pc = "commit" /\ forget'.dev = forget.dev /\ forget.dev \in Boards
        /\ forget' \in [pc : {"idle", "alerts", "commands", "devices", "commit"}, dev : Boards]
    BY <1>0, <2>1
  <2>3. db.devices \in [Boards -> Nat] /\ db' = [db EXCEPT !.devices = [db.devices EXCEPT ![forget.dev] = 0]]
    BY <1>0, <2>1 DEF Tables
  <2>4. [db.devices EXCEPT ![forget.dev] = 0] \in [Boards -> Nat]
    BY <2>2, <2>3
  <2>5. db' \in Tables /\ Same(db', db, {"telemetry", "commands", "alerts"})
        /\ db'.devices = [db.devices EXCEPT ![forget.dev] = 0]
    BY <1>0, <2>3, <2>4 DEF Tables, Same
  <2> QED BY <1>3, <2>2, <2>3, <2>5 DEF Same
<1> QED BY <1>1, <1>2, <1>3 DEF ForgetDelete

-----------------------------------------------------------------------------
(* Every step keeps the types.                                             *)

\* The readings in the queue and in the batch have numbers that were given.
LEMMA NumbersGiven ==
    ASSUME FleetTypeOK, AllArrived
    PROVE  /\ Numbers(queue) \subseteq 1..Len(history) /\ Numbers(writer.batch) \subseteq 1..Len(history)
           /\ \A r \in db.telemetry \union saved.telemetry : r.n \in 1..Len(history)
BY DEF AllArrived, Arrived, Numbers

\* Ingest.
LEMMA IngestTypes ==
    ASSUME FleetTypeOK, AllArrived, NEW d \in Boards, NEW value \in {"good", "bad", "none"}, Ingest(d, value)
    PROVE  /\ FleetTypeOK' /\ Len(history') = Len(history) + 1 /\ Len(history') <= MaxReadings
           /\ history'[Len(history) + 1] = [dev |-> d, n |-> Len(history) + 1, value |-> value]
           /\ \A k \in 1..Len(history) : history'[k] = history[k]
<1> DEFINE r == [dev |-> d, n |-> Len(history) + 1, value |-> value]
<1>1. /\ history \in Seq(Reading) /\ queue \in Seq(Reading) /\ Len(history) \in Nat /\ Len(queue) \in Nat
      /\ r \in Reading /\ r.n = Len(history) + 1 /\ Len(history) + 1 <= MaxReadings
  <2>1. Len(history) \in Nat /\ Len(history) < MaxReadings /\ MaxReadings \in Nat
    BY Parts, FleetAssumption DEF Ingest
  <2> QED BY <2>1, Parts DEF Reading
<1>2. /\ history' = Append(history, r)
      /\ queue' = IF Len(queue) < QueueSize THEN Append(queue, r) ELSE queue
      /\ known' = known \union {d}
      /\ excused' = excused \/ excused' = excused \union {r.n}
      /\ gone' = [gone EXCEPT ![d] = "no"]
      /\ UNCHANGED <<phase, active, writer, forget, logging, db, saved>>
  BY DEF Ingest
<1> HIDE DEF r
<1>3. /\ history' \in Seq(Reading) /\ Len(history') = Len(history) + 1 /\ history'[Len(history) + 1] = r
      /\ \A k \in 1..Len(history) : history'[k] = history[k]
  BY <1>1, <1>2, AppendProperties
<1>4. queue' \in Seq(Reading) /\ Len(queue') <= QueueSize
  <2>1. Append(queue, r) \in Seq(Reading) /\ Len(Append(queue, r)) = Len(queue) + 1
    BY <1>1, AppendProperties
  <2> QED BY <1>1, <1>2, <2>1, FleetAssumption DEF FleetTypeOK
<1>5. excused' \subseteq 1..Len(history')
  <2>1. excused \subseteq 1..Len(history) /\ r.n \in 1..Len(history') /\ 1..Len(history) \subseteq 1..Len(history')
    BY <1>1, <1>3 DEF FleetTypeOK
  <2> QED BY <1>2, <2>1
<1>6. FleetTypeOK'
  BY <1>2, <1>3, <1>4, <1>5 DEF FleetTypeOK
<1> QED BY <1>1, <1>3, <1>6 DEF r

\* The writer.
LEMMA WriterTypes ==
    ASSUME FleetTypeOK, AllArrived, WriterStory, Writer \/ WriterFails
    PROVE  FleetTypeOK'
<1>0. /\ writer \in WriterState /\ db \in Tables /\ saved \in Tables
      /\ writer.batch \in Seq(Reading) /\ Len(writer.batch) \in Nat /\ writer.i \in Nat
      /\ known \subseteq Boards /\ active \subseteq known
      /\ queue \in Seq(Reading) /\ Len(queue) \in Nat /\ Len(queue) <= QueueSize /\ Len(writer.batch) <= Batch
  BY Parts DEF FleetTypeOK
<1>a. UNCHANGED <<phase, known, forget, logging, history, gone>>
  BY DEF Writer, WriterTake, WriterUpsert, WriterInsert, WriterSkip, WriterRaiseSelect, WriterRaiseInsert,
         WriterClear, WriterMark, WriterCommit, WriterFails, ghosts
<1>b. ASSUME active' \subseteq known, queue' \in Seq(Reading), Len(queue') <= QueueSize,
             writer' \in WriterState, Len(writer'.batch) <= Batch, db' \in Tables, saved' \in Tables,
             excused' \subseteq 1..Len(history)
      PROVE  FleetTypeOK'
  BY <1>a, <1>b DEF FleetTypeOK
<1>c. excused \subseteq 1..Len(history) /\ Numbers(writer.batch) \subseteq 1..Len(history)
  BY NumbersGiven DEF FleetTypeOK
<1>d. \A boards \in SUBSET Boards : Upserted(boards) \in Tables
  <2> TAKE boards \in SUBSET Boards
  <2>1. ASSUME NEW d \in Boards PROVE Counted(writer.batch, d) \in Nat
    <3> DEFINE K == {k \in 1..Len(writer.batch) : writer.batch[k].dev = d}
    <3>1. IsFiniteSet(1..Len(writer.batch))
      BY <1>0, FS_Interval
    <3>2. Cardinality(K) \in Nat
      BY <3>1, FS_Subset, FS_CardinalityType
    <3> QED BY <3>2 DEF Counted
  <2>2. db.devices \in [Boards -> Nat]
    BY <1>0 DEF Tables
  <2>3. [d \in Boards |-> IF d \in boards THEN db.devices[d] + Counted(writer.batch, d) ELSE db.devices[d]] \in [Boards -> Nat]
    BY <2>1, <2>2
  <2> QED BY <1>0, <2>3 DEF Upserted, Tables
<1>e. \A k \in 0..Len(writer.batch) : Inserted(k) \in Tables
  <2> TAKE k \in 0..Len(writer.batch)
  <2>1. ToSet(SubSeq(writer.batch, 1, k)) \subseteq Reading
    <3>1. \A i \in 1..k : writer.batch[i] \in Reading
      BY <1>0, Parts
    <3>2. SubSeq(writer.batch, 1, k) \in Seq(Reading)
      BY <3>1, SubSeqProperties
    <3> HIDE DEF Reading
    <3>3. \A i \in DOMAIN SubSeq(writer.batch, 1, k) : SubSeq(writer.batch, 1, k)[i] \in Reading
      BY <3>2, LenProperties
    <3> QED BY <3>3 DEF ToSet
  <2>2. db.telemetry \union ToSet(SubSeq(writer.batch, 1, k)) \subseteq Reading
    BY <1>0, <2>1 DEF Tables
  <2> QED BY <1>0, <2>2 DEF Inserted, Tables
<1>1. CASE WriterTake
  <2>1. Head(queue) \in Reading /\ Tail(queue) \in Seq(Reading) /\ Len(Tail(queue)) = Len(queue) - 1
    BY <1>0, <1>1, HeadTailProperties DEF WriterTake
  <2>2. Append(writer.batch, Head(queue)) \in Seq(Reading)
        /\ Len(Append(writer.batch, Head(queue))) = Len(writer.batch) + 1
    BY <1>0, <2>1, AppendProperties
  <2>3. queue' = Tail(queue) /\ writer' = [writer EXCEPT !.batch = Append(writer.batch, Head(queue))]
        /\ UNCHANGED <<active, db, saved, excused>> /\ Len(writer.batch) < Batch
    BY <1>1 DEF WriterTake, ghosts
  <2>4. writer' \in WriterState /\ Len(writer'.batch) <= Batch
    BY <1>0, <1>1, <2>2, <2>3, WriterFields, FleetAssumption
  <2>5. Len(queue') <= QueueSize
    BY <1>0, <2>1, <2>3, FleetAssumption
  <2> QED BY <1>0, <1>b, <1>c, <2>1, <2>3, <2>4, <2>5
<1>2. CASE WriterUpsert \/ WriterInsert
  <2>1. db' \in Tables
    BY <1>0, <1>2, <1>d, <1>e DEF WriterUpsert, WriterInsert
  <2>2. writer' \in WriterState /\ Len(writer'.batch) <= Batch
    BY <1>0, <1>2, WriterFields
  <2> QED BY <1>0, <1>2, <1>b, <1>c, <2>1, <2>2 DEF WriterUpsert, WriterInsert, ghosts
<1>3. CASE WriterSkip \/ WriterRaiseSelect
  <2>1. writer' \in WriterState /\ Len(writer'.batch) <= Batch
    BY <1>0, <1>3, WriterFields
  <2> QED BY <1>0, <1>3, <1>b, <1>c, <2>1 DEF WriterSkip, WriterRaiseSelect, ghosts
<1>4. CASE WriterRaiseInsert
  <2>1. writer' \in WriterState /\ Len(writer'.batch) <= Batch
    BY <1>0, <1>4, WriterFields
  <2>2. Current \in Reading
    BY <1>4, Parts DEF WriterRaiseInsert, WriterStory, Current
  <2>3. [dev |-> Current.dev, n |-> Current.n, open |-> TRUE] \in AlertRow
    BY <2>2 DEF AlertRow, Reading
  <2>4. db' \in Tables
    BY <1>0, <1>4, <2>3 DEF WriterRaiseInsert, Tables
  <2> QED BY <1>0, <1>4, <1>b, <1>c, <2>1, <2>4 DEF WriterRaiseInsert, ghosts
<1>5. CASE WriterClear
  <2>1. writer' \in WriterState /\ Len(writer'.batch) <= Batch
    BY <1>0, <1>5, WriterFields
  <2>2. \A a \in AlertRow : (IF a.dev = Current.dev THEN [a EXCEPT !.open = FALSE] ELSE a) \in AlertRow
    BY DEF AlertRow
  <2>3. {IF a.dev = Current.dev THEN [a EXCEPT !.open = FALSE] ELSE a : a \in db.alerts} \subseteq AlertRow
    BY <1>0, <2>2 DEF Tables
  <2>4. db' \in Tables
    BY <1>0, <1>5, <2>3 DEF WriterClear, Tables
  <2> QED BY <1>0, <1>5, <1>b, <1>c, <2>1, <2>4 DEF WriterClear, ghosts
<1>6. CASE WriterMark
  <2>1. writer' \in WriterState /\ Len(writer'.batch) <= Batch
    BY <1>0, <1>6, WriterFields
  <2>2. active' \subseteq known
    BY <1>0, <1>6 DEF WriterMark, WriterStory
  <2> QED BY <1>0, <1>6, <1>b, <1>c, <2>1, <2>2 DEF WriterMark, ghosts
<1>7. CASE WriterCommit
  <2>1. Len(writer'.batch) <= Batch /\ writer' \in WriterState
    BY <1>7, IdleTypes, FleetAssumption DEF WriterCommit
  <2> QED BY <1>0, <1>7, <1>b, <1>c, <2>1 DEF WriterCommit, ghosts
<1>8. CASE WriterFails
  <2>1. Len(writer'.batch) <= Batch /\ writer' \in WriterState
    BY <1>8, IdleTypes, FleetAssumption DEF WriterFails
  <2>2. db' \in Tables
    BY <1>0, <1>8, <1>d, <1>e DEF WriterFails
  <2> QED BY <1>0, <1>8, <1>b, <1>c, <2>1, <2>2 DEF WriterFails
<1> QED BY <1>1, <1>2, <1>3, <1>4, <1>5, <1>6, <1>7, <1>8 DEF Writer

\* forget_device() begins.
LEMMA ForgetStartFields ==
    ASSUME FleetTypeOK, InOrder, NEW d \in Boards, ForgetStart(d)
    PROVE  /\ Kept1(queue', queue, d, Len(queue)) /\ Len(queue') <= QueueSize
           /\ writer' \in WriterState /\ writer'.pc = writer.pc /\ writer'.i = writer.i /\ writer'.batch = writer.batch
           /\ writer'.live = (writer.live /\ Current.dev # d)
           /\ forget' = [pc |-> "alerts", dev |-> d]
           /\ db' \in Tables
<1>0. writer \in WriterState /\ db \in Tables /\ queue \in Seq(Reading) /\ Len(queue) \in Nat /\ Len(queue) <= QueueSize
  BY Parts DEF FleetTypeOK
<1>1. Kept1(queue', queue, d, Len(queue))
  BY <1>0, SieveKeeps DEF ForgetStart, Kept, InOrder
<1>2. Len(queue') <= QueueSize
  <2>1. Len(queue') \in Nat /\ Len(queue') <= Len(queue)
    BY <1>1, LenProperties DEF Kept1
  <2> QED BY <1>0, <2>1, FleetAssumption
<1>3. /\ writer' \in WriterState /\ writer'.pc = writer.pc /\ writer'.i = writer.i /\ writer'.batch = writer.batch
      /\ writer'.live = (writer.live /\ Current.dev # d)
  <2>1. CASE writer.live /\ Current.dev = d
    <3>1. writer' = [writer EXCEPT !.live = FALSE]
      BY <2>1 DEF ForgetStart
    <3> QED BY <1>0, <2>1, <3>1 DEF WriterState
  <2>2. CASE ~ (writer.live /\ Current.dev = d)
    <3>1. writer' = writer
      BY <2>2 DEF ForgetStart
    <3> QED BY <1>0, <2>2, <3>1 DEF WriterState
  <2> QED BY <2>1, <2>2
<1>4. db' \in Tables
  BY <1>0 DEF ForgetStart, Tables
<1> QED BY <1>1, <1>2, <1>3, <1>4 DEF ForgetStart

LEMMA OtherTypes ==
    ASSUME FleetTypeOK, AllArrived, InOrder, PhaseStory,
           \/ \E d \in Boards : IngestStatus(d) \/ ForgetStart(d) \/ Command(d)
           \/ ForgetDelete \/ ForgetCommit \/ ForgetFails \/ CommandCommit \/ CommandFails \/ Prune
           \/ Stop \/ WriterExit \/ WriterCancelled \/ Close \/ Crash \/ Start \/ UNCHANGED vars
    PROVE  FleetTypeOK'
<1>a. excused \subseteq 1..Len(history) /\ Numbers(queue) \subseteq 1..Len(history) /\ Numbers(writer.batch) \subseteq 1..Len(history)
      /\ \A r \in db.telemetry : r.n \in 1..Len(history)
  BY NumbersGiven DEF FleetTypeOK
<1>b. [WriterIdle EXCEPT !.pc = "done"] \in WriterState /\ Len([WriterIdle EXCEPT !.pc = "done"].batch) <= Batch
      /\ WriterIdle \in WriterState /\ Len(WriterIdle.batch) <= Batch /\ Len(<<>>) <= QueueSize
  BY IdleTypes, FleetAssumption
<1>1. ASSUME NEW d \in Boards, ForgetStart(d) PROVE FleetTypeOK'
  <2>1. queue' \in Seq(Reading) /\ Len(queue') <= QueueSize /\ writer' \in WriterState /\ writer'.batch = writer.batch
        /\ forget' = [pc |-> "alerts", dev |-> d] /\ db' \in Tables
    BY <1>1, ForgetStartFields DEF Kept1
  <2>2. excused' \subseteq 1..Len(history)
    BY <1>1, <1>a DEF ForgetStart
  <2>3. known' = known \ {d} /\ active' = active \ {d} /\ gone' \in [Boards -> {"no", "clean", "raced"}]
        /\ UNCHANGED <<phase, logging, saved, history>>
    BY <1>1 DEF ForgetStart, FleetTypeOK
  <2> QED BY <2>1, <2>2, <2>3 DEF FleetTypeOK
<1>2. CASE ForgetDelete
  <2>1. db' \in Tables /\ forget' \in [pc : {"idle", "alerts", "commands", "devices", "commit"}, dev : Boards]
    BY <1>2, DeleteFields
  <2>2. UNCHANGED <<phase, known, active, queue, writer, logging, saved, ghosts>>
    BY <1>2 DEF ForgetDelete
  <2> QED BY <2>1, <2>2 DEF FleetTypeOK, ghosts
<1>3. CASE ForgetCommit
  BY <1>3, IdleTypes DEF ForgetCommit, FleetTypeOK, ghosts
<1>4. CASE ForgetFails
  BY <1>4, IdleTypes DEF ForgetFails, FleetTypeOK
<1>5. ASSUME NEW d \in Boards, IngestStatus(d) PROVE FleetTypeOK'
  BY <1>5 DEF IngestStatus, FleetTypeOK, ghosts
<1>6. ASSUME NEW d \in Boards, Command(d) PROVE FleetTypeOK'
  <2>1. db' \in Tables
    BY <1>6 DEF Command, FleetTypeOK, Tables
  <2> QED BY <1>6, <2>1 DEF Command, FleetTypeOK
<1>7. CASE CommandCommit \/ CommandFails
  BY <1>7 DEF CommandCommit, CommandFails, FleetTypeOK, ghosts
<1>8. CASE Prune
  <2>1. db' \in Tables
    <3>1. PICK newest \in db.telemetry : db' = [db EXCEPT !.telemetry = db.telemetry \ Old(newest.n)]
      BY <1>8 DEF Prune
    <3> DEFINE rest == db.telemetry \ Old(newest.n)
    <3>2. rest \subseteq db.telemetry /\ db \in Tables
      BY DEF FleetTypeOK
    <3> HIDE DEF rest
    <3> QED BY <3>1, <3>2 DEF Tables, rest
  <2>2. excused' \subseteq 1..Len(history)
    BY <1>8, <1>a DEF Prune, Old
  <2> QED BY <1>8, <2>1, <2>2 DEF Prune, FleetTypeOK
<1>9. CASE Stop \/ Start
  <2>1. phase' \in {"up", "stopping"} /\ UNCHANGED <<active, queue, writer, forget, logging, db, saved, ghosts>>
    BY <1>9 DEF Stop, Start
  <2>2. known' \subseteq Boards /\ active \subseteq known'
    BY <1>9 DEF Stop, Start, FleetTypeOK, PhaseStory
  <2> QED BY <2>1, <2>2 DEF FleetTypeOK, ghosts
<1>10. CASE WriterExit
  BY <1>10, <1>b DEF WriterExit, FleetTypeOK, ghosts
<1>11. CASE WriterCancelled
  BY <1>11, <1>a, <1>b DEF WriterCancelled, FleetTypeOK
<1>12. CASE Close
  BY <1>12, <1>b, IdleTypes DEF Close, Ended, FleetTypeOK, ghosts
<1>13. CASE Crash
  BY <1>13, <1>b, IdleTypes DEF Crash, Ended, FleetTypeOK
<1>14. CASE UNCHANGED vars
  BY <1>14 DEF vars, FleetTypeOK
<1> QED BY <1>1, <1>2, <1>3, <1>4, <1>5, <1>6, <1>7, <1>8, <1>9, <1>10, <1>11, <1>12, <1>13, <1>14

LEMMA TypesKept == ASSUME StoreInv, [Next]_vars PROVE FleetTypeOK'
<1>1. FleetTypeOK /\ AllArrived /\ InOrder /\ WriterStory /\ PhaseStory
  BY DEF StoreInv
<1> QED BY <1>1, IngestTypes, WriterTypes, OtherTypes DEF Next

-----------------------------------------------------------------------------
(* The way of the readings from the queue to the table.                    *)

Flow == AllArrived /\ InOrder /\ NotYetStored /\ NoneLost

LEMMA NoNumbers == Numbers(<<>>) = {}
BY DEF Numbers

\* Steps that move no reading; locals of the writer that hold none may go.
LEMMA QuietFlow ==
    ASSUME FleetTypeOK, Flow, UNCHANGED <<history, queue, excused>>,
           writer'.batch = writer.batch \/ writer'.batch = <<>>, ToWrite' = ToWrite,
           db'.telemetry = db.telemetry, saved'.telemetry \in {db.telemetry, saved.telemetry}
    PROVE  Flow'
<1>1. AllArrived'
  <2>1. Len(<<>>) = 0
    OBVIOUS
  <2>2. \A k \in 1..Len(writer'.batch) : k \in 1..Len(writer.batch) /\ writer'.batch[k] = writer.batch[k]
    BY <2>1
  <2>3. \A r \in db'.telemetry \union saved'.telemetry : r \in db.telemetry \union saved.telemetry
    OBVIOUS
  <2> QED BY <2>2, <2>3 DEF Flow, AllArrived, Arrived
<1>2. InOrder'
  <2>1. \A k \in 1..Len(writer'.batch) : k \in 1..Len(writer.batch) /\ writer'.batch[k] = writer.batch[k]
    BY IdleTypes
  <2> QED BY <2>1 DEF Flow, InOrder
<1>3. NotYetStored'
  BY DEF Flow, NotYetStored
<1>4. NoneLost'
  BY DEF Flow, NoneLost
<1> QED BY <1>1, <1>2, <1>3, <1>4 DEF Flow

\* A reading arrives.
LEMMA IngestFlow ==
    ASSUME FleetTypeOK, Flow, WriterStory, NEW d \in Boards, NEW value \in {"good", "bad", "none"}, Ingest(d, value)
    PROVE  Flow'
<1> DEFINE r == [dev |-> d, n |-> Len(history) + 1, value |-> value]
<1>0. AllArrived /\ InOrder /\ NotYetStored /\ NoneLost
  BY DEF Flow
<1>1. /\ Len(history') = Len(history) + 1 /\ Len(history') <= MaxReadings /\ history'[Len(history) + 1] = r
      /\ \A k \in 1..Len(history) : history'[k] = history[k]
  BY <1>0, IngestTypes
<1>2. Len(history) \in Nat /\ r.n = Len(history) + 1 /\ r \in Reading
  <2>1. Len(history) \in Nat /\ Len(history) < MaxReadings /\ MaxReadings \in Nat
    BY Parts, FleetAssumption DEF Ingest
  <2> QED BY <2>1 DEF Reading
<1>3. UNCHANGED <<writer, db, saved>>
  BY DEF Ingest
<1> HIDE DEF r
<1>3a. excused' \in {excused, excused \union {r.n}} /\ (queue' = Append(queue, r) \/ (queue' = queue /\ r.n \in excused'))
  BY DEF Ingest, r
<1>4. \A x : Arrived(x) => x.n \in 1..Len(history) /\ x.n \in 1..Len(history') /\ history'[x.n] = x /\ x.n < r.n
  BY <1>1, <1>2 DEF Arrived
<1>5. r.n \in 1..Len(history') /\ history'[r.n] = r
  BY <1>1, <1>2
<1>6. \A k \in 1..Len(queue) : Arrived(queue[k]) /\ queue[k].n < r.n
  BY <1>0, <1>4 DEF AllArrived
<1>7. \A k \in 1..Len(writer.batch) : Arrived(writer.batch[k]) /\ writer.batch[k].n < r.n
  BY <1>0, <1>4 DEF AllArrived
<1>8. \A x \in db.telemetry \union saved.telemetry : Arrived(x) /\ x.n # r.n
  <2> SUFFICES ASSUME NEW x \in db.telemetry \union saved.telemetry PROVE Arrived(x) /\ x.n # r.n
    OBVIOUS
  <2>1. Arrived(x)
    BY <1>0 DEF AllArrived
  <2>2. x.n \in 1..Len(history)
    BY <2>1, <1>4
  <2> QED BY <1>2, <2>1, <2>2
<1>9. \A n \in 1..Len(history') : n \in 1..Len(history) \/ n = r.n
  BY <1>1, <1>2
<1>10. \A n \in 1..Len(history') : history'[n].n = n
  BY <1>0, <1>1, <1>5, <1>9 DEF AllArrived
<1>11. ToWrite' = ToWrite /\ r.n \notin ToWrite
  <2>1. r.n \notin Numbers(writer.batch)
    BY <1>2, <1>7 DEF Numbers
  <2> QED BY <1>3, <2>1 DEF ToWrite
<1>12. \A n \in 1..Len(history) : n \in 1..Len(history') /\ history'[n] = history[n]
  BY <1>1, <1>2
<1>13. CASE queue' = queue /\ r.n \in excused'
  <2>1. AllArrived'
    BY <1>1, <1>3, <1>4, <1>6, <1>7, <1>8, <1>10, <1>13 DEF AllArrived, Arrived
  <2>2. InOrder' /\ NotYetStored'
    BY <1>0, <1>3, <1>11, <1>13 DEF InOrder, NotYetStored
  <2>3. NoneLost'
    BY <1>0, <1>3, <1>3a, <1>9, <1>11, <1>12, <1>13 DEF NoneLost
  <2> QED BY <2>1, <2>2, <2>3 DEF Flow
<1>14. CASE queue' = Append(queue, r)
  <2>1. /\ queue' \in Seq(Reading) /\ Len(queue') = Len(queue) + 1 /\ queue'[Len(queue) + 1] = r
        /\ \A k \in 1..Len(queue) : queue'[k] = queue[k]
        /\ Len(queue) \in Nat
    BY <1>2, <1>14, Parts, AppendProperties
  <2>2. \A k \in 1..Len(queue') : k = Len(queue) + 1 \/ k \in 1..Len(queue)
    BY <2>1
  <2>3. AllArrived'
    <3>1. \A k \in 1..Len(queue') : queue'[k].n \in 1..Len(history') /\ history'[queue'[k].n] = queue'[k]
      BY <1>4, <1>5, <1>6, <2>1, <2>2
    <3>2. \A k \in 1..Len(writer'.batch) : writer'.batch[k].n \in 1..Len(history') /\ history'[writer'.batch[k].n] = writer'.batch[k]
      BY <1>3, <1>4, <1>7
    <3>3. \A x \in db'.telemetry \union saved'.telemetry : x.n \in 1..Len(history') /\ history'[x.n] = x
      BY <1>3, <1>4, <1>8
    <3> QED BY <1>1, <1>10, <3>1, <3>2, <3>3 DEF AllArrived, Arrived
  <2>4. InOrder'
    <3>1. ASSUME NEW i \in 1..Len(queue'), NEW j \in 1..Len(queue'), i < j PROVE queue'[i].n < queue'[j].n
      <4>1. i \in 1..Len(queue)
        BY <2>1, <3>1
      <4> QED BY <1>0, <1>6, <2>1, <2>2, <3>1, <4>1 DEF InOrder, Increasing
    <3>2. \A i \in 1..Len(writer'.batch), j \in 1..Len(queue') : writer'.batch[i].n < queue'[j].n
      BY <1>0, <1>3, <1>7, <2>1, <2>2 DEF InOrder
    <3> QED BY <3>1, <3>2 DEF InOrder, Increasing
  <2>5. Numbers(queue') = Numbers(queue) \union {r.n}
    <3>1. Numbers(queue') \subseteq Numbers(queue) \union {r.n}
      BY <2>1, <2>2 DEF Numbers
    <3>2. \A k \in 1..Len(queue) : k \in 1..Len(queue')
      BY <2>1
    <3>3. Len(queue) + 1 \in 1..Len(queue')
      BY <2>1
    <3>4. Numbers(queue) \union {r.n} \subseteq Numbers(queue')
      BY <2>1, <3>2, <3>3 DEF Numbers
    <3> QED BY <3>1, <3>4
  <2>6. NotYetStored'
    BY <1>0, <1>3, <1>8, <1>11, <2>5 DEF NotYetStored
  <2>7. NoneLost'
    BY <1>0, <1>3, <1>3a, <1>9, <1>11, <1>12, <2>5 DEF NoneLost
  <2> QED BY <2>3, <2>4, <2>6, <2>7 DEF Flow
<1> QED BY <1>3a, <1>13, <1>14

\* The writer takes the oldest reading of the queue.
LEMMA TakeFlow ==
    ASSUME FleetTypeOK, Flow, WriterTake
    PROVE  Flow'
<1>0. AllArrived /\ InOrder /\ NotYetStored /\ NoneLost
  BY DEF Flow
<1> DEFINE r == Head(queue)
<1>1. /\ queue # <<>> /\ writer.pc = "collect" /\ queue' = Tail(queue)
      /\ UNCHANGED <<history, excused, db, saved>>
      /\ writer'.pc = "collect" /\ writer'.batch = Append(writer.batch, r)
  BY WriterFields DEF WriterTake, ghosts
<1>2. /\ r \in Reading /\ Len(queue) \in Nat /\ Len(queue') = Len(queue) - 1 /\ 1 \in 1..Len(queue) /\ r = queue[1]
      /\ \A k \in 1..Len(queue') : queue'[k] = queue[k + 1] /\ k + 1 \in 1..Len(queue) /\ 1 < k + 1
  <2>1. queue \in Seq(Reading) /\ Len(queue) \in Nat
    BY Parts
  <2>2. /\ r \in Reading /\ Tail(queue) \in Seq(Reading) /\ Len(Tail(queue)) = Len(queue) - 1
        /\ \A k \in 1..Len(Tail(queue)) : Tail(queue)[k] = queue[k + 1]
    BY <1>1, <2>1, HeadTailProperties
  <2>3. Len(queue) # 0 /\ r = queue[1]
    BY <1>1, <2>1, EmptySeq
  <2> QED BY <1>1, <2>1, <2>2, <2>3
<1> HIDE DEF r
<1>3. /\ Len(writer'.batch) = Len(writer.batch) + 1 /\ Len(writer.batch) \in Nat
      /\ writer'.batch[Len(writer.batch) + 1] = r
      /\ \A k \in 1..Len(writer.batch) : writer'.batch[k] = writer.batch[k]
  <2>1. writer.batch \in Seq(Reading) /\ Len(writer.batch) \in Nat
    BY Parts
  <2> QED BY <1>1, <1>2, <2>1, AppendProperties
<1>4. \A k \in 1..Len(writer'.batch) : k = Len(writer.batch) + 1 \/ k \in 1..Len(writer.batch)
  BY <1>3
<1>5. AllArrived'
  <2>1. \A k \in 1..Len(writer'.batch) : Arrived(writer'.batch[k])
    BY <1>0, <1>2, <1>3, <1>4 DEF AllArrived
  <2>2. \A k \in 1..Len(queue') : Arrived(queue'[k])
    BY <1>0, <1>2 DEF AllArrived
  <2> QED BY <1>0, <1>1, <2>1, <2>2 DEF AllArrived, Arrived
<1>6. InOrder'
  <2>1. ASSUME NEW i \in 1..Len(queue'), NEW j \in 1..Len(queue'), i < j PROVE queue'[i].n < queue'[j].n
    <3>1. i + 1 < j + 1 /\ i + 1 \in 1..Len(queue) /\ j + 1 \in 1..Len(queue)
      BY <1>2, <2>1
    <3>2. queue[i + 1].n < queue[j + 1].n
      BY <1>0, <3>1 DEF InOrder, Increasing
    <3> QED BY <1>2, <3>2
  <2>2. ASSUME NEW i \in 1..Len(writer'.batch), NEW j \in 1..Len(queue') PROVE writer'.batch[i].n < queue'[j].n
    <3>1. queue'[j] = queue[j + 1] /\ j + 1 \in 1..Len(queue) /\ 1 < j + 1
      BY <1>2
    <3>2. CASE i \in 1..Len(writer.batch)
      BY <1>0, <1>3, <3>1, <3>2 DEF InOrder
    <3>3. CASE i = Len(writer.batch) + 1
      <4>1. queue[1].n < queue[j + 1].n
        BY <1>0, <1>2, <3>1 DEF InOrder, Increasing
      <4> QED BY <1>2, <1>3, <3>1, <3>3, <4>1
    <3> QED BY <1>4, <3>2, <3>3
  <2> QED BY <2>1, <2>2 DEF InOrder, Increasing
<1>7. Numbers(queue') \union ToWrite' = Numbers(queue) \union ToWrite
  <2>1. ToWrite = Numbers(writer.batch) /\ ToWrite' = Numbers(writer'.batch)
    BY <1>1 DEF ToWrite
  <2>2. Numbers(queue) = Numbers(queue') \union {r.n}
    <3>1. Numbers(queue') \union {r.n} \subseteq Numbers(queue)
      BY <1>2 DEF Numbers
    <3>2. ASSUME NEW k \in 1..Len(queue) PROVE queue[k].n \in Numbers(queue') \union {r.n}
      <4>1. CASE k = 1
        BY <1>2, <4>1
      <4>2. CASE k # 1
        <5>1. k - 1 \in 1..Len(queue') /\ (k - 1) + 1 = k
          BY <1>2, <4>2
        <5>2. queue'[k - 1] = queue[k]
          BY <1>2, <5>1
        <5> QED BY <5>1, <5>2 DEF Numbers
      <4> QED BY <4>1, <4>2
    <3>3. Numbers(queue) \subseteq Numbers(queue') \union {r.n}
      BY <3>2 DEF Numbers
    <3> QED BY <3>1, <3>3
  <2>3. Numbers(writer'.batch) = Numbers(writer.batch) \union {r.n}
    <3>1. Numbers(writer'.batch) \subseteq Numbers(writer.batch) \union {r.n}
      BY <1>3, <1>4 DEF Numbers
    <3>2. Len(writer.batch) + 1 \in 1..Len(writer'.batch) /\ \A k \in 1..Len(writer.batch) : k \in 1..Len(writer'.batch)
      BY <1>3
    <3>3. Numbers(writer.batch) \union {r.n} \subseteq Numbers(writer'.batch)
      BY <1>3, <3>2 DEF Numbers
    <3> QED BY <3>1, <3>3
  <2> QED BY <2>1, <2>2, <2>3
<1>8. NotYetStored' /\ NoneLost'
  <2>1. \A n : n \in Numbers(queue') \union ToWrite' <=> n \in Numbers(queue) \union ToWrite
    BY <1>7
  <2> QED BY <1>0, <1>1, <2>1 DEF NotYetStored, NoneLost
<1> QED BY <1>5, <1>6, <1>8 DEF Flow

\* Some of the batch is stored, the rest is given up.
LEMMA StoredFlow ==
    ASSUME FleetTypeOK, Flow, UNCHANGED <<history, queue>>,
           writer'.batch = writer.batch \/ writer'.batch = <<>>, ToWrite' = {},
           NEW k \in 0..Len(writer.batch),
           db'.telemetry = db.telemetry \union {writer.batch[j] : j \in 1..k}, saved' = saved,
           excused \subseteq excused', ToWrite \subseteq excused' \union {writer.batch[j].n : j \in 1..k}
    PROVE  Flow'
<1>0. AllArrived /\ InOrder /\ NotYetStored /\ NoneLost
  BY DEF Flow
<1>1. \A j \in 1..Len(writer'.batch) : j \in 1..Len(writer.batch) /\ writer'.batch[j] = writer.batch[j]
  BY IdleTypes
<1>2. \A j \in 1..k : j \in 1..Len(writer.batch)
  BY Parts
<1>3. AllArrived'
  <2>1. \A j \in 1..Len(writer.batch) : Arrived(writer.batch[j])
    BY <1>0 DEF AllArrived
  <2>2. \A r \in db'.telemetry : Arrived(r)
    BY <1>0, <1>2, <2>1 DEF AllArrived
  <2> QED BY <1>0, <1>1, <2>1, <2>2 DEF AllArrived, Arrived
<1>4. InOrder'
  BY <1>0, <1>1 DEF InOrder
<1>5. NotYetStored'
  <2>1. \A j \in 1..k : writer.batch[j].n \notin Numbers(queue)
    <3> SUFFICES ASSUME NEW j \in 1..k, NEW i \in 1..Len(queue), writer.batch[j].n = queue[i].n PROVE FALSE
      BY DEF Numbers
    <3>1. writer.batch[j].n < queue[i].n /\ queue[i].n \in Nat /\ writer.batch[j].n \in Nat
      BY <1>0, <1>2, Parts DEF InOrder
    <3> QED BY <3>1
  <2> QED BY <1>0, <2>1 DEF NotYetStored
<1>6. NoneLost'
  <2> SUFFICES ASSUME NEW n \in 1..Len(history), n \notin excused', n \notin Numbers(queue)
               PROVE  history[n] \in db'.telemetry
    BY DEF NoneLost
  <2>1. CASE history[n] \in db.telemetry
    BY <2>1
  <2>2. CASE n \in ToWrite
    <3>1. PICK j \in 1..k : n = writer.batch[j].n
      BY <2>2
    <3>2. history[n] = writer.batch[j]
      BY <1>0, <1>2, <3>1 DEF AllArrived, Arrived
    <3> QED BY <3>2
  <2> QED BY <1>0, <2>1, <2>2 DEF NoneLost
<1> QED BY <1>3, <1>4, <1>5, <1>6 DEF Flow

\* Rows are deleted, and readings leave the queue, that are given up.
LEMMA GivenUpFlow ==
    ASSUME FleetTypeOK, Flow, UNCHANGED <<history, saved>>, writer'.pc = writer.pc, writer'.batch = writer.batch,
           queue' \in Seq(Reading), Increasing(queue'),
           \A j \in 1..Len(queue') : \E i \in 1..Len(queue) : queue'[j] = queue[i],
           \A i \in 1..Len(queue) : queue[i].n \in excused' \/ \E j \in 1..Len(queue') : queue'[j] = queue[i],
           db'.telemetry \subseteq db.telemetry,
           excused \subseteq excused', \A r \in db.telemetry \ db'.telemetry : r.n \in excused'
    PROVE  Flow'
<1>0. AllArrived /\ InOrder /\ NotYetStored /\ NoneLost
  BY DEF Flow
<1>1. ToWrite' = ToWrite
  BY DEF ToWrite
<1>2. Numbers(queue') \subseteq Numbers(queue)
  BY DEF Numbers
<1>3. AllArrived'
  <2>1. \A j \in 1..Len(queue') : Arrived(queue'[j])
    BY <1>0 DEF AllArrived
  <2> QED BY <1>0, <2>1 DEF AllArrived, Arrived
<1>4. InOrder'
  BY <1>0 DEF InOrder
<1>5. NotYetStored'
  BY <1>0, <1>1, <1>2 DEF NotYetStored
<1>6. NoneLost'
  <2> SUFFICES ASSUME NEW n \in 1..Len(history), n \notin excused', n \notin ToWrite, n \notin Numbers(queue')
               PROVE  history[n] \in db'.telemetry
    BY <1>1 DEF NoneLost
  <2>1. ASSUME n \in Numbers(queue) PROVE FALSE
    <3>1. PICK i \in 1..Len(queue) : queue[i].n = n
      BY <2>1 DEF Numbers
    <3>2. PICK j \in 1..Len(queue') : queue'[j] = queue[i]
      BY <3>1
    <3>3. queue'[j].n \in Numbers(queue')
      BY DEF Numbers
    <3> QED BY <3>1, <3>2, <3>3
  <2>2. history[n] \in db.telemetry /\ history[n].n = n
    BY <1>0, <2>1 DEF NoneLost, AllArrived
  <2> QED BY <2>2
<1> QED BY <1>3, <1>4, <1>5, <1>6 DEF Flow

\* The process ends, or only the writer does: what is not stored is given up.
LEMMA EndFlow ==
    ASSUME FleetTypeOK, Flow, history' = history, queue' = queue \/ queue' = <<>>, writer'.batch = <<>>,
           db'.telemetry \subseteq db.telemetry \union saved.telemetry, saved'.telemetry \subseteq db.telemetry \union saved.telemetry,
           queue' = <<>> \/ db' = db,
           \A n \in 1..Len(history) : n \in excused' \/ n \in Numbers(queue') \/ history[n] \in db'.telemetry
    PROVE  Flow'
<1>0. AllArrived /\ InOrder /\ NotYetStored /\ NoneLost
  BY DEF Flow
<1>1. Len(<<>>) = 0 /\ ToWrite' = {}
  BY NoNumbers DEF ToWrite
<1>2. AllArrived'
  BY <1>0, <1>1 DEF AllArrived, Arrived
<1>3. InOrder'
  BY <1>0, <1>1 DEF InOrder, Increasing
<1>4. NotYetStored'
  BY <1>0, <1>1, NoNumbers DEF NotYetStored
<1>5. NoneLost'
  BY <1>1 DEF NoneLost
<1> QED BY <1>2, <1>3, <1>4, <1>5 DEF Flow

LEMMA FlowKept == ASSUME StoreInv, [Next]_vars PROVE Flow'
<1>0. FleetTypeOK /\ Flow /\ WriterStory /\ PhaseStory /\ AllArrived /\ InOrder /\ NoneLost
  BY DEF StoreInv, Flow
<1>a. /\ WriterIdle.pc = "collect" /\ WriterIdle.batch = <<>>
      /\ [WriterIdle EXCEPT !.pc = "done"].pc = "done" /\ [WriterIdle EXCEPT !.pc = "done"].batch = <<>>
  BY IdleTypes
<1>b. Numbers(<<>>) = {} /\ Len(<<>>) = 0
  BY NoNumbers
<1>1. ASSUME NEW d \in Boards, NEW value \in {"good", "bad", "none"}, Ingest(d, value) PROVE Flow'
  BY <1>0, <1>1, IngestFlow
<1>2. CASE WriterTake
  BY <1>0, <1>2, TakeFlow
<1>3. CASE WriterUpsert \/ WriterSkip \/ WriterRaiseSelect \/ WriterRaiseInsert \/ WriterClear \/ WriterMark
  <2>1. UNCHANGED <<history, queue, excused, saved>>
    BY <1>3 DEF WriterUpsert, WriterSkip, WriterRaiseSelect, WriterRaiseInsert, WriterClear, WriterMark, ghosts
  <2>2. writer'.batch = writer.batch
    BY <1>0, <1>3, WriterFields
  <2>3. (writer.pc = "collect" /\ writer'.pc = "insert") \/ (writer.pc \notin {"collect", "insert"} /\ writer'.pc \notin {"collect", "insert"})
    BY <1>0, <1>3, WriterFields DEF WriterUpsert, WriterSkip, WriterRaiseSelect, WriterRaiseInsert, WriterClear, WriterMark
  <2>4. ToWrite' = ToWrite
    BY <2>2, <2>3 DEF ToWrite
  <2>5. db'.telemetry = db.telemetry
    <3>1. CASE WriterUpsert
      <4>1. db' = Upserted(Boards)
        BY <3>1 DEF WriterUpsert
      <4>2. Same(Upserted(Boards), db, {"telemetry", "alerts", "commands"})
        BY <1>0, TableFields
      <4> QED BY <4>1, <4>2 DEF Same
    <3>2. CASE WriterRaiseInsert \/ WriterClear
      BY <1>0, <3>2, TableFields DEF Same
    <3>3. CASE WriterSkip \/ WriterRaiseSelect \/ WriterMark
      BY <3>3 DEF WriterSkip, WriterRaiseSelect, WriterMark
    <3> QED BY <1>3, <3>1, <3>2, <3>3
  <2> QED BY <1>0, <2>1, <2>2, <2>4, <2>5, QuietFlow
<1>4. CASE WriterInsert
  <2>1. UNCHANGED <<history, queue, excused, saved>> /\ writer.pc = "insert" /\ db' = Inserted(Len(writer.batch))
    BY <1>4 DEF WriterInsert, ghosts
  <2>2. writer'.batch = writer.batch /\ writer'.pc = "eval"
    BY <1>0, <1>4, WriterFields
  <2>3. Len(writer.batch) \in 0..Len(writer.batch)
    BY <1>0, Parts
  <2>4. db'.telemetry = db.telemetry \union {writer.batch[j] : j \in 1..Len(writer.batch)}
    BY <1>0, <2>1, <2>3, TableFields
  <2>5. ToWrite' = {} /\ ToWrite = {writer.batch[j].n : j \in 1..Len(writer.batch)}
    BY <2>1, <2>2 DEF ToWrite, Numbers
  <2> QED BY <1>0, <2>1, <2>2, <2>3, <2>4, <2>5, StoredFlow
<1>5. CASE WriterCommit
  <2>1. UNCHANGED <<history, queue, excused, db>> /\ saved' = db /\ writer.pc = "eval" /\ writer' = WriterIdle
    BY <1>5 DEF WriterCommit, ghosts
  <2>2. ToWrite' = ToWrite
    BY <1>a, <1>b, <2>1 DEF ToWrite
  <2> QED BY <1>0, <1>a, <2>1, <2>2, QuietFlow
<1>6. CASE WriterFails
  <2>1. /\ UNCHANGED <<history, queue, saved>> /\ writer' = WriterIdle
        /\ excused' = excused \union Numbers(writer.batch)
    BY <1>6 DEF WriterFails
  <2>2. ToWrite' = {} /\ ToWrite \subseteq excused' /\ excused \subseteq excused'
    BY <1>a, <1>b, <2>1 DEF ToWrite
  <2>3. PICK k \in 0..Len(writer.batch) : db'.telemetry = db.telemetry \union {writer.batch[j] : j \in 1..k}
    <3>1. 0 \in 0..Len(writer.batch) /\ 1..0 = {}
      BY <1>0, Parts
    <3>2. CASE db'.telemetry = db.telemetry
      <4>1. db'.telemetry = db.telemetry \union {writer.batch[j] : j \in 1..0}
        BY <3>1, <3>2
      <4> QED BY <3>1, <4>1
    <3>3. CASE \E boards \in SUBSET Boards : db' = Upserted(boards)
      <4>1. db'.telemetry = db.telemetry
        BY <1>0, <3>3, TableFields DEF Same
      <4> QED BY <3>2, <4>1
    <3>4. CASE \E k \in 0..Len(writer.batch) : db' = Inserted(k)
      BY <1>0, <3>4, TableFields
    <3>5. CASE UNCHANGED db
      BY <3>2, <3>5
    <3> QED BY <1>6, <3>3, <3>4, <3>5 DEF WriterFails
  <2> QED BY <1>0, <1>a, <2>1, <2>2, <2>3, StoredFlow
<1>7. ASSUME NEW d \in Boards, ForgetStart(d) PROVE Flow'
  <2>1. /\ UNCHANGED <<history, saved>> /\ excused \subseteq excused'
        /\ \A n \in Numbers(queue) \union {r.n : r \in db.telemetry} : history[n].dev = d => n \in excused'
    BY <1>7 DEF ForgetStart
  <2>2. Kept1(queue', queue, d, Len(queue)) /\ writer'.pc = writer.pc /\ writer'.batch = writer.batch
    BY <1>0, <1>7, ForgetStartFields
  <2>3. \A i \in 1..Len(queue) : queue[i].n \in excused' \/ \E j \in 1..Len(queue') : queue'[j] = queue[i]
    <3> TAKE i \in 1..Len(queue)
    <3>1. history[queue[i].n] = queue[i] /\ queue[i].n \in Numbers(queue)
      BY <1>0 DEF AllArrived, Arrived, Numbers
    <3> QED BY <2>1, <2>2, <3>1 DEF Kept1
  <2>4. db'.telemetry = db.telemetry \ Of(db.telemetry, d)
    BY <1>0, <1>7, TableFields
  <2>5. \A r \in db.telemetry \ db'.telemetry : r.n \in excused'
    <3> SUFFICES ASSUME NEW r \in db.telemetry, r.dev = d PROVE r.n \in excused'
      BY <2>4 DEF Of
    <3>1. history[r.n] = r
      BY <1>0 DEF AllArrived, Arrived
    <3> QED BY <2>1, <3>1
  <2>6. \A j \in 1..Len(queue') : \E i \in 1..Len(queue) : queue'[j] = queue[i]
    BY <2>2 DEF Kept1
  <2> QED BY <1>0, <2>1, <2>2, <2>3, <2>4, <2>5, <2>6, GivenUpFlow DEF Kept1
<1>8. CASE Prune
  <2>1. UNCHANGED <<history, queue, writer>> /\ saved' = db'
    BY <1>8 DEF Prune
  <2>2. PICK k : /\ db'.telemetry = db.telemetry \ Old(k) /\ excused' = excused \union {r.n : r \in Old(k)}
    BY <1>0, <1>8, TableFields
  <2>3. \A r \in db.telemetry \ db'.telemetry : r.n \in excused'
    BY <2>2
  <2>4. AllArrived' /\ InOrder' /\ NotYetStored'
    BY <1>0, <2>1, <2>2 DEF Flow, AllArrived, Arrived, InOrder, NotYetStored, ToWrite
  <2>5. NoneLost'
    <3> SUFFICES ASSUME NEW n \in 1..Len(history), n \notin excused', n \notin Numbers(queue) \union ToWrite
                 PROVE  history[n] \in db'.telemetry
      BY <2>1 DEF NoneLost, ToWrite
    <3>1. history[n] \in db.telemetry /\ history[n].n = n
      BY <1>0, <2>2 DEF NoneLost, AllArrived
    <3> QED BY <2>3, <3>1
  <2> QED BY <2>4, <2>5 DEF Flow
<1>9. CASE WriterExit
  <2>1. UNCHANGED <<history, queue, excused, db, saved>> /\ writer.batch = <<>> /\ writer' = [WriterIdle EXCEPT !.pc = "done"]
    BY <1>9 DEF WriterExit, ghosts
  <2>2. ToWrite' = ToWrite
    BY <1>a, <1>b, <2>1 DEF ToWrite
  <2> QED BY <1>0, <1>a, <2>1, <2>2, QuietFlow
<1>10. CASE WriterCancelled
  <2>1. /\ UNCHANGED <<history, queue, db, saved>> /\ writer' = [WriterIdle EXCEPT !.pc = "done"]
        /\ excused' = excused \union Numbers(queue) \union Numbers(writer.batch)
    BY <1>10 DEF WriterCancelled
  <2>2. \A n \in 1..Len(history) : n \in excused' \/ n \in Numbers(queue') \/ history[n] \in db'.telemetry
    BY <1>0, <2>1 DEF NoneLost, ToWrite
  <2> QED BY <1>0, <1>a, <2>1, <2>2, EndFlow
<1>11. CASE Close
  <2>1. /\ UNCHANGED <<history, db, excused>> /\ saved' = db /\ writer' = WriterIdle /\ queue' = <<>> /\ writer.pc = "done"
    BY <1>11 DEF Close, Ended, ghosts
  <2>2. \A n \in 1..Len(history) : n \in excused' \/ n \in Numbers(queue') \/ history[n] \in db'.telemetry
    BY <1>0, <2>1 DEF NoneLost, ToWrite, WriterStory
  <2> QED BY <1>0, <1>a, <2>1, <2>2, EndFlow
<1>12. CASE Crash
  <2>1. /\ UNCHANGED <<history, saved>> /\ db' = saved /\ writer' = WriterIdle /\ queue' = <<>>
        /\ excused' = excused \union {n \in 1..Len(history) : history[n] \notin saved.telemetry}
    BY <1>12 DEF Crash, Ended
  <2>2. \A n \in 1..Len(history) : n \in excused' \/ n \in Numbers(queue') \/ history[n] \in db'.telemetry
    BY <2>1
  <2> QED BY <1>0, <1>a, <2>1, <2>2, EndFlow
<1>13. CASE \/ \E d \in Boards : IngestStatus(d) \/ Command(d)
            \/ ForgetDelete \/ ForgetCommit \/ ForgetFails \/ CommandCommit \/ CommandFails \/ Stop \/ Start \/ UNCHANGED vars
  <2>1. UNCHANGED <<history, queue, excused, writer>> /\ (saved' = saved \/ saved' = db)
    BY <1>13 DEF IngestStatus, Command, ForgetDelete, ForgetCommit, ForgetFails, CommandCommit, CommandFails, Stop, Start, vars, ghosts
  <2>2. db'.telemetry = db.telemetry
    <3>1. ASSUME NEW d \in Boards, Command(d) PROVE db'.telemetry = db.telemetry
      BY <1>0, <3>1, TableFields DEF Same
    <3>2. CASE ForgetDelete
      BY <1>0, <3>2, DeleteFields DEF Same
    <3>3. ASSUME \/ \E d \in Boards : IngestStatus(d)
                 \/ ForgetCommit \/ ForgetFails \/ CommandCommit \/ CommandFails \/ Stop \/ Start \/ UNCHANGED vars
          PROVE  db' = db
      BY <3>3 DEF IngestStatus, ForgetCommit, ForgetFails, CommandCommit, CommandFails, Stop, Start, vars
    <3> QED BY <1>13, <3>1, <3>2, <3>3
  <2>3. ToWrite' = ToWrite
    BY <2>1 DEF ToWrite
  <2> QED BY <1>0, <2>1, <2>2, <2>3, QuietFlow
<1> QED BY <1>1, <1>2, <1>3, <1>4, <1>5, <1>6, <1>7, <1>8, <1>9, <1>10, <1>11, <1>12, <1>13 DEF Next, Writer

-----------------------------------------------------------------------------
(* Where everyone is.                                                      *)

LEMMA WriterStoryKept == ASSUME StoreInv, [Next]_vars PROVE WriterStory'
<1>0. FleetTypeOK /\ Flow /\ WriterStory /\ PhaseStory /\ AllArrived /\ InOrder
  BY DEF StoreInv, Flow
<1>a. /\ WriterIdle.pc = "collect" /\ WriterIdle.batch = <<>> /\ WriterIdle.i = 1 /\ WriterIdle.live = FALSE
      /\ [WriterIdle EXCEPT !.pc = "done"].pc = "done" /\ [WriterIdle EXCEPT !.pc = "done"].batch = <<>>
      /\ [WriterIdle EXCEPT !.pc = "done"].i = 1 /\ [WriterIdle EXCEPT !.pc = "done"].live = FALSE
  BY IdleTypes
<1>b. writer.i \in Nat /\ Len(writer.batch) \in Nat /\ writer.live \in BOOLEAN
  BY <1>0, Parts
<1>c. ASSUME writer' = WriterIdle PROVE WriterStory'
  BY <1>a, <1>c DEF WriterStory
<1>d. ASSUME UNCHANGED writer, phase' = phase, known \subseteq known', excused \subseteq excused', queue' = queue
      PROVE  WriterStory'
  BY <1>0, <1>d DEF WriterStory, Current, Numbers
<1>1. ASSUME NEW d \in Boards, NEW value \in {"good", "bad", "none"}, Ingest(d, value) PROVE WriterStory'
  <2> DEFINE r == [dev |-> d, n |-> Len(history) + 1, value |-> value]
  <2>1. /\ UNCHANGED <<writer, phase>> /\ known \subseteq known' /\ excused \subseteq excused'
        /\ queue' = queue \/ (queue' = Append(queue, r) /\ (writer.pc = "done" => r.n \in excused'))
    BY <1>1 DEF Ingest
  <2>2. r \in Reading
    <3>1. Len(history) \in Nat /\ Len(history) < MaxReadings /\ MaxReadings \in Nat
      BY <1>0, <1>1, Parts, FleetAssumption DEF Ingest
    <3> QED BY <3>1 DEF Reading
  <2> HIDE DEF r
  <2>3. writer.pc = "done" => Numbers(queue') \subseteq excused'
    <3> SUFFICES ASSUME writer.pc = "done", queue' = Append(queue, r) PROVE Numbers(queue') \subseteq excused'
      BY <1>0, <2>1 DEF WriterStory, Numbers
    <3>1. queue \in Seq(Reading) /\ Len(queue) \in Nat
      BY <1>0, Parts
    <3>2. Len(queue') = Len(queue) + 1 /\ queue'[Len(queue) + 1] = r /\ \A k \in 1..Len(queue) : queue'[k] = queue[k]
      BY <2>2, <3>1, AppendProperties
    <3>3. \A k \in 1..Len(queue') : k = Len(queue) + 1 \/ k \in 1..Len(queue)
      BY <3>1, <3>2
    <3>4. \A k \in 1..Len(queue) : queue[k].n \in excused'
      BY <1>0, <2>1 DEF WriterStory, Numbers
    <3> QED BY <2>1, <3>2, <3>3, <3>4 DEF Numbers
  <2> QED BY <1>0, <2>1, <2>3 DEF WriterStory, Current
<1>2. CASE WriterTake
  <2>1. /\ writer'.pc = writer.pc /\ writer'.i = writer.i /\ writer'.live = writer.live /\ writer.pc = "collect"
    BY <1>0, <1>2, WriterFields DEF WriterTake
  <2> QED BY <1>0, <1>2, <2>1 DEF WriterStory
<1>3. CASE WriterUpsert \/ WriterInsert
  <2>1. /\ writer'.pc \in {"insert", "eval"} /\ writer'.i = writer.i /\ writer'.live = writer.live
        /\ writer'.batch = writer.batch /\ writer.pc \in {"collect", "insert"}
    BY <1>0, <1>3, WriterFields DEF WriterUpsert, WriterInsert
  <2> QED BY <1>0, <1>b, <2>1 DEF WriterStory
<1>4. CASE WriterSkip \/ WriterMark
  <2>1. /\ writer'.pc = "eval" /\ writer'.i = writer.i + 1 /\ writer'.batch = writer.batch
        /\ writer.pc \in {"eval", "raised", "cleared"} /\ writer.i \in 1..Len(writer.batch)
        /\ writer'.live = FALSE
    <3>1. /\ writer'.pc = "eval" /\ writer'.i = writer.i + 1 /\ writer'.batch = writer.batch
          /\ writer.pc \in {"eval", "raised", "cleared"} /\ writer.i \in 1..Len(writer.batch)
      <4>1. CASE WriterSkip
        <5>1. writer.pc = "eval" /\ writer.i <= Len(writer.batch) /\ writer.i \in 1..(Len(writer.batch) + 1)
          BY <1>0, <4>1 DEF WriterSkip, WriterStory
        <5>2. writer'.pc = "eval" /\ writer'.i = writer.i + 1 /\ writer'.batch = writer.batch
          BY <1>0, <4>1, <5>1, WriterFields
        <5> QED BY <1>b, <5>1, <5>2
      <4>2. CASE WriterMark
        <5>1. writer.pc \in {"raised", "cleared"} /\ writer.i \in 1..Len(writer.batch)
          BY <1>0, <4>2 DEF WriterMark, WriterStory
        <5>2. writer'.pc = "eval" /\ writer'.i = writer.i + 1 /\ writer'.batch = writer.batch
          BY <1>0, <4>2, WriterFields
        <5> QED BY <5>1, <5>2
      <4> QED BY <1>4, <4>1, <4>2
    <3>2. writer'.live = FALSE
      BY <1>0, <1>4, <1>b, WriterFields DEF WriterSkip, WriterMark, WriterStory
    <3> QED BY <3>1, <3>2
  <2> QED BY <1>0, <1>b, <2>1 DEF WriterStory
<1>5. CASE WriterRaiseSelect
  <2>1. /\ writer'.pc \in {"raise", "raised"} /\ writer'.i = writer.i /\ writer'.batch = writer.batch
        /\ writer'.live = (Current.dev \in known) /\ known' = known
        /\ writer.i \in 1..Len(writer.batch)
    BY <1>0, <1>5, <1>b, WriterFields DEF WriterRaiseSelect, WriterStory
  <2> QED BY <2>1 DEF WriterStory, Current
<1>6. CASE WriterRaiseInsert
  <2>1. /\ writer'.pc = "raised" /\ writer'.i = writer.i /\ writer'.batch = writer.batch
        /\ writer'.live = writer.live /\ known' = known /\ writer.pc = "raise"
    BY <1>0, <1>6, WriterFields DEF WriterRaiseInsert
  <2> QED BY <1>0, <2>1 DEF WriterStory, Current
<1>7. CASE WriterClear
  <2>1. /\ writer'.pc = "cleared" /\ writer'.i = writer.i /\ writer'.batch = writer.batch
        /\ known' = known /\ Current.dev \in known /\ writer.i \in 1..Len(writer.batch)
    BY <1>0, <1>7, <1>b, WriterFields DEF WriterClear, WriterStory, FleetTypeOK
  <2> QED BY <2>1 DEF WriterStory, Current
<1>8. CASE WriterCommit \/ WriterFails
  BY <1>0, <1>8, <1>c, WriterFields
<1>9. ASSUME NEW d \in Boards, ForgetStart(d) PROVE WriterStory'
  <2>1. /\ writer'.pc = writer.pc /\ writer'.i = writer.i /\ writer'.batch = writer.batch
        /\ writer'.live = (writer.live /\ Current.dev # d)
    BY <1>0, <1>9, ForgetStartFields
  <2>2. known' = known \ {d} /\ phase = "up"
    BY <1>9 DEF ForgetStart
  <2> QED BY <1>0, <1>b, <2>1, <2>2 DEF WriterStory, Current
<1>10. CASE WriterExit \/ WriterCancelled
  <2>1. /\ writer' = [WriterIdle EXCEPT !.pc = "done"] /\ phase' = "stopping" /\ Numbers(queue') \subseteq excused'
    BY <1>10, NoNumbers DEF WriterExit, WriterCancelled, Numbers
  <2> QED BY <1>a, <2>1 DEF WriterStory
<1>11. CASE Close \/ Crash
  BY <1>11, <1>c DEF Close, Crash, Ended
<1>12. CASE Stop \/ Start \/ Prune
  <2>1. UNCHANGED writer /\ writer.pc # "done" /\ (writer.live => known' = known)
    BY <1>0, <1>12, <1>a DEF Stop, Start, Prune, WriterStory, PhaseStory
  <2> QED BY <1>0, <2>1 DEF WriterStory, Current
<1>13. CASE \/ \E d \in Boards : IngestStatus(d) \/ Command(d)
            \/ ForgetDelete \/ ForgetCommit \/ ForgetFails \/ CommandCommit \/ CommandFails \/ UNCHANGED vars
  BY <1>13, <1>d DEF IngestStatus, Command, ForgetDelete, ForgetCommit, ForgetFails, CommandCommit, CommandFails, vars, ghosts
<1> QED BY <1>1, <1>2, <1>3, <1>4, <1>5, <1>6, <1>7, <1>8, <1>9, <1>10, <1>11, <1>12, <1>13 DEF Next, Writer

LEMMA PhaseStoryKept == ASSUME StoreInv, [Next]_vars PROVE PhaseStory'
<1>0. FleetTypeOK /\ WriterStory /\ PhaseStory
  BY DEF StoreInv
<1>a. WriterIdle.pc = "collect" /\ WriterIdle.batch = <<>> /\ ForgetIdle.pc = "idle"
  BY IdleTypes
<1>1. CASE phase = "down"
  <2>1. writer.pc = "collect" /\ writer.batch = <<>> /\ queue = <<>> /\ forget.pc = "idle" /\ db = saved /\ known = {}
    BY <1>0, <1>1, <1>a DEF PhaseStory
  <2>2. Start \/ CommandCommit \/ CommandFails \/ UNCHANGED vars
    BY <1>1, <2>1 DEF Next, Writer, WriterTake, WriterUpsert, WriterInsert, WriterSkip, WriterRaiseSelect, WriterRaiseInsert,
        WriterClear, WriterMark, WriterCommit, WriterFails, Ingest, IngestStatus, ForgetStart, Command, ForgetDelete,
        ForgetCommit, ForgetFails, Prune, Stop, WriterExit, WriterCancelled, Close, Crash
  <2>3. CASE Start
    BY <2>3 DEF Start, PhaseStory
  <2>4. CASE CommandCommit \/ CommandFails \/ UNCHANGED vars
    BY <1>0, <2>1, <2>4 DEF CommandCommit, CommandFails, vars, PhaseStory
  <2> QED BY <2>2, <2>3, <2>4
<1>2. CASE phase # "down"
  <2>1. CASE Close \/ Crash
    BY <1>0, <1>a, <2>1 DEF Close, Crash, Ended, PhaseStory
  <2>2. CASE Stop
    BY <2>2 DEF Stop, PhaseStory
  <2>3. ASSUME NEW d \in Boards, ForgetStart(d) PROVE PhaseStory'
    BY <2>3 DEF ForgetStart, PhaseStory
  <2>4. CASE ForgetDelete \/ ForgetCommit \/ ForgetFails
    <3>1. phase = "up" /\ phase' = phase
      BY <1>0, <2>4 DEF ForgetDelete, ForgetCommit, ForgetFails, PhaseStory
    <3> QED BY <3>1 DEF PhaseStory
  <2>5. CASE Start
    BY <1>2, <2>5 DEF Start
  <2>6. CASE Writer \/ WriterFails \/ WriterExit \/ WriterCancelled \/ CommandCommit \/ CommandFails \/ Prune \/ UNCHANGED vars
    <3>1. phase' = phase /\ forget' = forget
      BY <2>6 DEF Writer, WriterTake, WriterUpsert, WriterInsert, WriterSkip, WriterRaiseSelect, WriterRaiseInsert,
        WriterClear, WriterMark, WriterCommit, WriterFails, WriterExit, WriterCancelled, CommandCommit, CommandFails, Prune, vars
    <3> QED BY <1>0, <1>2, <3>1 DEF PhaseStory
  <2>7. ASSUME NEW d \in Boards, NEW value \in {"good", "bad", "none"}, Ingest(d, value) \/ IngestStatus(d) \/ Command(d)
        PROVE  PhaseStory'
    <3>1. phase' = phase /\ forget' = forget
      BY <2>7 DEF Ingest, IngestStatus, Command
    <3> QED BY <1>0, <1>2, <3>1 DEF PhaseStory
  <2> QED BY <2>1, <2>2, <2>3, <2>4, <2>5, <2>6, <2>7 DEF Next
<1> QED BY <1>1, <1>2

-----------------------------------------------------------------------------
(* Alerts.                                                                 *)

\* Steps that open no alert and do not look for one.
LEMMA QuietAlerts ==
    ASSUME AlertsSingle, db'.alerts \subseteq db.alerts \/ db'.alerts \subseteq saved.alerts,
           saved'.alerts \subseteq db.alerts \/ saved'.alerts \subseteq saved.alerts,
           writer'.pc # "raise" \/ (writer'.pc = writer.pc /\ Current' = Current /\ db'.alerts \subseteq db.alerts)
    PROVE  AlertsSingle'
BY DEF AlertsSingle, AtMostOneOpen, HasOpenAlert

LEMMA AlertsKept == ASSUME StoreInv, [Next]_vars PROVE AlertsSingle'
<1>0. FleetTypeOK /\ WriterStory /\ AlertsSingle /\ Flow /\ InOrder
  BY DEF StoreInv, Flow
<1>a. WriterIdle.pc = "collect" /\ [WriterIdle EXCEPT !.pc = "done"].pc = "done"
  BY IdleTypes
<1>1. CASE WriterTake \/ WriterUpsert \/ WriterInsert \/ WriterSkip \/ WriterMark \/ WriterCommit \/ WriterFails
  <2>1. writer'.pc # "raise"
    BY <1>0, <1>1, <1>a, WriterFields DEF WriterTake, WriterUpsert, WriterInsert, WriterSkip, WriterMark
  <2>2. db'.alerts = db.alerts
    <3>1. \/ \E boards \in SUBSET Boards : db' = Upserted(boards)
          \/ \E k \in 0..Len(writer.batch) : db' = Inserted(k)
          \/ db' = db
      <4>1. Len(writer.batch) \in 0..Len(writer.batch)
        BY <1>0, Parts
      <4> QED BY <1>1, <4>1 DEF WriterTake, WriterUpsert, WriterInsert, WriterSkip, WriterMark, WriterCommit, WriterFails
    <3> QED BY <1>0, <3>1, TableFields DEF Same
  <2>3. saved' = saved \/ saved' = db
    BY <1>1 DEF WriterTake, WriterUpsert, WriterInsert, WriterSkip, WriterMark, WriterCommit, WriterFails
  <2> QED BY <1>0, <2>1, <2>2, <2>3, QuietAlerts
<1>2. CASE WriterRaiseSelect
  <2>1. /\ UNCHANGED <<db, saved>> /\ writer'.i = writer.i /\ writer'.batch = writer.batch
        /\ writer'.pc = IF HasOpenAlert(db, Current.dev) THEN "raised" ELSE "raise"
    BY <1>0, <1>2, WriterFields DEF WriterRaiseSelect
  <2> QED BY <1>0, <2>1 DEF AlertsSingle, Current
<1>3. CASE WriterRaiseInsert
  <2>1. /\ saved' = saved /\ writer'.pc = "raised" /\ writer.pc = "raise"
        /\ db'.alerts = db.alerts \union {[dev |-> Current.dev, n |-> Current.n, open |-> TRUE]}
    BY <1>0, <1>3, WriterFields, TableFields DEF WriterRaiseInsert
  <2>2. \A a \in db.alerts : ~ (a.dev = Current.dev /\ a.open)
    BY <1>0, <2>1 DEF AlertsSingle, HasOpenAlert
  <2>3. AtMostOneOpen(db.alerts)
    BY <1>0 DEF AlertsSingle
  <2>4. AtMostOneOpen(db'.alerts)
    <3> DEFINE new == [dev |-> Current.dev, n |-> Current.n, open |-> TRUE]
    <3>1. new.dev = Current.dev /\ db'.alerts = db.alerts \union {new}
      BY <2>1
    <3> HIDE DEF new
    <3> SUFFICES ASSUME NEW a \in db'.alerts, NEW b \in db'.alerts, a.open, b.open, a.dev = b.dev PROVE a = b
      BY DEF AtMostOneOpen
    <3>2. CASE a = new
      BY <2>2, <3>1, <3>2
    <3>3. CASE a # new /\ b = new
      BY <2>2, <3>1, <3>3
    <3>4. CASE a # new /\ b # new
      BY <2>3, <3>1, <3>4 DEF AtMostOneOpen
    <3> QED BY <3>2, <3>3, <3>4
  <2> QED BY <1>0, <2>1, <2>4 DEF AlertsSingle
<1>4. CASE WriterClear
  <2> DEFINE closed(a) == IF a.dev = Current.dev THEN [a EXCEPT !.open = FALSE] ELSE a
  <2>1. /\ saved' = saved /\ writer'.pc = "cleared" /\ db'.alerts = {closed(a) : a \in db.alerts}
    BY <1>0, <1>4, WriterFields, TableFields DEF WriterClear
  <2>2. \A a \in db.alerts : closed(a).open => closed(a) = a
    <3> SUFFICES ASSUME NEW a \in db.alerts, a.dev = Current.dev PROVE ~ [a EXCEPT !.open = FALSE].open
      OBVIOUS
    <3>1. a \in AlertRow
      BY <1>0, Parts
    <3> QED BY <3>1 DEF AlertRow
  <2> HIDE DEF closed
  <2>3. \A b \in db'.alerts : b.open => b \in db.alerts
    BY <2>1, <2>2
  <2>4. AtMostOneOpen(db'.alerts)
    BY <1>0, <2>3 DEF AlertsSingle, AtMostOneOpen
  <2> QED BY <1>0, <2>1, <2>4 DEF AlertsSingle
<1>5. ASSUME NEW d \in Boards, ForgetStart(d) PROVE AlertsSingle'
  <2>1. writer'.pc = writer.pc /\ writer'.i = writer.i /\ writer'.batch = writer.batch
    BY <1>0, <1>5, ForgetStartFields
  <2>2. db'.alerts = db.alerts /\ saved' = saved
    BY <1>0, <1>5, TableFields DEF ForgetStart, Same
  <2> QED BY <1>0, <2>1, <2>2, QuietAlerts DEF Current
<1>6. CASE ForgetDelete
  <2>1. UNCHANGED <<writer, saved>>
    BY <1>6 DEF ForgetDelete
  <2>2. db'.alerts \subseteq db.alerts
    BY <1>0, <1>6, DeleteFields DEF Same
  <2> QED BY <1>0, <2>1, <2>2, QuietAlerts DEF Current
<1>7. CASE WriterExit \/ WriterCancelled \/ Close \/ Crash
  <2>1. writer'.pc # "raise"
    BY <1>7, <1>a DEF WriterExit, WriterCancelled, Close, Crash, Ended
  <2>2. (db' = db \/ db' = saved) /\ (saved' = saved \/ saved' = db)
    BY <1>7 DEF WriterExit, WriterCancelled, Close, Crash
  <2> QED BY <1>0, <2>1, <2>2, QuietAlerts
<1>8. CASE Prune
  <2>1. writer' = writer /\ saved' = db' /\ db'.alerts = db.alerts
    BY <1>0, <1>8, TableFields DEF Prune, Same
  <2> QED BY <1>0, <2>1, QuietAlerts DEF Current
<1>9. ASSUME NEW d \in Boards, Command(d) PROVE AlertsSingle'
  <2>1. writer' = writer /\ saved' = saved /\ db'.alerts = db.alerts
    BY <1>0, <1>9, TableFields DEF Command, Same
  <2> QED BY <1>0, <2>1, QuietAlerts DEF Current
<1>10. ASSUME \/ \E d \in Boards, value \in {"good", "bad", "none"} : Ingest(d, value)
              \/ \E d \in Boards : IngestStatus(d)
              \/ ForgetCommit \/ ForgetFails \/ CommandCommit \/ CommandFails \/ Stop \/ Start \/ UNCHANGED vars
       PROVE  AlertsSingle'
  <2>1. UNCHANGED <<writer, db>> /\ (saved' = saved \/ saved' = db)
    BY <1>10 DEF Ingest, IngestStatus, ForgetCommit, ForgetFails, CommandCommit, CommandFails, Stop, Start, vars
  <2> QED BY <1>0, <2>1, QuietAlerts DEF Current
<1> QED BY <1>1, <1>2, <1>3, <1>4, <1>5, <1>6, <1>7, <1>8, <1>9, <1>10 DEF Next, Writer

-----------------------------------------------------------------------------
(* Forgotten boards.                                                       *)

NoneOf(q, d) == \A k \in 1..Len(q) : q[k].dev # d

\* A board without rows in u has none in t.
NoWorse(t, u, d) ==
    /\ u.devices[d] = 0 => t.devices[d] = 0
    /\ Of(u.telemetry, d) = {} => Of(t.telemetry, d) = {}
    /\ Of(u.alerts, d) = {} => Of(t.alerts, d) = {}
    /\ d \notin u.commands => d \notin t.commands

\* Steps that leave the forgotten alone.
LEMMA QuietPurge ==
    ASSUME PurgeStory, forget' = forget,
           \A d \in Boards : gone'[d] = "clean" =>
               /\ gone[d] = "clean"
               /\ NoneOf(queue, d) /\ NoneOf(writer.batch, d) =>
                    /\ NoneOf(queue', d) /\ NoneOf(writer'.batch, d)
                    /\ NoWorse(db', db, d) /\ (NoWorse(saved', db, d) \/ NoWorse(saved', saved, d))
    PROVE  PurgeStory'
<1> SUFFICES ASSUME NEW d \in Boards, gone'[d] = "clean"
             PROVE  /\ NoneOf(queue', d) /\ NoneOf(writer'.batch, d)
                    /\ ~ Forgetting(d) => Clean(db', d) /\ Clean(saved', d)
                    /\ Forgetting(d) =>
                        /\ Of(db'.telemetry, d) = {}
                        /\ forget.pc # "alerts" => Of(db'.alerts, d) = {}
                        /\ forget.pc \in {"devices", "commit"} => d \notin db'.commands
                        /\ forget.pc = "commit" => db'.devices[d] = 0
  BY DEF PurgeStory, NoneOf, Forgetting
<1>1. /\ NoneOf(queue, d) /\ NoneOf(writer.batch, d)
      /\ ~ Forgetting(d) => Clean(db, d) /\ Clean(saved, d)
      /\ Forgetting(d) =>
          /\ Of(db.telemetry, d) = {}
          /\ forget.pc # "alerts" => Of(db.alerts, d) = {}
          /\ forget.pc \in {"devices", "commit"} => d \notin db.commands
          /\ forget.pc = "commit" => db.devices[d] = 0
  BY DEF PurgeStory, NoneOf
<1>2. /\ NoneOf(queue', d) /\ NoneOf(writer'.batch, d)
      /\ NoWorse(db', db, d) /\ (NoWorse(saved', db, d) \/ NoWorse(saved', saved, d))
  BY <1>1
<1>3. ~ Forgetting(d) => Clean(db', d) /\ Clean(saved', d)
  BY <1>1, <1>2 DEF Clean, NoWorse
<1> QED BY <1>1, <1>2, <1>3 DEF NoWorse

LEMMA SameIsNoWorse ==
    ASSUME NEW t, NEW d
    PROVE  NoWorse(t, t, d)
BY DEF NoWorse

\* The steps of the writer: it has none of the readings of a forgotten board.
LEMMA WriterPurge ==
    ASSUME StoreInv, Writer \/ WriterFails
    PROVE  PurgeStory'
<1>0. FleetTypeOK /\ WriterStory /\ PurgeStory
  BY DEF StoreInv
<1>1. UNCHANGED <<forget, gone>>
  BY DEF Writer, WriterTake, WriterUpsert, WriterInsert, WriterSkip, WriterRaiseSelect, WriterRaiseInsert,
        WriterClear, WriterMark, WriterCommit, WriterFails, ghosts
<1>2. ASSUME NEW d \in Boards, NoneOf(queue, d), NoneOf(writer.batch, d)
      PROVE  /\ NoneOf(queue', d) /\ NoneOf(writer'.batch, d)
             /\ NoWorse(db', db, d) /\ (NoWorse(saved', db, d) \/ NoWorse(saved', saved, d))
  <2>1. saved' = saved \/ saved' = db
    BY DEF Writer, WriterTake, WriterUpsert, WriterInsert, WriterSkip, WriterRaiseSelect, WriterRaiseInsert,
           WriterClear, WriterMark, WriterCommit, WriterFails
  <2>2. NoWorse(saved', db, d) \/ NoWorse(saved', saved, d)
    BY <2>1, SameIsNoWorse
  <2>3. NoneOf(<<>>, d) /\ NoneOf(WriterIdle.batch, d)
    BY IdleTypes DEF NoneOf
  <2>4. CASE WriterTake
    <3>1. queue # <<>> /\ queue' = Tail(queue) /\ writer'.batch = Append(writer.batch, Head(queue)) /\ db' = db
      BY <1>0, <2>4, WriterFields DEF WriterTake
    <3>2. queue \in Seq(Reading) /\ Len(queue) \in Nat /\ writer.batch \in Seq(Reading)
      BY <1>0, Parts
    <3>3. /\ Len(queue') = Len(queue) - 1 /\ Head(queue) \in Reading
          /\ \A k \in 1..Len(queue') : queue'[k] = queue[k + 1]
      BY <3>1, <3>2, HeadTailProperties
    <3>4. \A k \in 1..Len(queue') : k + 1 \in 1..Len(queue)
      BY <3>2, <3>3
    <3>5. 1 \in 1..Len(queue) /\ Head(queue) = queue[1]
      <4>1. Len(queue) # 0
        BY <3>1, <3>2, EmptySeq
      <4> QED BY <3>2, <4>1
    <3>6. /\ Len(writer'.batch) = Len(writer.batch) + 1 /\ writer'.batch[Len(writer.batch) + 1] = Head(queue)
          /\ \A k \in 1..Len(writer.batch) : writer'.batch[k] = writer.batch[k]
      BY <3>1, <3>2, <3>3, AppendProperties
    <3>7. \A k \in 1..Len(writer'.batch) : k = Len(writer.batch) + 1 \/ k \in 1..Len(writer.batch)
      BY <1>0, <3>6, Parts
    <3>8. NoneOf(queue', d) /\ NoneOf(writer'.batch, d)
      BY <1>2, <3>3, <3>4, <3>5, <3>6, <3>7 DEF NoneOf
    <3> QED BY <2>2, <3>1, <3>8, SameIsNoWorse
  <2>5. ASSUME ~ WriterTake PROVE NoneOf(queue', d) /\ NoneOf(writer'.batch, d)
    <3>1. queue' = queue
      BY <2>5 DEF Writer, WriterUpsert, WriterInsert, WriterSkip, WriterRaiseSelect, WriterRaiseInsert,
             WriterClear, WriterMark, WriterCommit, WriterFails
    <3>2. writer'.batch = writer.batch \/ writer' = WriterIdle
      BY <1>0, <2>5, WriterFields DEF Writer
    <3> QED BY <1>2, <2>3, <3>1, <3>2
  <2>6. CASE \/ \E boards \in SUBSET Boards : db' = Upserted(boards)
             \/ \E k \in 0..Len(writer.batch) : db' = Inserted(k)
    <3>1. ASSUME \E boards \in SUBSET Boards : db' = Upserted(boards) PROVE NoWorse(db', db, d)
      <4>1. PICK boards \in SUBSET Boards : db' = Upserted(boards)
        BY <3>1
      <4>2. /\ Same(db', db, {"telemetry", "alerts", "commands"})
            /\ db'.devices[d] = IF d \in boards THEN db.devices[d] + Counted(writer.batch, d) ELSE db.devices[d]
        BY <1>0, <4>1, TableFields
      <4>3. Counted(writer.batch, d) = 0
        <5>1. {k \in 1..Len(writer.batch) : writer.batch[k].dev = d} = {}
          BY <1>2 DEF NoneOf
        <5> QED BY <5>1, FS_EmptySet DEF Counted
      <4>4. db'.telemetry = db.telemetry /\ db'.alerts = db.alerts /\ db'.commands = db.commands
        BY <4>2 DEF Same
      <4> QED BY <4>2, <4>3, <4>4 DEF NoWorse
    <3>2. ASSUME \E k \in 0..Len(writer.batch) : db' = Inserted(k) PROVE NoWorse(db', db, d)
      <4>1. PICK k \in 0..Len(writer.batch) : db' = Inserted(k)
        BY <3>2
      <4>2. /\ db'.devices = db.devices /\ db'.alerts = db.alerts /\ db'.commands = db.commands
            /\ db'.telemetry = db.telemetry \union {writer.batch[j] : j \in 1..k}
        BY <1>0, <4>1, TableFields DEF Same
      <4>3. \A j \in 1..k : writer.batch[j].dev # d
        BY <1>0, <1>2, Parts DEF NoneOf
      <4>4. Of(db.telemetry, d) = {} => Of(db'.telemetry, d) = {}
        BY <4>2, <4>3 DEF Of
      <4> QED BY <4>2, <4>4 DEF NoWorse
    <3>3. NoWorse(db', db, d)
      BY <2>6, <3>1, <3>2
    <3> QED BY <2>2, <2>4, <2>5, <3>3
  <2>7. CASE WriterRaiseInsert
    <3>1. writer.pc = "raise" /\ writer.i \in 1..Len(writer.batch)
      BY <1>0, <2>7 DEF WriterRaiseInsert, WriterStory
    <3>2. Current.dev # d
      BY <1>2, <3>1 DEF Current, NoneOf
    <3>3. /\ db'.devices = db.devices /\ db'.telemetry = db.telemetry /\ db'.commands = db.commands
          /\ db'.alerts = db.alerts \union {[dev |-> Current.dev, n |-> Current.n, open |-> TRUE]}
      BY <1>0, <2>7, TableFields DEF Same
    <3>4. Of(db.alerts, d) = {} => Of(db'.alerts, d) = {}
      <4> DEFINE new == [dev |-> Current.dev, n |-> Current.n, open |-> TRUE]
      <4>1. new.dev # d /\ db'.alerts = db.alerts \union {new}
        BY <3>2, <3>3
      <4> HIDE DEF new
      <4> QED BY <4>1 DEF Of
    <3>5. NoWorse(db', db, d)
      BY <3>3, <3>4 DEF NoWorse
    <3> QED BY <2>2, <2>4, <2>5, <3>5
  <2>8. CASE WriterClear
    <3>1. /\ db'.devices = db.devices /\ db'.telemetry = db.telemetry /\ db'.commands = db.commands
          /\ db'.alerts = {IF a.dev = Current.dev THEN [a EXCEPT !.open = FALSE] ELSE a : a \in db.alerts}
      BY <1>0, <2>8, TableFields DEF Same
    <3>2. \A a \in db.alerts : (IF a.dev = Current.dev THEN [a EXCEPT !.open = FALSE] ELSE a).dev = a.dev
      <4>1. \A a \in db.alerts : a \in AlertRow
        BY <1>0, Parts
      <4>2. \A a \in AlertRow : [a EXCEPT !.open = FALSE].dev = a.dev
        BY DEF AlertRow
      <4> QED BY <4>1, <4>2
    <3>3. Of(db.alerts, d) = {} => Of(db'.alerts, d) = {}
      BY <3>1, <3>2 DEF Of
    <3>4. NoWorse(db', db, d)
      BY <3>1, <3>3 DEF NoWorse
    <3> QED BY <2>2, <2>4, <2>5, <3>4
  <2>9. CASE db' = db
    BY <2>2, <2>4, <2>5, <2>9, SameIsNoWorse
  <2>10. \/ \E boards \in SUBSET Boards : db' = Upserted(boards)
         \/ \E k \in 0..Len(writer.batch) : db' = Inserted(k)
         \/ WriterRaiseInsert \/ WriterClear \/ db' = db
    <3>1. Len(writer.batch) \in 0..Len(writer.batch) /\ Boards \in SUBSET Boards
      BY <1>0, Parts
    <3> QED BY <3>1 DEF Writer, WriterTake, WriterUpsert, WriterInsert, WriterSkip, WriterRaiseSelect,
                        WriterMark, WriterCommit, WriterFails
  <2> QED BY <2>6, <2>7, <2>8, <2>9, <2>10
<1> QED BY <1>0, <1>1, <1>2, QuietPurge

\* The steps of forget_device().
LEMMA ForgetPurge ==
    ASSUME StoreInv, (\E d \in Boards : ForgetStart(d)) \/ ForgetDelete \/ ForgetCommit \/ ForgetFails
    PROVE  PurgeStory'
<1>0. FleetTypeOK /\ WriterStory /\ PurgeStory /\ InOrder
  BY DEF StoreInv
<1>a. ForgetIdle.pc = "idle"
  BY IdleTypes
<1>b. forget.dev \in Boards /\ gone \in [Boards -> {"no", "clean", "raced"}]
  BY <1>0 DEF FleetTypeOK
<1>1. ASSUME NEW e \in Boards, ForgetStart(e) PROVE PurgeStory'
  <2>1. /\ Kept1(queue', queue, e, Len(queue)) /\ writer'.batch = writer.batch
        /\ forget' = [pc |-> "alerts", dev |-> e]
    BY <1>0, <1>1, ForgetStartFields
  <2>2. /\ db'.devices = db.devices /\ db'.alerts = db.alerts /\ db'.commands = db.commands
        /\ db'.telemetry = db.telemetry \ Of(db.telemetry, e)
    BY <1>0, <1>1, TableFields DEF Same
  <2>3. /\ saved' = saved /\ forget.pc = "idle"
        /\ gone' = [gone EXCEPT ![e] = IF \E k \in 1..Len(writer.batch) : writer.batch[k].dev = e THEN "raced" ELSE "clean"]
    BY <1>1 DEF ForgetStart
  <2>4. Of(db'.telemetry, e) = {}
    BY <2>2 DEF Of
  <2> SUFFICES ASSUME NEW d \in Boards, gone'[d] = "clean"
               PROVE  /\ NoneOf(queue', d) /\ NoneOf(writer'.batch, d)
                      /\ d # e => Clean(db', d) /\ Clean(saved', d)
    BY <2>1, <2>4 DEF PurgeStory, NoneOf, Forgetting
  <2>5. CASE d = e
    BY <1>b, <2>1, <2>3, <2>5 DEF NoneOf, Kept1
  <2>6. CASE d # e
    <3>1. gone[d] = "clean"
      BY <1>b, <2>3, <2>6
    <3>2. NoneOf(queue, d) /\ NoneOf(writer.batch, d) /\ Clean(db, d) /\ Clean(saved, d)
      BY <1>0, <2>3, <3>1 DEF PurgeStory, NoneOf, Forgetting
    <3>3. NoneOf(queue', d)
      BY <2>1, <3>2 DEF NoneOf, Kept1
    <3>4. Clean(db', d)
      BY <2>2, <3>2 DEF Clean, Of
    <3> QED BY <2>1, <2>3, <3>2, <3>3, <3>4
  <2> QED BY <2>5, <2>6
<1>2. CASE ForgetDelete
  <2> DEFINE e == forget.dev
  <2>1. /\ UNCHANGED <<queue, writer, saved, gone>>
    BY <1>2 DEF ForgetDelete, ghosts
  <2>2. /\ db'.telemetry = db.telemetry /\ forget'.dev = e /\ forget.pc \in {"alerts", "commands", "devices"}
        /\ forget.pc = "alerts" => /\ forget'.pc = "commands" /\ db'.devices = db.devices /\ db'.commands = db.commands
                                   /\ db'.alerts = db.alerts \ Of(db.alerts, e)
        /\ forget.pc = "commands" => /\ forget'.pc = "devices" /\ db'.devices = db.devices /\ db'.alerts = db.alerts
                                     /\ db'.commands = db.commands \ {e}
        /\ forget.pc = "devices" => /\ forget'.pc = "commit" /\ db'.commands = db.commands /\ db'.alerts = db.alerts
                                    /\ db'.devices[e] = 0
                                    /\ \A d \in Boards : d # e => db'.devices[d] = db.devices[d]
    BY <1>0, <1>2, DeleteFields DEF Same
  <2> SUFFICES ASSUME NEW d \in Boards, gone[d] = "clean"
               PROVE  /\ NoneOf(queue, d) /\ NoneOf(writer.batch, d)
                      /\ d # e => Clean(db', d) /\ Clean(saved, d)
                      /\ d = e =>
                          /\ Of(db'.telemetry, d) = {}
                          /\ Of(db'.alerts, d) = {}
                          /\ forget'.pc \in {"devices", "commit"} => d \notin db'.commands
                          /\ forget'.pc = "commit" => db'.devices[d] = 0
    BY <2>1, <2>2 DEF PurgeStory, NoneOf, Forgetting
  <2>3. /\ NoneOf(queue, d) /\ NoneOf(writer.batch, d)
        /\ d # e => Clean(db, d) /\ Clean(saved, d)
        /\ d = e =>
            /\ Of(db.telemetry, d) = {}
            /\ forget.pc # "alerts" => Of(db.alerts, d) = {}
            /\ forget.pc \in {"devices", "commit"} => d \notin db.commands
    BY <1>0, <2>2 DEF PurgeStory, NoneOf, Forgetting
  <2>4. CASE forget.pc = "alerts"
    <3>1. Of(db'.alerts, e) = {} /\ forget'.pc = "commands"
      BY <2>2, <2>4 DEF Of
    <3>2. d # e => Clean(db', d)
      BY <2>2, <2>3, <2>4 DEF Clean, Of
    <3> QED BY <2>2, <2>3, <2>4, <3>1, <3>2
  <2>5. CASE forget.pc = "commands"
    <3>2. d # e => Clean(db', d)
      BY <2>2, <2>3, <2>5 DEF Clean
    <3> QED BY <2>2, <2>3, <2>5, <3>2
  <2>6. CASE forget.pc = "devices"
    <3>2. d # e => Clean(db', d)
      BY <2>2, <2>3, <2>6 DEF Clean
    <3> QED BY <2>2, <2>3, <2>6, <3>2
  <2> QED BY <2>2, <2>4, <2>5, <2>6
<1>3. CASE ForgetCommit
  <2>1. /\ UNCHANGED <<queue, writer, db, gone>> /\ saved' = db /\ forget.pc = "commit" /\ forget' = ForgetIdle
    BY <1>3 DEF ForgetCommit, ghosts
  <2> SUFFICES ASSUME NEW d \in Boards, gone[d] = "clean"
               PROVE  NoneOf(queue, d) /\ NoneOf(writer.batch, d) /\ Clean(db, d)
    BY <1>a, <2>1 DEF PurgeStory, NoneOf, Forgetting, Clean
  <2>2. NoneOf(queue, d) /\ NoneOf(writer.batch, d)
    BY <1>0 DEF PurgeStory, NoneOf
  <2>3. CASE Forgetting(d)
    BY <1>0, <2>1, <2>2, <2>3 DEF PurgeStory, Clean
  <2>4. CASE ~ Forgetting(d)
    BY <1>0, <2>2, <2>4 DEF PurgeStory
  <2> QED BY <2>3, <2>4
<1>4. CASE ForgetFails
  <2>1. /\ UNCHANGED <<queue, writer, db, saved>> /\ gone' = [gone EXCEPT ![forget.dev] = "no"] /\ forget' = ForgetIdle
    BY <1>4 DEF ForgetFails
  <2> SUFFICES ASSUME NEW d \in Boards, gone'[d] = "clean"
               PROVE  NoneOf(queue, d) /\ NoneOf(writer.batch, d) /\ Clean(db, d) /\ Clean(saved, d)
    BY <1>a, <2>1 DEF PurgeStory, NoneOf, Forgetting, Clean
  <2>2. gone[d] = "clean" /\ d # forget.dev
    BY <1>b, <2>1
  <2> QED BY <1>0, <2>2 DEF PurgeStory, NoneOf, Forgetting
<1> QED BY <1>1, <1>2, <1>3, <1>4

LEMMA PurgeKept == ASSUME StoreInv, [Next]_vars PROVE PurgeStory'
<1>0. FleetTypeOK /\ PurgeStory /\ PhaseStory
  BY DEF StoreInv
<1>a. /\ ForgetIdle.pc = "idle" /\ WriterIdle.batch = <<>> /\ [WriterIdle EXCEPT !.pc = "done"].batch = <<>>
      /\ \A d : NoneOf(<<>>, d)
  BY IdleTypes DEF NoneOf
<1>b. gone \in [Boards -> {"no", "clean", "raced"}]
  BY <1>0 DEF FleetTypeOK
<1>1. ASSUME NEW e \in Boards, NEW value \in {"good", "bad", "none"}, Ingest(e, value) PROVE PurgeStory'
  <2> DEFINE r == [dev |-> e, n |-> Len(history) + 1, value |-> value]
  <2>1. /\ UNCHANGED <<writer, forget, db, saved>> /\ gone' = [gone EXCEPT ![e] = "no"]
        /\ queue' = queue \/ queue' = Append(queue, r)
    BY <1>1 DEF Ingest
  <2>2. r \in Reading
    <3>1. Len(history) \in Nat /\ Len(history) < MaxReadings /\ MaxReadings \in Nat
      BY <1>0, <1>1, Parts, FleetAssumption DEF Ingest
    <3> QED BY <3>1 DEF Reading
  <2>3. ASSUME NEW d \in Boards, gone'[d] = "clean"
        PROVE  gone[d] = "clean" /\ d # e
    BY <1>b, <2>1, <2>3
  <2>4. ASSUME NEW d \in Boards, d # e, NoneOf(queue, d) PROVE NoneOf(queue', d)
    <3>1. r.dev # d
      BY <2>4
    <3> HIDE DEF r
    <3>2. queue \in Seq(Reading) /\ Len(queue) \in Nat
      BY <1>0, Parts
    <3>3. CASE queue' = Append(queue, r)
      <4>1. Len(queue') = Len(queue) + 1 /\ queue'[Len(queue) + 1] = r /\ \A k \in 1..Len(queue) : queue'[k] = queue[k]
        BY <2>2, <3>2, <3>3, AppendProperties
      <4>2. \A k \in 1..Len(queue') : k = Len(queue) + 1 \/ k \in 1..Len(queue)
        BY <3>2, <4>1
      <4> QED BY <2>4, <3>1, <4>1, <4>2 DEF NoneOf
    <3> QED BY <2>1, <2>4, <3>3
  <2> HIDE DEF r
  <2> QED BY <1>0, <2>1, <2>3, <2>4, QuietPurge, SameIsNoWorse
<1>2. ASSUME NEW e \in Boards, Command(e) PROVE PurgeStory'
  <2>1. UNCHANGED <<queue, writer, forget, saved>> /\ gone' = [gone EXCEPT ![e] = "no"]
    BY <1>2 DEF Command
  <2>2. /\ db'.devices = db.devices /\ db'.telemetry = db.telemetry /\ db'.alerts = db.alerts
        /\ db'.commands = db.commands \union {e}
    BY <1>0, <1>2, TableFields DEF Same
  <2>3. ASSUME NEW d \in Boards, gone'[d] = "clean" PROVE gone[d] = "clean" /\ NoWorse(db', db, d)
    BY <1>b, <2>1, <2>2, <2>3 DEF NoWorse
  <2> QED BY <1>0, <2>1, <2>3, QuietPurge, SameIsNoWorse
<1>3. CASE Prune
  <2>1. UNCHANGED <<queue, writer, forget, gone>> /\ saved' = db'
    BY <1>3 DEF Prune
  <2>2. PICK k : /\ db'.devices = db.devices /\ db'.alerts = db.alerts /\ db'.commands = db.commands
                 /\ db'.telemetry = db.telemetry \ Old(k)
    BY <1>0, <1>3, TableFields DEF Same
  <2>3. \A d : NoWorse(db', db, d)
    BY <2>2 DEF NoWorse, Of
  <2> QED BY <1>0, <2>1, <2>3, QuietPurge
<1>4. CASE Crash
  <2>1. /\ db' = saved /\ saved' = saved /\ queue' = <<>> /\ writer' = WriterIdle /\ forget' = ForgetIdle
        /\ gone' = [d \in Boards |-> IF Forgetting(d) THEN "no" ELSE gone[d]]
    BY <1>4 DEF Crash, Ended, Forgetting
  <2> SUFFICES ASSUME NEW d \in Boards, gone'[d] = "clean" PROVE Clean(saved, d)
    BY <1>a, <2>1 DEF PurgeStory, NoneOf, Forgetting, Clean
  <2>2. gone[d] = "clean" /\ ~ Forgetting(d)
    BY <2>1
  <2> QED BY <1>0, <2>2 DEF PurgeStory
<1>5. CASE Close
  <2>1. /\ UNCHANGED <<db, gone>> /\ saved' = db /\ queue' = <<>> /\ writer' = WriterIdle /\ forget' = ForgetIdle
        /\ forget.pc = "idle"
    BY <1>0, <1>5 DEF Close, Ended, ghosts, PhaseStory
  <2> SUFFICES ASSUME NEW d \in Boards, gone[d] = "clean" PROVE Clean(db, d)
    BY <1>a, <2>1 DEF PurgeStory, NoneOf, Forgetting, Clean
  <2> QED BY <1>0, <2>1 DEF PurgeStory, Forgetting
<1>6. CASE WriterExit \/ WriterCancelled
  <2>1. UNCHANGED <<queue, forget, db, saved, gone>> /\ writer'.batch = <<>>
    BY <1>6, <1>a DEF WriterExit, WriterCancelled, ghosts
  <2> QED BY <1>0, <1>a, <2>1, QuietPurge, SameIsNoWorse
<1>7. ASSUME \/ \E d \in Boards : IngestStatus(d)
             \/ CommandCommit \/ CommandFails \/ Stop \/ Start \/ UNCHANGED vars
      PROVE  PurgeStory'
  <2>1. UNCHANGED <<queue, writer, forget, db, gone>> /\ (saved' = saved \/ saved' = db)
    BY <1>7 DEF IngestStatus, CommandCommit, CommandFails, Stop, Start, vars, ghosts
  <2> QED BY <1>0, <2>1, QuietPurge, SameIsNoWorse
<1> QED BY <1>1, <1>2, <1>3, <1>4, <1>5, <1>6, <1>7, WriterPurge, ForgetPurge DEF Next

-----------------------------------------------------------------------------
(* The theorems.                                                           *)

\* What has at most one element counts as at most one.
LEMMA SmallSets == Cardinality({}) <= 1 /\ \A x : Cardinality({x}) <= 1
<1>1. Cardinality({}) = 0
  BY FS_EmptySet
<1>2. ASSUME NEW x PROVE Cardinality({x}) <= 1
  <2>1. Cardinality({x}) = 1
    BY FS_Singleton
  <2> QED BY <2>1
<1> QED BY <1>1, <1>2

\* Nothing has arrived.
LEMMA InitHasStoreInv == Init => StoreInv
<1> SUFFICES ASSUME Init PROVE StoreInv
  OBVIOUS
<1>0. /\ phase = "up" /\ known = {} /\ active = {} /\ queue = <<>> /\ writer = WriterIdle /\ forget = ForgetIdle
      /\ logging = FALSE /\ db = NoRows /\ saved = NoRows /\ history = <<>> /\ excused = {}
      /\ gone = [d \in Boards |-> "no"]
  BY DEF Init
<1>1. /\ WriterIdle \in WriterState /\ WriterIdle.pc = "collect" /\ WriterIdle.batch = <<>> /\ WriterIdle.i = 1
      /\ WriterIdle.live = FALSE /\ ForgetIdle.pc = "idle"
      /\ ForgetIdle \in [pc : {"idle", "alerts", "commands", "devices", "commit"}, dev : Boards]
      /\ NoRows \in Tables /\ <<>> \in Seq(Reading) /\ Len(<<>>) = 0
  BY IdleTypes
<1>2. NoRows.telemetry = {} /\ NoRows.alerts = {}
  BY DEF NoRows
<1>3. FleetTypeOK
  <2>1. queue \in Seq(Reading) /\ history \in Seq(Reading) /\ Len(queue) = 0 /\ Len(history) = 0
    BY <1>0, <1>1
  <2>2. writer \in WriterState /\ Len(writer.batch) = 0
    BY <1>0, <1>1
  <2>3. forget \in [pc : {"idle", "alerts", "commands", "devices", "commit"}, dev : Boards]
    BY <1>0, <1>1
  <2>4. gone \in [Boards -> {"no", "clean", "raced"}]
    BY <1>0
  <2>5. db \in Tables /\ saved \in Tables
    BY <1>0, <1>1
  <2>6. /\ phase \in {"up", "stopping", "down"} /\ known \subseteq Boards /\ active \subseteq known
        /\ logging \in BOOLEAN /\ excused \subseteq 1..Len(history)
    BY <1>0
  <2>7. Len(queue) <= QueueSize /\ Len(writer.batch) <= Batch
    BY <2>1, <2>2, FleetAssumption
  <2> QED BY <2>1, <2>2, <2>3, <2>4, <2>5, <2>6, <2>7 DEF FleetTypeOK
<1>4. AllArrived /\ InOrder /\ NotYetStored /\ NoneLost
  BY <1>0, <1>1, <1>2, FleetAssumption DEF AllArrived, InOrder, Increasing, NotYetStored, NoneLost
<1>5. WriterStory /\ PhaseStory
  BY <1>0, <1>1 DEF WriterStory, PhaseStory
<1>6. AlertsSingle
  BY <1>0, <1>1, <1>2 DEF AlertsSingle, AtMostOneOpen
<1>7. PurgeStory
  BY <1>0 DEF PurgeStory
<1> QED BY <1>3, <1>4, <1>5, <1>6, <1>7 DEF StoreInv

\* No step leaves the invariant.
LEMMA StoreInvKept == ASSUME StoreInv, [Next]_vars PROVE StoreInv'
BY TypesKept, FlowKept, WriterStoryKept, PhaseStoryKept, AlertsKept, PurgeKept DEF StoreInv, Flow

\* Types, the ways of the readings and the alerts, the deletion of a board and
\* the phases of the writer and the server hold in every state: FleetRegistry.
THEOREM StoreInvAlways == Spec => []StoreInv
<1>1. StoreInv /\ [Next]_vars => StoreInv'
  BY StoreInvKept
<1> QED BY <1>1, InitHasStoreInv, PTL DEF Spec

\* The queue and the batch keep their limits, and whatever is kept of a board
\* or a reading is of its type: the queue and the tables of FleetRegistry.
THEOREM FleetTypes == Spec => []FleetTypeOK
<1>1. StoreInv => FleetTypeOK
  BY DEF StoreInv
<1> QED BY <1>1, StoreInvAlways, PTL

\* Every reading is queued, with the writer or stored, and in one of these
\* places only, unless it was given up knowingly; a server that is down has
\* everything on disk: ingest(), _writer_loop(), forget_device(), stop().
THEOREM ReadingsAccounted == Spec => []EveryReadingAccounted
<1>1. ASSUME StoreInv PROVE EveryReadingAccounted
  <2>0. FleetTypeOK /\ AllArrived /\ InOrder /\ NotYetStored /\ NoneLost /\ PhaseStory
    BY <1>1 DEF StoreInv
  <2>1. phase = "down" => db = saved
    BY <2>0 DEF PhaseStory
  <2> SUFFICES ASSUME NEW n \in 1..Len(history)
               PROVE  Cardinality(Places(n)) <= 1 /\ (n \notin excused => Places(n) # {})
    BY <2>1 DEF EveryReadingAccounted
  <2> DEFINE P == Places(n)
  <2>2. /\ "queue" \in P <=> n \in Numbers(queue)
        /\ "batch" \in P <=> n \in ToWrite
        /\ "telemetry" \in P <=> history[n] \in db.telemetry
        /\ P \subseteq {"queue", "batch", "telemetry"}
    BY DEF Places, ToWrite
  <2>3. ~ (n \in Numbers(queue) /\ n \in ToWrite)
    <3> SUFFICES ASSUME n \in Numbers(queue), n \in Numbers(writer.batch) PROVE FALSE
      BY DEF ToWrite
    <3>1. PICK j \in 1..Len(queue) : queue[j].n = n
      BY DEF Numbers
    <3>2. PICK i \in 1..Len(writer.batch) : writer.batch[i].n = n
      BY DEF Numbers
    <3>3. writer.batch[i].n < queue[j].n /\ queue[j].n \in Nat /\ writer.batch[i].n \in Nat
      BY <2>0, Parts DEF InOrder
    <3> QED BY <3>1, <3>2, <3>3
  <2>4. history[n] \in db.telemetry => n \notin Numbers(queue) \union ToWrite
    BY <2>0 DEF NotYetStored, AllArrived
  <2>5. n \notin excused => P # {}
    BY <2>0, <2>2 DEF NoneLost
  <2> HIDE DEF P
  <2>6. P = {} \/ P = {"queue"} \/ P = {"batch"} \/ P = {"telemetry"}
    BY <2>2, <2>3, <2>4
  <2>7. Cardinality(P) <= 1
    BY <2>6, SmallSets
  <2> QED BY <2>5, <2>7 DEF P
<1> QED BY <1>1, StoreInvAlways, PTL

\* A condition of a board has at most one open alert, in the tables and on
\* disk, whatever fails and whenever the process restarts: raise_alert() and
\* _evaluate_alerts().
THEOREM OneOpenAlertAlways == Spec => []OneOpenAlert
<1>1. ASSUME StoreInv PROVE OneOpenAlert
  <2> SUFFICES ASSUME NEW t \in {db, saved}, NEW d \in Boards
               PROVE  Cardinality({a \in Of(t.alerts, d) : a.open}) <= 1
    BY DEF OneOpenAlert
  <2> DEFINE A == {a \in Of(t.alerts, d) : a.open}
  <2>1. AtMostOneOpen(t.alerts)
    BY <1>1 DEF StoreInv, AlertsSingle
  <2>2. \A a, b \in A : a = b
    BY <2>1 DEF AtMostOneOpen, Of
  <2> HIDE DEF A
  <2>3. A = {} \/ \E a : A = {a}
    BY <2>2
  <2>4. Cardinality(A) <= 1
    BY <2>3, SmallSets
  <2> QED BY <2>4 DEF A
<1> QED BY <1>1, StoreInvAlways, PTL

\* A board that is forgotten while the writer has none of its readings is gone
\* from every table, and from the disk, until it is heard of again:
\* forget_device() and delete_device().
THEOREM ForgetPurgesAlways == Spec => []ForgetPurges
<1>1. StoreInv => ForgetPurges
  BY DEF StoreInv, PurgeStory, ForgetPurges, Forgetting, Clean
<1> QED BY <1>1, StoreInvAlways, PTL

-----------------------------------------------------------------------------
(* The rows behind the counters and the alerts, as long as no board is     *)
(* forgotten: the deletion of one races with the batch.                    *)

\* What the upsert has counted and the insert has yet to store.
Owed(d) == IF writer.pc = "insert" THEN Counted(writer.batch, d) ELSE 0

Covered(t, d, owed) ==
    IsFiniteSet(Of(t.telemetry, d)) /\ Cardinality(Of(t.telemetry, d)) + owed <= t.devices[d]

CountStory == \A d \in Boards : Covered(db, d, Owed(d)) /\ Covered(saved, d, 0)

\* What the alert set of the registry has in the tables.
ActiveStory ==
    /\ forget.pc = "idle"
    /\ phase = "down" => active = {}
    /\ ActiveHasRow
    /\ writer.pc = "raised" /\ writer.live => HasOpenAlert(db, Current.dev)
    /\ writer.pc = "cleared" => writer.live

\* Counting the readings of a board in a batch.
LEMMA CountedIs ==
    ASSUME NEW q \in Seq(Reading), NEW d \in Boards, NEW k \in 0..Len(q)
    PROVE  /\ Counted(q, d) \in Nat
           /\ IsFiniteSet(Of({q[j] : j \in 1..k}, d))
           /\ Cardinality(Of({q[j] : j \in 1..k}, d)) <= Counted(q, d)
<1> DEFINE A == {j \in 1..Len(q) : q[j].dev = d}
           S == {j \in 1..k : q[j].dev = d}
           T == Of({q[j] : j \in 1..k}, d)
           f == [j \in S |-> q[j]]
<1>0. Len(q) \in Nat /\ k \in Nat /\ S \subseteq A /\ S \subseteq 1..k /\ A \subseteq 1..Len(q)
  BY LenProperties
<1>1. IsFiniteSet(A)
  <2>1. IsFiniteSet(1..Len(q))
    BY <1>0, FS_Interval
  <2> HIDE DEF A
  <2> QED BY <1>0, <2>1, FS_Subset
<1>2. IsFiniteSet(S) /\ Cardinality(S) <= Cardinality(A)
  BY <1>0, <1>1, FS_Subset
<1>3. f \in Surjection(S, T)
  BY DEF Surjection, Of
<1> HIDE DEF f, S, T, A
<1>4. IsFiniteSet(T) /\ Cardinality(T) <= Cardinality(S)
  BY <1>2, <1>3, FS_Surjection
<1>5. Cardinality(A) \in Nat /\ Cardinality(S) \in Nat /\ Cardinality(T) \in Nat
  BY <1>1, <1>2, <1>4, FS_CardinalityType
<1>6. Cardinality(T) <= Cardinality(A)
  BY <1>2, <1>4, <1>5
<1>7. Counted(q, d) = Cardinality(A)
  BY DEF Counted, A
<1> QED BY <1>4, <1>5, <1>6, <1>7 DEF T

\* Fewer rows are covered as well.
LEMMA FewerCovered ==
    ASSUME NEW t, NEW u, NEW d \in Boards, NEW m \in Nat, NEW n \in Nat, n <= m, Covered(u, d, m),
           t.telemetry \subseteq u.telemetry, t.devices[d] \in Nat, u.devices[d] \in Nat, u.devices[d] <= t.devices[d]
    PROVE  Covered(t, d, n)
<1>1. IsFiniteSet(Of(u.telemetry, d)) /\ Cardinality(Of(u.telemetry, d)) + m <= u.devices[d]
  BY DEF Covered
<1>2. Of(t.telemetry, d) \subseteq Of(u.telemetry, d)
  BY DEF Of
<1>3. IsFiniteSet(Of(t.telemetry, d)) /\ Cardinality(Of(t.telemetry, d)) <= Cardinality(Of(u.telemetry, d))
  BY <1>1, <1>2, FS_Subset
<1>4. Cardinality(Of(t.telemetry, d)) \in Nat /\ Cardinality(Of(u.telemetry, d)) \in Nat
  BY <1>1, <1>3, FS_CardinalityType
<1>5. Cardinality(Of(t.telemetry, d)) + n <= t.devices[d]
  BY <1>1, <1>3, <1>4
<1> QED BY <1>3, <1>5 DEF Covered

\* insert_telemetry_batch(), of the whole batch or a part of it.
LEMMA InsertedCovered ==
    ASSUME FleetTypeOK, NEW k \in 0..Len(writer.batch), NEW d \in Boards, Covered(db, d, Counted(writer.batch, d))
    PROVE  Covered(Inserted(k), d, 0)
<1> DEFINE new == {writer.batch[j] : j \in 1..k}
<1>0. db \in Tables /\ writer.batch \in Seq(Reading) /\ db.devices[d] \in Nat
  BY Parts DEF FleetTypeOK, Tables
<1>1. Inserted(k).telemetry = db.telemetry \union new /\ Inserted(k).devices = db.devices
  BY TableFields DEF Same
<1>2. /\ Counted(writer.batch, d) \in Nat /\ IsFiniteSet(Of(new, d))
      /\ Cardinality(Of(new, d)) <= Counted(writer.batch, d)
  BY <1>0, CountedIs
<1> HIDE DEF new
<1>3. /\ IsFiniteSet(Of(db.telemetry, d))
      /\ Cardinality(Of(db.telemetry, d)) + Counted(writer.batch, d) <= db.devices[d]
  BY DEF Covered
<1> DEFINE S == Of(db.telemetry, d)
           T == Of(new, d)
<1>4. Of(Inserted(k).telemetry, d) = S \union T
  BY <1>1 DEF Of
<1>5. IsFiniteSet(S) /\ IsFiniteSet(T)
  BY <1>2, <1>3
<1> HIDE DEF S, T
<1>6. /\ IsFiniteSet(S \union T)
      /\ Cardinality(S \union T) = Cardinality(S) + Cardinality(T) - Cardinality(S \cap T)
  BY <1>5, FS_Union
<1>7. IsFiniteSet(S \cap T)
  BY <1>5, FS_Subset
<1>8. Cardinality(S) \in Nat /\ Cardinality(T) \in Nat /\ Cardinality(S \cap T) \in Nat /\ Cardinality(S \union T) \in Nat
  BY <1>5, <1>6, <1>7, FS_CardinalityType
<1>9. Cardinality(S \union T) + 0 <= db.devices[d]
  BY <1>0, <1>2, <1>3, <1>6, <1>8 DEF S, T
<1> QED BY <1>1, <1>4, <1>6, <1>9 DEF Covered

\* upsert_devices_batch(), of all boards or some of them.
LEMMA UpsertedCovered ==
    ASSUME FleetTypeOK, NEW boards \in SUBSET Boards, NEW d \in Boards, Covered(db, d, 0)
    PROVE  Covered(Upserted(boards), d, IF d \in boards THEN Counted(writer.batch, d) ELSE 0)
<1>0. /\ writer.batch \in Seq(Reading) /\ db.devices[d] \in Nat /\ Len(writer.batch) \in 0..Len(writer.batch)
  BY Parts DEF FleetTypeOK, Tables
<1>1. /\ Upserted(boards).telemetry = db.telemetry
      /\ Upserted(boards).devices[d] = IF d \in boards THEN db.devices[d] + Counted(writer.batch, d) ELSE db.devices[d]
  BY TableFields DEF Same
<1>2. Counted(writer.batch, d) \in Nat
  BY <1>0, CountedIs
<1>3. IsFiniteSet(Of(db.telemetry, d)) /\ Cardinality(Of(db.telemetry, d)) + 0 <= db.devices[d]
  BY DEF Covered
<1>4. Cardinality(Of(db.telemetry, d)) \in Nat
  BY <1>3, FS_CardinalityType
<1>5. CASE d \in boards
  BY <1>0, <1>1, <1>2, <1>3, <1>4, <1>5 DEF Covered
<1>6. CASE d \notin boards
  BY <1>0, <1>1, <1>3, <1>6 DEF Covered
<1> QED BY <1>5, <1>6

\* Counters and rows, step by step.
LEMMA CountKept ==
    ASSUME StoreInv, CountStory, ActiveStory, "forget" \notin Events, [Next]_vars
    PROVE  CountStory'
<1>0. FleetTypeOK /\ FleetTypeOK' /\ writer.batch \in Seq(Reading) /\ Len(writer.batch) \in 0..Len(writer.batch)
  BY TypesKept, Parts DEF StoreInv
<1>a. WriterIdle.pc = "collect" /\ [WriterIdle EXCEPT !.pc = "done"].pc = "done"
  BY IdleTypes
<1> SUFFICES ASSUME NEW d \in Boards
             PROVE  /\ Covered(db', d, IF writer'.pc = "insert" THEN Counted(writer'.batch, d) ELSE 0)
                    /\ Covered(saved', d, 0)
  BY DEF CountStory, Owed
<1>b. db.devices[d] \in Nat /\ saved.devices[d] \in Nat /\ db'.devices[d] \in Nat /\ saved'.devices[d] \in Nat
  BY <1>0 DEF FleetTypeOK, Tables
<1>c. Counted(writer.batch, d) \in Nat /\ Owed(d) \in Nat /\ 0 \in Nat /\ 0 <= Owed(d)
  <2>1. Counted(writer.batch, d) \in Nat
    BY <1>0, CountedIs
  <2> QED BY <2>1 DEF Owed
<1>d. Covered(db, d, Owed(d)) /\ Covered(saved, d, 0)
  BY DEF CountStory
<1>e. Covered(db, d, 0)
  <2>1. db.telemetry \subseteq db.telemetry /\ db.devices[d] <= db.devices[d]
    BY <1>b
  <2> QED BY <1>b, <1>c, <1>d, <2>1, FewerCovered
<1>1. CASE WriterUpsert
  <2>1. db' = Upserted(Boards) /\ saved' = saved /\ writer'.pc = "insert" /\ writer'.batch = writer.batch
    BY <1>0, <1>1, WriterFields DEF WriterUpsert
  <2>2. Covered(Upserted(Boards), d, Counted(writer.batch, d))
    BY <1>0, <1>e, UpsertedCovered
  <2> QED BY <1>d, <2>1, <2>2
<1>2. CASE WriterInsert
  <2>1. /\ db' = Inserted(Len(writer.batch)) /\ saved' = saved /\ writer'.pc = "eval" /\ writer.pc = "insert"
    BY <1>0, <1>2, WriterFields DEF WriterInsert
  <2>2. Owed(d) = Counted(writer.batch, d)
    BY <2>1 DEF Owed
  <2>3. Covered(Inserted(Len(writer.batch)), d, 0)
    BY <1>0, <1>d, <2>2, InsertedCovered
  <2> QED BY <1>d, <2>1, <2>3
<1>3. CASE WriterFails
  <2>1. writer'.pc = "collect" /\ saved' = saved
    BY <1>0, <1>3, <1>a, WriterFields DEF WriterFails
  <2>2. CASE \E boards \in SUBSET Boards : db' = Upserted(boards)
    <3>1. PICK boards \in SUBSET Boards : db' = Upserted(boards)
      BY <2>2
    <3> DEFINE m == IF d \in boards THEN Counted(writer.batch, d) ELSE 0
    <3>2. Covered(db', d, m)
      BY <1>0, <1>e, <3>1, UpsertedCovered
    <3>3. m \in Nat /\ 0 <= m
      BY <1>c
    <3> HIDE DEF m
    <3>4. Covered(db', d, 0)
      BY <1>b, <1>c, <3>2, <3>3, FewerCovered
    <3> QED BY <1>d, <2>1, <3>4
  <2>3. CASE writer.pc = "insert" /\ \E k \in 0..Len(writer.batch) : db' = Inserted(k)
    <3>1. Owed(d) = Counted(writer.batch, d)
      BY <2>3 DEF Owed
    <3>2. Covered(db', d, 0)
      BY <1>0, <1>d, <2>3, <3>1, InsertedCovered
    <3> QED BY <1>d, <2>1, <3>2
  <2>4. CASE db' = db
    BY <1>d, <1>e, <2>1, <2>4
  <2> QED BY <1>3, <2>2, <2>3, <2>4 DEF WriterFails
<1>4. CASE WriterRaiseInsert \/ WriterClear
  <2>1. writer'.pc # "insert" /\ saved' = saved
    BY <1>0, <1>4, WriterFields DEF WriterRaiseInsert, WriterClear
  <2>2. db'.telemetry = db.telemetry /\ db'.devices = db.devices
    BY <1>0, <1>4, TableFields DEF Same
  <2>3. Covered(db', d, 0)
    BY <1>e, <2>2 DEF Covered
  <2> QED BY <1>d, <2>1, <2>3
<1>5. CASE Prune
  <2>1. writer' = writer /\ saved' = db'
    BY <1>5 DEF Prune
  <2>2. db'.telemetry \subseteq db.telemetry /\ db'.devices[d] = db.devices[d]
    BY <1>0, <1>5, TableFields DEF Same
  <2>a. db.devices[d] <= db'.devices[d] /\ Owed(d) <= Owed(d) /\ 0 <= 0
    BY <1>b, <1>c, <2>2
  <2>3. Covered(db', d, Owed(d))
    BY <1>b, <1>c, <1>d, <2>2, <2>a, FewerCovered
  <2>4. Covered(db', d, 0)
    BY <1>b, <1>c, <1>e, <2>2, <2>a, FewerCovered
  <2> QED BY <2>1, <2>3, <2>4 DEF Owed
<1>6. CASE \E e \in Boards : Command(e)
  <2>1. writer' = writer /\ saved' = saved
    BY <1>6 DEF Command
  <2>2. db'.telemetry = db.telemetry /\ db'.devices = db.devices
    BY <1>0, <1>6, TableFields DEF Same
  <2>3. Covered(db', d, Owed(d))
    BY <1>d, <2>2 DEF Covered
  <2> QED BY <1>d, <2>1, <2>3 DEF Owed
<1>7. ASSUME \/ WriterTake \/ WriterSkip \/ WriterRaiseSelect \/ WriterMark \/ WriterCommit
             \/ WriterExit \/ WriterCancelled \/ Close \/ Crash
      PROVE  writer'.pc # "insert" /\ db' \in {db, saved} /\ saved' \in {db, saved}
  <2>1. db' \in {db, saved} /\ saved' \in {db, saved}
    BY <1>7 DEF WriterTake, WriterSkip, WriterRaiseSelect, WriterMark, WriterCommit, WriterExit, WriterCancelled,
                Close, Crash
  <2>2. writer'.pc # "insert"
    BY <1>0, <1>7, <1>a, WriterFields DEF WriterTake, WriterSkip, WriterRaiseSelect, WriterMark, WriterExit,
       WriterCancelled, Close, Crash, Ended
  <2> QED BY <2>1, <2>2
<1>8. ASSUME \/ \E e \in Boards : IngestStatus(e) \/ \E value \in {"good", "bad", "none"} : Ingest(e, value)
             \/ CommandCommit \/ CommandFails \/ Stop \/ Start \/ UNCHANGED vars
      PROVE  writer' = writer /\ db' = db /\ saved' \in {db, saved}
  BY <1>8 DEF IngestStatus, Ingest, CommandCommit, CommandFails, Stop, Start, vars
<1>9. ~ (\E e \in Boards : ForgetStart(e)) /\ ~ (ForgetDelete \/ ForgetCommit \/ ForgetFails)
  BY DEF ActiveStory, ForgetStart, ForgetDelete, ForgetCommit, ForgetFails
<1>10. CASE writer'.pc # "insert" /\ db' \in {db, saved} /\ saved' \in {db, saved}
  BY <1>d, <1>e, <1>10
<1>11. CASE writer' = writer /\ db' = db /\ saved' \in {db, saved}
  BY <1>d, <1>e, <1>11 DEF Owed
<1> QED BY <1>1, <1>2, <1>3, <1>4, <1>5, <1>6, <1>7, <1>8, <1>9, <1>10, <1>11 DEF Next, Writer

\* Steps that leave the alerts of the registry and of the tables alone.
LEMMA QuietActive ==
    ASSUME ActiveStory, forget'.pc = "idle", active' = active, db'.alerts = db.alerts,
           phase' = phase \/ (phase = "up" /\ phase' = "stopping") \/ (phase = "down" /\ phase' = "up"),
           \/ writer' = writer
           \/ /\ writer'.i = writer.i /\ writer'.batch = writer.batch /\ writer'.live = writer.live
              /\ writer'.pc = writer.pc
           \/ writer.pc # "cleared" /\ writer'.pc \notin {"raised", "cleared"}
    PROVE  ActiveStory'
BY DEF ActiveStory, ActiveHasRow, HasOpenAlert, Current

\* Alerts and their rows, step by step.
LEMMA ActiveKept ==
    ASSUME StoreInv, ActiveStory, "forget" \notin Events, [Next]_vars
    PROVE  ActiveStory'
<1>0. FleetTypeOK /\ WriterStory /\ PhaseStory
  BY DEF StoreInv
<1>a. WriterIdle.pc = "collect" /\ [WriterIdle EXCEPT !.pc = "done"].pc = "done" /\ ForgetIdle.pc = "idle"
  BY IdleTypes
<1>b. forget.pc = "idle"
  BY DEF ActiveStory
<1>1. CASE WriterTake \/ WriterUpsert \/ WriterInsert \/ WriterSkip \/ WriterCommit \/ WriterFails
  <2>1. UNCHANGED <<active, phase, forget>>
    BY <1>1 DEF WriterTake, WriterUpsert, WriterInsert, WriterSkip, WriterCommit, WriterFails
  <2>2. writer.pc # "cleared" /\ writer'.pc \notin {"raised", "cleared"}
    BY <1>0, <1>1, <1>a, WriterFields DEF WriterTake, WriterUpsert, WriterInsert, WriterSkip, WriterCommit, WriterFails
  <2>3. \/ \E boards \in SUBSET Boards : db' = Upserted(boards)
        \/ \E k \in 0..Len(writer.batch) : db' = Inserted(k)
        \/ db' = db
    <3>1. Len(writer.batch) \in 0..Len(writer.batch)
      BY <1>0, Parts
    <3> QED BY <1>1, <3>1 DEF WriterTake, WriterUpsert, WriterInsert, WriterSkip, WriterCommit, WriterFails
  <2>4. db'.alerts = db.alerts
    BY <1>0, <2>3, TableFields DEF Same
  <2> QED BY <1>b, <2>1, <2>2, <2>4, QuietActive
<1>2. CASE WriterRaiseSelect
  <2>1. /\ UNCHANGED <<db, active, phase, forget>> /\ writer.pc = "eval"
        /\ writer'.i = writer.i /\ writer'.batch = writer.batch
        /\ writer'.pc = IF HasOpenAlert(db, Current.dev) THEN "raised" ELSE "raise"
    BY <1>0, <1>2, WriterFields DEF WriterRaiseSelect
  <2> QED BY <1>b, <2>1 DEF ActiveStory, ActiveHasRow, Current
<1>3. CASE WriterRaiseInsert
  <2> DEFINE new == [dev |-> Current.dev, n |-> Current.n, open |-> TRUE]
  <2>1. /\ UNCHANGED <<active, phase, forget>> /\ writer.pc = "raise" /\ writer'.pc = "raised"
        /\ writer'.i = writer.i /\ writer'.batch = writer.batch
        /\ db'.alerts = db.alerts \union {new}
    BY <1>0, <1>3, WriterFields, TableFields DEF WriterRaiseInsert
  <2>2. new.dev = Current.dev /\ new.open
    OBVIOUS
  <2> HIDE DEF new
  <2>3. Current' = Current
    BY <2>1 DEF Current
  <2>4. HasOpenAlert(db', Current.dev) /\ \A d : HasOpenAlert(db, d) => HasOpenAlert(db', d)
    BY <2>1, <2>2 DEF HasOpenAlert
  <2>5. phase = "up" => \A d \in active : HasOpenAlert(db, d)
    BY <2>1 DEF ActiveStory, ActiveHasRow
  <2>6. ActiveHasRow'
    BY <2>1, <2>4, <2>5 DEF ActiveHasRow
  <2> QED BY <1>b, <2>1, <2>3, <2>4, <2>6 DEF ActiveStory
<1>4. CASE WriterClear
  <2> DEFINE closed(a) == IF a.dev = Current.dev THEN [a EXCEPT !.open = FALSE] ELSE a
  <2>1. /\ UNCHANGED <<active, phase, forget>> /\ writer.pc = "eval" /\ writer'.pc = "cleared" /\ writer'.live
        /\ writer'.i = writer.i /\ writer'.batch = writer.batch
        /\ db'.alerts = {closed(a) : a \in db.alerts}
    BY <1>0, <1>4, WriterFields, TableFields DEF WriterClear
  <2>2. \A a \in db.alerts : a.dev # Current.dev => closed(a) = a
    OBVIOUS
  <2> HIDE DEF closed
  <2>3. Current' = Current
    BY <2>1 DEF Current
  <2>4. \A d : d # Current.dev /\ HasOpenAlert(db, d) => HasOpenAlert(db', d)
    BY <2>1, <2>2 DEF HasOpenAlert
  <2>5. phase = "up" => \A d \in active : HasOpenAlert(db, d)
    BY <2>1 DEF ActiveStory, ActiveHasRow
  <2>6. ActiveHasRow'
    BY <2>1, <2>3, <2>4, <2>5 DEF ActiveHasRow
  <2> QED BY <1>b, <2>1, <2>6 DEF ActiveStory
<1>5. CASE WriterMark
  <2>1. /\ UNCHANGED <<db, phase, forget>> /\ writer.pc \in {"raised", "cleared"} /\ writer'.pc = "eval"
        /\ active' = IF ~ writer.live THEN active
                     ELSE IF writer.pc = "raised" THEN active \union {Current.dev} ELSE active \ {Current.dev}
    BY <1>0, <1>5, WriterFields DEF WriterMark
  <2>2. phase # "down"
    BY <1>0, <1>a, <2>1 DEF PhaseStory
  <2>3. phase = "up" => \A d \in active' : HasOpenAlert(db, d)
    BY <2>1 DEF ActiveStory, ActiveHasRow
  <2>4. ActiveHasRow'
    BY <2>1, <2>3 DEF ActiveHasRow
  <2> QED BY <1>b, <2>1, <2>2, <2>4 DEF ActiveStory
<1>6. CASE WriterExit \/ WriterCancelled
  <2>1. UNCHANGED <<db, active, phase, forget>> /\ phase = "stopping" /\ writer'.pc = "done"
    BY <1>6, <1>a DEF WriterExit, WriterCancelled
  <2> QED BY <1>b, <2>1 DEF ActiveStory, ActiveHasRow
<1>7. CASE Close \/ Crash
  <2>1. active' = {} /\ phase' = "down" /\ forget'.pc = "idle" /\ writer'.pc = "collect"
    BY <1>7, <1>a DEF Close, Crash, Ended
  <2> QED BY <2>1 DEF ActiveStory, ActiveHasRow
<1>8. CASE Prune \/ \E d \in Boards : Command(d)
  <2>1. UNCHANGED <<active, phase, forget, writer>>
    BY <1>8 DEF Prune, Command
  <2>2. db'.alerts = db.alerts
    BY <1>0, <1>8, TableFields DEF Same
  <2> QED BY <1>b, <2>1, <2>2, QuietActive
<1>9. CASE \/ \E d \in Boards : IngestStatus(d) \/ \E value \in {"good", "bad", "none"} : Ingest(d, value)
           \/ CommandCommit \/ CommandFails \/ Stop \/ Start \/ UNCHANGED vars
  <2>1. /\ UNCHANGED <<active, db, forget, writer>>
        /\ phase' = phase \/ (phase = "up" /\ phase' = "stopping") \/ (phase = "down" /\ phase' = "up")
    BY <1>9 DEF IngestStatus, Ingest, CommandCommit, CommandFails, Stop, Start, vars
  <2>2. phase' = "up" /\ phase = "down" => active' = {}
    BY <2>1 DEF ActiveStory
  <2> QED BY <1>b, <2>1, <2>2 DEF ActiveStory, ActiveHasRow, HasOpenAlert, Current
<1>10. ~ (\E e \in Boards : ForgetStart(e)) /\ ~ (ForgetDelete \/ ForgetCommit \/ ForgetFails)
  BY DEF ActiveStory, ForgetStart, ForgetDelete, ForgetCommit, ForgetFails
<1> QED BY <1>1, <1>2, <1>3, <1>4, <1>5, <1>6, <1>7, <1>8, <1>9, <1>10 DEF Next, Writer

\* As long as no board is forgotten, a board was credited with at least its
\* stored readings, and an alert that is shown live has its open row, through
\* failures, foreign commits, crashes and restarts: upsert_devices_batch(),
\* insert_telemetry_batch(), _evaluate_alerts() and the commits of the one
\* connection they share.  (While one is forgotten neither is so: the batch
\* may be inserted, or an alert raised, between two DELETEs.)
THEOREM RowsBackStateAlways ==
    ASSUME "forget" \notin Events
    PROVE  Spec => []RowsBackState
<1> DEFINE RowsInv == StoreInv /\ CountStory /\ ActiveStory
<1>1. Init => RowsInv
  <2> SUFFICES ASSUME Init PROVE CountStory /\ ActiveStory
    BY InitHasStoreInv
  <2>1. /\ phase = "up" /\ active = {} /\ writer.pc = "collect" /\ forget.pc = "idle"
        /\ db = NoRows /\ saved = NoRows
    BY IdleTypes DEF Init
  <2>2. ActiveStory
    BY <2>1 DEF ActiveStory, ActiveHasRow
  <2>3. ASSUME NEW d \in Boards PROVE Covered(NoRows, d, 0)
    <3>1. Of(NoRows.telemetry, d) = {} /\ NoRows.devices[d] = 0
      BY DEF Of, NoRows
    <3>2. IsFiniteSet({}) /\ Cardinality({}) = 0
      BY FS_EmptySet
    <3> QED BY <3>1, <3>2 DEF Covered
  <2>4. CountStory
    BY <2>1, <2>3 DEF CountStory, Owed
  <2> QED BY <2>2, <2>4
<1>2. RowsInv /\ [Next]_vars => RowsInv'
  <2> SUFFICES ASSUME RowsInv, [Next]_vars PROVE RowsInv'
    OBVIOUS
  <2>1. StoreInv'
    BY StoreInvKept
  <2>2. CountStory'
    BY CountKept
  <2>3. ActiveStory'
    BY ActiveKept
  <2> QED BY <2>1, <2>2, <2>3
<1>3. RowsInv => RowsBackState
  <2> SUFFICES ASSUME RowsInv, NEW t \in {db, saved}, NEW d \in Boards
               PROVE  ActiveHasRow /\ Cardinality(Of(t.telemetry, d)) <= t.devices[d]
    BY DEF RowsBackState, CountCoversRows, ActiveStory
  <2>1. FleetTypeOK /\ writer.batch \in Seq(Reading) /\ Len(writer.batch) \in 0..Len(writer.batch)
    BY Parts DEF StoreInv
  <2>2. db.devices[d] \in Nat /\ saved.devices[d] \in Nat
    BY <2>1 DEF FleetTypeOK, Tables
  <2>3. Owed(d) \in Nat
    BY <2>1, CountedIs DEF Owed
  <2>4. Covered(db, d, Owed(d)) /\ Covered(saved, d, 0)
    BY DEF CountStory
  <2>5. /\ Cardinality(Of(db.telemetry, d)) \in Nat /\ Cardinality(Of(saved.telemetry, d)) \in Nat
        /\ Cardinality(Of(db.telemetry, d)) + Owed(d) <= db.devices[d]
        /\ Cardinality(Of(saved.telemetry, d)) + 0 <= saved.devices[d]
    BY <2>4, FS_CardinalityType DEF Covered
  <2>6. /\ Cardinality(Of(db.telemetry, d)) <= db.devices[d]
        /\ Cardinality(Of(saved.telemetry, d)) <= saved.devices[d]
    BY <2>2, <2>3, <2>5
  <2> QED BY <2>6 DEF ActiveStory
<1> HIDE DEF RowsInv
<1> QED BY <1>1, <1>2, <1>3, PTL DEF Spec

=============================================================================
