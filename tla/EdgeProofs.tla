----------------------------- MODULE EdgeProofs -----------------------------
(***************************************************************************)
(* What lies at the edges of the fleet host, proved part by part for all   *)
(* values of the constants: the commands of a board's console, its radio   *)
(* and the key of its link; the presence of the agent of a Pi, and its     *)
(* state file; and the types of each, with the calls of DeviceCallsProofs. *)
(*                                                                         *)
(* Agent and Node stand for the two modules as MCEdge names them: a name   *)
(* with an exclamation mark is a definition of PiAgent or Provisioning.    *)
(***************************************************************************)
EXTENDS MCEdge, DeviceCallsProofs, SequenceTheorems, TLAPS

-----------------------------------------------------------------------------
(* Commands over the console.                                              *)

Longs == {"scan", "test"}

\* What the story of a scan or test is told with.
NodeTyped ==
    /\ commands \in Seq({"asked", "answered", "answered twice", "cut"})
    /\ pending = Node!NoJob \/ pending \in [op : Longs, n : 1..Len(commands)]
    /\ jobs \in Seq(Longs)
    /\ console \in [pc : {"idle", "start", "restart"}, op : Longs \union {Node!None}]
    /\ DOMAIN prov = {"pc", "op", "c", "quiet", "joined"}

Working == prov.pc \notin {"idle", "free"}

\* The scan or test that is pending is with the console, in the queue or with
\* prov_worker, and none of these has another one.
JobStory ==
    /\ console.pc = "start" => /\ pending = [op |-> console.op, n |-> Len(commands)] /\ console.op \in Longs
                               /\ jobs = <<>> /\ ~ Working
    /\ jobs # <<>> => jobs = <<pending.op>> /\ pending.op \in Longs /\ busy /\ prov.pc = "idle"
    /\ prov.pc # "idle" => busy /\ jobs = <<>>
    /\ Working => prov.op = pending.op /\ pending.op \in Longs
    /\ pending # Node!NoJob => console.pc = "start" \/ jobs # <<>> \/ Working

\* The commands that wait for an answer are the pending one.
AnswerStory ==
    /\ \A n \in 1..Len(commands) : commands[n] # "answered twice" /\ (commands[n] = "asked" => pending.n = n)
    /\ pending # Node!NoJob => commands[pending.n] = "asked"

ProvInv == NodeTyped /\ JobStory /\ AnswerStory

\* A step that leaves the console, the queue and the worker's place alone.
LEMMA NodeQuiet ==
    ASSUME ProvInv, UNCHANGED <<commands, pending, jobs, console>>, busy' = busy,
           prov'.pc = prov.pc, prov'.op = prov.op, DOMAIN prov' = DOMAIN prov
    PROVE  ProvInv'
BY DEF ProvInv, NodeTyped, JobStory, AnswerStory, Working

\* Changing one field of the worker leaves the others.
LEMMA WorkerFields ==
    ASSUME NodeTyped, NEW x
    PROVE  /\ LET p == [prov EXCEPT !.pc = x] IN
              p.pc = x /\ p.op = prov.op /\ DOMAIN p = DOMAIN prov
           /\ LET p == [prov EXCEPT !.quiet = x] IN
              p.pc = prov.pc /\ p.op = prov.op /\ DOMAIN p = DOMAIN prov
           /\ \A y : LET p == [prov EXCEPT !.pc = x, !.joined = y] IN
              p.pc = x /\ p.op = prov.op /\ DOMAIN p = DOMAIN prov
BY DEF NodeTyped

\* prov_worker goes on with its job.
LEMMA WorkerGoesOn ==
    ASSUME ProvInv, Working, UNCHANGED <<commands, pending, busy, jobs, console>>,
           prov'.pc \notin {"idle", "free"}, prov'.op = prov.op, DOMAIN prov' = DOMAIN prov
    PROVE  ProvInv'
BY DEF ProvInv, NodeTyped, JobStory, AnswerStory, Working

\* Counting one further.
LEMMA OneFurther ==
    ASSUME NEW a \in Nat, NEW b, b = a + 1
    PROVE  /\ \A n \in 1..b : n \in 1..a \/ n = a + 1
           /\ 1..a \subseteq 1..b /\ b \in 1..b /\ a + 1 \notin 1..a /\ 0 \notin 1..a /\ b \in Nat
OBVIOUS

Statuses == {"asked", "answered", "answered twice", "cut"}

\* A sequence of commands with one more.
LEMMA OneMore ==
    ASSUME NodeTyped, NEW status \in {"asked", "answered"}, commands' = Append(commands, status)
    PROVE  /\ commands' \in Seq({"asked", "answered", "answered twice", "cut"})
           /\ Len(commands) \in Nat /\ Len(commands') = Len(commands) + 1
           /\ commands'[Len(commands) + 1] = status
           /\ \A n \in 1..Len(commands) : commands'[n] = commands[n]
<1> DEFINE S == Statuses
<1>1. commands \in Seq(S) /\ status \in S
  BY DEF NodeTyped, Statuses
<1> HIDE DEF S
<1>2. /\ Append(commands, status) \in Seq(S) /\ Len(Append(commands, status)) = Len(commands) + 1
      /\ Append(commands, status)[Len(commands) + 1] = status /\ Len(commands) \in Nat
      /\ \A n \in 1..Len(commands) : Append(commands, status)[n] = commands[n]
  BY <1>1, AppendProperties, LenProperties
<1> QED BY <1>2 DEF S, Statuses

\* A command that is answered at once.
LEMMA AnsweredAtOnce ==
    ASSUME ProvInv, console = Node!Reading, commands' = Append(commands, "answered"),
           UNCHANGED <<pending, busy, jobs>>, console' \in {Node!Reading, Node!Restarting},
           prov'.pc = prov.pc, prov'.op = prov.op, DOMAIN prov' = DOMAIN prov
    PROVE  ProvInv'
<1>0. NodeTyped /\ JobStory /\ AnswerStory
  BY DEF ProvInv
<1>1. /\ commands' \in Seq({"asked", "answered", "answered twice", "cut"})
      /\ Len(commands) \in Nat /\ Len(commands') = Len(commands) + 1
      /\ commands'[Len(commands) + 1] = "answered"
      /\ \A n \in 1..Len(commands) : commands'[n] = commands[n]
  BY <1>0, OneMore
<1>2. \A n \in 1..Len(commands') : n \in 1..Len(commands) \/ n = Len(commands) + 1
  BY <1>1, OneFurther
<1>3. 1..Len(commands) \subseteq 1..Len(commands')
  BY <1>1, OneFurther
<1>4. /\ console.pc = "idle" /\ console'.pc \in {"idle", "restart"}
      /\ console' \in [pc : {"idle", "start", "restart"}, op : Longs \union {Node!None}]
  BY DEF Node!Reading, Node!Restarting
<1>5. NodeTyped'
  BY <1>0, <1>1, <1>3, <1>4 DEF NodeTyped
<1>6. JobStory'
  BY <1>0, <1>4 DEF JobStory, Working
<1>7. AnswerStory'
  <2>1. pending # Node!NoJob => pending.n \in 1..Len(commands)
    BY <1>0 DEF NodeTyped
  <2> QED BY <1>0, <1>1, <1>2, <2>1 DEF AnswerStory
<1> QED BY <1>5, <1>6, <1>7 DEF ProvInv

\* startLong()
LEMMA ClaimKeeps ==
    ASSUME ProvInv, NEW op \in Longs, Node!StartLong(op)
    PROVE  ProvInv'
<1>0. NodeTyped /\ JobStory /\ AnswerStory
  BY DEF ProvInv
<1>1. console = Node!Reading /\ UNCHANGED <<busy, jobs, prov>>
  BY DEF Node!StartLong, Node!Claim, Node!Command, Node!Free
<1> DEFINE refused == pending.op # Node!None \/ (op = "test" /\ Node!Blank(cfg))
<1>2. CASE refused
  <2>1. commands' = Append(commands, "answered") /\ UNCHANGED <<pending, console>>
    BY <1>2 DEF Node!StartLong, Node!Claim, Node!Command
  <2> QED BY <1>1, <2>1, AnsweredAtOnce
<1>3. CASE ~ refused
  <2>1. /\ commands' = Append(commands, "asked")
        /\ pending' = [op |-> op, n |-> Len(commands) + 1] /\ console' = [pc |-> "start", op |-> op]
        /\ pending.op = Node!None
    BY <1>3 DEF Node!StartLong, Node!Claim, Node!Command
  <2> HIDE DEF refused
  <2>2. pending = Node!NoJob
    BY <1>0, <2>1 DEF NodeTyped, Longs, Node!None
  <2>3. pending.op \notin Longs
    BY <2>1 DEF Longs, Node!None
  <2>4. ~ Working /\ jobs = <<>>
    BY <1>0, <2>3 DEF JobStory
  <2>5. /\ commands' \in Seq({"asked", "answered", "answered twice", "cut"})
        /\ Len(commands) \in Nat /\ Len(commands') = Len(commands) + 1
        /\ commands'[Len(commands) + 1] = "asked"
        /\ \A n \in 1..Len(commands) : commands'[n] = commands[n]
    BY <1>0, <2>1, OneMore
  <2>6. pending' \in [op : Longs, n : 1..Len(commands')] /\ pending'.n = Len(commands') /\ pending'.op = op
    <3>1. Len(commands') \in 1..Len(commands')
      BY <2>5, OneFurther
    <3> QED BY <2>1, <2>5, <3>1
  <2>7. NodeTyped'
    BY <1>0, <1>1, <2>1, <2>5, <2>6 DEF NodeTyped
  <2>8. JobStory'
    BY <1>0, <1>1, <2>1, <2>4, <2>5, <2>6 DEF JobStory, Working
  <2>9. AnswerStory'
    <3>1. pending.n \notin 1..Len(commands)
      <4>1. pending.n = 0
        BY <2>2 DEF Node!NoJob
      <4> QED BY <2>5, <4>1, OneFurther
    <3>2. \A n \in 1..Len(commands') : n \in 1..Len(commands) \/ n = Len(commands) + 1
      BY <2>5, OneFurther
    <3> QED BY <1>0, <2>5, <2>6, <3>1, <3>2 DEF AnswerStory
  <2> QED BY <2>7, <2>8, <2>9 DEF ProvInv
<1> QED BY <1>2, <1>3

\* The one command that was not answered is.
LEMMA AnswerIt ==
    ASSUME NodeTyped, AnswerStory, NEW n \in 1..Len(commands), commands[n] = "asked", commands' = Node!Answered(n),
           pending' = Node!NoJob
    PROVE  /\ AnswerStory' /\ Len(commands') = Len(commands)
           /\ commands' \in Seq({"asked", "answered", "answered twice", "cut"})
<1>1. commands \in Seq({"asked", "answered", "answered twice", "cut"}) /\ Len(commands) \in Nat
  BY LenProperties DEF NodeTyped
<1>2. commands' = [commands EXCEPT ![n] = "answered"]
  BY DEF Node!Answered
<1>3. commands' \in Seq({"asked", "answered", "answered twice", "cut"}) /\ Len(commands') = Len(commands)
  <2> DEFINE S == Statuses
  <2>1. commands \in Seq(S) /\ "answered" \in S
    BY <1>1 DEF Statuses
  <2> HIDE DEF S
  <2>2. [commands EXCEPT ![n] = "answered"] \in Seq(S) /\ Len([commands EXCEPT ![n] = "answered"]) = Len(commands)
    BY <2>1, ExceptSeq
  <2> QED BY <1>2, <2>2 DEF S, Statuses
<1>4. \A m \in 1..Len(commands) : commands'[m] = IF m = n THEN "answered" ELSE commands[m]
  BY <1>1, <1>2, LenProperties
<1>5. \A m \in 1..Len(commands) : commands[m] = "asked" => m = n
  BY DEF AnswerStory
<1> QED BY <1>3, <1>4, <1>5 DEF AnswerStory

\* startScan() or startTest()
LEMMA StartJobKeeps ==
    ASSUME ProvInv, Node!StartJob
    PROVE  ProvInv'
<1>0. NodeTyped /\ JobStory /\ AnswerStory
  BY DEF ProvInv
<1>1. /\ console.pc = "start" /\ console' = Node!Reading /\ prov' = prov
      /\ pending = [op |-> console.op, n |-> Len(commands)] /\ console.op \in Longs
      /\ jobs = <<>> /\ ~ Working
  BY <1>0 DEF Node!StartJob, JobStory
<1>2. pending # Node!NoJob /\ pending.op = console.op /\ pending.n = Len(commands)
      /\ pending.n \in 1..Len(commands) /\ commands[Len(commands)] = "asked"
  <2>1. pending # Node!NoJob
    BY <1>1 DEF Node!NoJob, Node!None, Longs
  <2> QED BY <1>0, <1>1, <2>1 DEF NodeTyped, AnswerStory
<1>3. console'.pc = "idle" /\ console' \in [pc : {"idle", "start", "restart"}, op : Longs \union {Node!None}]
  BY <1>1 DEF Node!Reading
<1>4. CASE busy
  <2>1. commands' = Node!Answered(Len(commands)) /\ pending' = Node!NoJob /\ UNCHANGED <<busy, jobs>>
    BY <1>2, <1>4 DEF Node!StartJob
  <2>2. /\ AnswerStory' /\ Len(commands') = Len(commands)
        /\ commands' \in Seq({"asked", "answered", "answered twice", "cut"})
    BY <1>0, <1>2, <2>1, AnswerIt
  <2>3. NodeTyped'
    BY <1>0, <1>1, <1>3, <2>1, <2>2 DEF NodeTyped
  <2>4. JobStory'
    BY <1>0, <1>1, <1>3, <2>1 DEF JobStory, Working
  <2> QED BY <2>2, <2>3, <2>4 DEF ProvInv
<1>5. CASE ~ busy
  <2>1. busy' = TRUE /\ jobs' = Append(jobs, console.op) /\ UNCHANGED <<pending, commands>>
    BY <1>5 DEF Node!StartJob
  <2>2. jobs' = <<console.op>> /\ jobs' \in Seq(Longs) /\ jobs' # <<>>
    BY <1>1, <2>1
  <2>3. prov.pc = "idle"
    BY <1>0, <1>1, <1>5 DEF JobStory
  <2>4. NodeTyped'
    BY <1>0, <1>1, <1>3, <2>1, <2>2 DEF NodeTyped
  <2>5. JobStory'
    BY <1>0, <1>1, <1>2, <1>3, <2>1, <2>2, <2>3 DEF JobStory, Working
  <2>6. AnswerStory'
    BY <1>0, <2>1 DEF AnswerStory
  <2> QED BY <2>4, <2>5, <2>6 DEF ProvInv
<1> QED BY <1>4, <1>5

\* prov_worker takes a job, answers it, and is free again.
LEMMA WorkerKeeps ==
    ASSUME ProvInv, Node!TakeJob \/ Node!Finish \/ Node!FreeBusy
    PROVE  ProvInv'
<1>0. NodeTyped /\ JobStory /\ AnswerStory
  BY DEF ProvInv
<1>1. CASE Node!TakeJob
  <2>1. /\ prov.pc = "idle" /\ jobs # <<>> /\ jobs' = Tail(jobs)
        /\ prov' = [pc |-> IF Head(jobs) = "test" THEN "decide" ELSE "scan", op |-> Head(jobs), c |-> cfg,
                    quiet |-> Node!Calm, joined |-> Node!None]
        /\ UNCHANGED <<commands, pending, busy, console>>
    BY <1>1 DEF Node!TakeJob
  <2>2. jobs = <<pending.op>> /\ pending.op \in Longs /\ busy /\ console.pc # "start"
    BY <1>0, <2>1 DEF JobStory
  <2>3. Head(jobs) = pending.op /\ Tail(jobs) = <<>> /\ <<>> \in Seq(Longs)
    BY <2>2
  <2>4. prov'.pc \in {"decide", "scan"} /\ prov'.op = pending.op /\ DOMAIN prov' = {"pc", "op", "c", "quiet", "joined"}
    BY <2>1, <2>3
  <2>5. NodeTyped'
    BY <1>0, <2>1, <2>3, <2>4 DEF NodeTyped
  <2>6. JobStory'
    BY <1>0, <2>1, <2>2, <2>3, <2>4 DEF JobStory, Working
  <2>7. AnswerStory'
    BY <1>0, <2>1 DEF AnswerStory
  <2> QED BY <2>5, <2>6, <2>7 DEF ProvInv
<1>2. CASE Node!Finish
  <2>1. prov.pc = "finish" /\ prov' = [prov EXCEPT !.pc = "free"] /\ UNCHANGED <<busy, jobs, console>>
    BY <1>2 DEF Node!Finish, Node!To
  <2>2. prov'.pc = "free" /\ prov'.op = prov.op /\ DOMAIN prov' = DOMAIN prov
    BY <1>0, <2>1, WorkerFields
  <2>3. Working /\ prov.op = pending.op /\ pending.op \in Longs /\ jobs = <<>> /\ busy /\ console.pc # "start"
    BY <1>0, <2>1 DEF JobStory, Working
  <2>4. pending # Node!NoJob
    BY <2>3 DEF Node!NoJob, Node!None, Longs
  <2>5. pending.n \in 1..Len(commands) /\ commands[pending.n] = "asked"
    BY <1>0, <2>4 DEF NodeTyped, AnswerStory
  <2>6. commands' = Node!Answered(pending.n) /\ pending' = Node!NoJob
    BY <1>2, <2>3 DEF Node!Finish
  <2>7. /\ AnswerStory' /\ Len(commands') = Len(commands)
        /\ commands' \in Seq({"asked", "answered", "answered twice", "cut"})
    BY <1>0, <2>5, <2>6, AnswerIt
  <2>8. NodeTyped'
    BY <1>0, <2>1, <2>2, <2>6, <2>7 DEF NodeTyped
  <2>9. JobStory'
    BY <1>0, <2>1, <2>2, <2>3, <2>6 DEF JobStory, Working
  <2> QED BY <2>7, <2>8, <2>9 DEF ProvInv
<1>3. CASE Node!FreeBusy
  <2>1. /\ prov.pc = "free" /\ prov' = Node!Idle /\ busy' = FALSE /\ UNCHANGED <<commands, pending, jobs, console>>
    BY <1>3 DEF Node!FreeBusy
  <2>2. prov'.pc = "idle" /\ DOMAIN prov' = {"pc", "op", "c", "quiet", "joined"}
    BY <2>1 DEF Node!Idle
  <2>3. NodeTyped'
    BY <1>0, <2>1, <2>2 DEF NodeTyped
  <2>4. JobStory'
    BY <1>0, <2>1, <2>2 DEF JobStory, Working
  <2>5. AnswerStory'
    BY <1>0, <2>1 DEF AnswerStory
  <2> QED BY <2>3, <2>4, <2>5 DEF ProvInv
<1> QED BY <1>1, <1>2, <1>3

\* A restart forgets the one that was pending.
LEMMA BootKeeps ==
    ASSUME ProvInv, Node!BootAgain
    PROVE  ProvInv'
<1>0. NodeTyped /\ JobStory /\ AnswerStory
  BY DEF ProvInv
<1> DEFINE past(n) == IF commands[n] = "asked" THEN "cut" ELSE commands[n]
<1>1. /\ commands' = [n \in 1..Len(commands) |-> past(n)] /\ pending' = Node!NoJob /\ busy' = FALSE /\ jobs' = <<>>
      /\ console' = Node!Reading /\ prov' = Node!Idle
  BY DEF Node!BootAgain
<1>2. commands \in Seq({"asked", "answered", "answered twice", "cut"}) /\ Len(commands) \in Nat
      /\ \A n \in 1..Len(commands) : commands[n] \in {"asked", "answered", "answered twice", "cut"}
  BY <1>0, LenProperties, ElementOfSeq DEF NodeTyped
<1>3. \A n \in 1..Len(commands) : past(n) \in {"answered", "cut"}
  BY <1>0, <1>2 DEF AnswerStory
<1> HIDE DEF past
<1>4. commands' \in [1..Len(commands) -> {"asked", "answered", "answered twice", "cut"}]
  BY <1>1, <1>3
<1>5. commands' \in Seq({"asked", "answered", "answered twice", "cut"}) /\ Len(commands') = Len(commands)
  <2> DEFINE S == {"asked", "answered", "answered twice", "cut"}
             k == Len(commands)
  <2> HIDE DEF S, k
  <2>1. k \in Nat /\ commands' \in [1..k -> S]
    BY <1>2, <1>4 DEF S, k
  <2>2. commands' \in Seq(S)
    BY <2>1, SeqDef
  <2>3. Len(commands') \in Nat /\ DOMAIN commands' = 1..Len(commands') /\ DOMAIN commands' = 1..k
    BY <2>1, <2>2, LenProperties
  <2>4. Len(commands') = k
    BY <2>1, <2>3
  <2> QED BY <2>2, <2>4 DEF S, k
<1>6. /\ console'.pc = "idle" /\ console' \in [pc : {"idle", "start", "restart"}, op : Longs \union {Node!None}]
      /\ prov'.pc = "idle" /\ DOMAIN prov' = {"pc", "op", "c", "quiet", "joined"} /\ <<>> \in Seq(Longs)
  BY <1>1 DEF Node!Reading, Node!Idle
<1>7. NodeTyped'
  BY <1>1, <1>5, <1>6 DEF NodeTyped
<1>8. JobStory'
  BY <1>1, <1>6 DEF JobStory, Working
<1>9. AnswerStory'
  BY <1>1, <1>3, <1>5 DEF AnswerStory
<1> QED BY <1>7, <1>8, <1>9 DEF ProvInv

LEMMA ProvStart ==
    ASSUME Node!Init
    PROVE  ProvInv
<1>1. /\ commands = <<>> /\ pending = Node!NoJob /\ busy = FALSE /\ jobs = <<>>
      /\ console = [pc |-> "idle", op |-> Node!None] /\ prov = Node!Idle
  BY DEF Node!Init, Node!Reading
<1>2. prov.pc = "idle" /\ DOMAIN prov = {"pc", "op", "c", "quiet", "joined"}
  BY <1>1 DEF Node!Idle
<1>3. Len(commands) = 0 /\ 1..0 = {} /\ <<>> \in Seq(Longs)
  BY <1>1
<1> QED BY <1>1, <1>2, <1>3 DEF ProvInv, NodeTyped, JobStory, AnswerStory, Working

LEMMA ProvStep ==
    ASSUME ProvInv, [Node!Next]_Node!vars
    PROVE  ProvInv'
<1>0. NodeTyped
  BY DEF ProvInv
<1>1. ASSUME UNCHANGED <<commands, pending, busy, jobs, console, prov>> PROVE ProvInv'
  BY <1>1, NodeQuiet
<1>2. CASE \/ UNCHANGED Node!vars
           \/ \E t \in Node!Joiners : Node!ConnectWifi(t)
           \/ \E t \in Node!Linkers : Node!StartLink(t)
           \/ Node!Supervise \/ Node!SuperviseStarts
           \/ Node!GotIp \/ Node!Disconnected \/ Node!LostIp \/ Node!OnRetry
           \/ Node!ClientConnects \/ Node!ClientDisconnects
  BY <1>1, <1>2 DEF Node!vars, Node!handler, Node!ConnectWifi, Node!StoreKey, Node!Leave, Node!Join,
     Node!StartLink, Node!LockLink, Node!StopClient, Node!StartClient, Node!StoreLinkKey,
     Node!Supervise, Node!SuperviseStarts, Node!GotIp, Node!Disconnected, Node!LostIp, Node!OnRetry,
     Node!ClientConnects, Node!ClientDisconnects
<1>3. CASE Node!Told \/ Node!Reboot
  <2>1. /\ console = Node!Reading /\ commands' = Append(commands, "answered")
        /\ UNCHANGED <<pending, busy, jobs, prov>> /\ console' \in {Node!Reading, Node!Restarting}
    BY <1>3 DEF Node!Told, Node!Reboot, Node!Command, Node!Free
  <2> QED BY <2>1, AnsweredAtOnce
<1>4. CASE \E f \in Node!Fields, new \in Node!Settings : Node!Set(f, new) \/ Node!SetFails(f, new)
  <2>1. /\ console = Node!Reading /\ commands' = Append(commands, "answered")
        /\ UNCHANGED <<pending, busy, jobs, console>> /\ (prov' = prov \/ prov' = [prov EXCEPT !.quiet = FALSE])
    BY <1>4 DEF Node!Set, Node!SetFails, Node!Command, Node!Free
  <2>2. prov'.pc = prov.pc /\ prov'.op = prov.op /\ DOMAIN prov' = DOMAIN prov
    BY <1>0, <2>1, WorkerFields
  <2> QED BY <2>1, <2>2, AnsweredAtOnce
<1>5. CASE Node!FactoryReset
  <2>1. /\ console = Node!Reading /\ commands' = Append(commands, "answered")
        /\ UNCHANGED <<pending, busy, jobs>> /\ prov' = [prov EXCEPT !.quiet = FALSE]
        /\ console' \in {Node!Reading, Node!Restarting}
    BY <1>5 DEF Node!FactoryReset, Node!Command, Node!Free
  <2>2. prov'.pc = prov.pc /\ prov'.op = prov.op /\ DOMAIN prov' = DOMAIN prov
    BY <1>0, <2>1, WorkerFields
  <2> QED BY <2>1, <2>2, AnsweredAtOnce
<1>6. CASE Node!StartLong("scan") \/ Node!StartLong("test") \/ Node!StartJob
  BY <1>6, ClaimKeeps, StartJobKeeps DEF Longs
<1>7. CASE Node!Restart \/ Node!PowerCut
  BY <1>7, BootKeeps DEF Node!Restart, Node!PowerCut
<1>8. CASE \/ Node!Decide \/ Node!Broker \/ Node!Reached \/ Node!ScanStarts \/ Node!ScanEnds \/ Node!ScanResumes
  <2>1. /\ Working /\ UNCHANGED <<commands, pending, busy, jobs, console>>
        /\ \E pc \in {"wait", "finish", "reach", "air", "resume"} : prov' = [prov EXCEPT !.pc = pc]
    BY <1>8 DEF Node!Decide, Node!Broker, Node!Reached, Node!ScanStarts, Node!ScanEnds, Node!ScanResumes,
       Node!To, Node!handler, Working
  <2>2. prov'.pc \notin {"idle", "free"} /\ prov'.op = prov.op /\ DOMAIN prov' = DOMAIN prov
    BY <1>0, <2>1, WorkerFields
  <2> QED BY <2>1, <2>2, WorkerGoesOn
<1>9. CASE Node!Waited
  <2>1. /\ Working /\ UNCHANGED <<commands, pending, busy, jobs, console>>
        /\ \/ prov' = [prov EXCEPT !.pc = "finish"]
           \/ prov' = [prov EXCEPT !.pc = "finish", !.joined = radio.on]
           \/ prov' = [prov EXCEPT !.pc = "broker", !.joined = radio.on]
    BY <1>9 DEF Node!Waited, Node!handler, Working
  <2>2. prov'.pc \notin {"idle", "free"} /\ prov'.op = prov.op /\ DOMAIN prov' = DOMAIN prov
    <3>1. DOMAIN prov = {"pc", "op", "c", "quiet", "joined"}
      BY <1>0 DEF NodeTyped
    <3>2. CASE prov' = [prov EXCEPT !.pc = "finish"]
      BY <3>1, <3>2
    <3>3. CASE prov' = [prov EXCEPT !.pc = "finish", !.joined = radio.on]
      BY <3>1, <3>3
    <3>4. CASE prov' = [prov EXCEPT !.pc = "broker", !.joined = radio.on]
      BY <3>1, <3>4
    <3> QED BY <2>1, <3>2, <3>3, <3>4
  <2> QED BY <2>1, <2>2, WorkerGoesOn
<1>10. CASE Node!TakeJob \/ Node!Finish \/ Node!FreeBusy
  BY <1>10, WorkerKeeps
<1> QED BY <1>2, <1>3, <1>4, <1>5, <1>6, <1>7, <1>8, <1>9, <1>10
    DEF Node!Next, Node!Console, Node!Worker, Node!NetTask, Node!Joiners, Node!Linkers

\* Every command over the console is answered once, and no scan or test is
\* refused for ever: what is pending was not answered and somebody has it in
\* hand, however the console and prov_worker get in between each other:
\* startLong(), finishScan(), finishTest() and taskEntry().
THEOREM CommandsAnsweredOnce == Node!Spec => []OneAnswer
<1>1. Node!Init => ProvInv
  BY ProvStart
<1>2. ProvInv /\ [Node!Next]_Node!vars => ProvInv'
  BY ProvStep
<1>3. ProvInv => OneAnswer
  <2> SUFFICES ASSUME ProvInv PROVE OneAnswer
    OBVIOUS
  <2>0. NodeTyped /\ JobStory /\ AnswerStory
    BY DEF ProvInv
  <2>1. ASSUME pending # Node!NoJob PROVE Node!InHand(pending.op)
    <3>1. CASE console.pc = "start"
      <4>1. console = [pc |-> console.pc, op |-> console.op] /\ pending.op = console.op
        <5>1. console \in [pc : {"idle", "start", "restart"}, op : Longs \union {Node!None}]
          BY <2>0 DEF NodeTyped
        <5>2. pending.op = console.op
          BY <2>0, <3>1 DEF JobStory
        <5> QED BY ONLY <5>1, <5>2
      <4> QED BY <3>1, <4>1 DEF Node!InHand
    <3>2. CASE jobs # <<>>
      BY <2>0, <3>2 DEF JobStory, Node!InHand
    <3>3. CASE Working
      BY <2>0, <3>3 DEF JobStory, Working, Node!InHand
    <3> QED BY <2>0, <2>1, <3>1, <3>2, <3>3 DEF JobStory
  <2> QED BY <2>0, <2>1 DEF AnswerStory, OneAnswer, Node!OneAnswer
<1> QED BY <1>1, <1>2, <1>3, PTL DEF Node!Spec

-----------------------------------------------------------------------------
(* The radio and the key of the link.                                      *)

PlaceTyped ==
    /\ DOMAIN prov = {"pc", "op", "c", "quiet", "joined"}
    /\ DOMAIN radio = {"conf", "st", "on"}
    /\ DOMAIN joining = Node!Joiners /\ \A t \in Node!Joiners : DOMAIN joining[t] = {"pc", "to"}
    /\ DOMAIN linking = Node!Linkers /\ \A t \in Node!Linkers : DOMAIN linking[t] = {"pc", "to"}

\* prov_worker is in connectWifi() and in startLink() when it is said to wait for
\* them, net_task is not in startLink() when it is about to call it, and retries
\* are held back while a scan is on the air only.
PlaceStory ==
    /\ prov.pc # "wait" => joining["worker"].pc = "no"
    /\ prov.pc # "reach" => linking["worker"].pc = "no"
    /\ supervisor = "start" => linking["net"].pc = "no"
    /\ scanning => prov.pc = "air"

\* One task at a time is between the lock and the unlock of s_linkMu; when it is
\* about to store the key, the client is the one it has started.
KeyStory ==
    /\ \A t, o \in Node!Linkers : Node!Holds(t) /\ Node!Holds(o) => t = o
    /\ \A t \in Node!Linkers : linking[t].pc = "key" => mqttClient = linking[t].to
    /\ Node!LinkKeyTrue

ConnInv == PlaceTyped /\ PlaceStory /\ Node!RadioKeepsTrying /\ KeyStory

onTheRadio == <<radio, haveCreds, scanning, armed>>
onTheLink == <<linking, linkKey, mqttClient, supervisor>>

\* A step of another task, or of the worker between its waits.
LEMMA ConnQuiet ==
    ASSUME ConnInv, UNCHANGED <<onTheRadio, onTheLink, joining>>, DOMAIN prov' = DOMAIN prov,
           \/ prov'.pc = prov.pc
           \/ prov.pc = "wait" /\ joining["worker"].pc = "no" /\ prov'.pc \notin {"wait", "reach"}
           \/ prov.pc = "reach" /\ linking["worker"].pc = "no" /\ prov'.pc \notin {"wait", "reach"}
           \/ prov.pc \notin {"wait", "reach", "air", "resume"}
    PROVE  ConnInv'
BY DEF ConnInv, PlaceTyped, PlaceStory, Node!RadioKeepsTrying, KeyStory, Node!LinkKeyTrue, Node!Holds, onTheRadio, onTheLink

\* What is done about the radio, with the link left alone.
LEMMA RadioSteps ==
    ASSUME ConnInv, UNCHANGED onTheLink, prov' = prov, PlaceTyped', PlaceStory', Node!RadioKeepsTrying'
    PROVE  ConnInv'
BY DEF ConnInv, KeyStory, Node!LinkKeyTrue, Node!Holds, onTheLink

\* What is done about the link, with the radio left alone.
LEMMA LinkSteps ==
    ASSUME ConnInv, UNCHANGED <<onTheRadio, joining>>, prov' = prov, PlaceTyped', PlaceStory', KeyStory'
    PROVE  ConnInv'
BY DEF ConnInv, Node!RadioKeepsTrying, onTheRadio

\* esp_wifi_connect() leaves no station off that has a network.
LEMMA EspConnects ==
    ASSUME PlaceTyped, NEW conf, NEW r, r = Node!EspConnect(conf)
    PROVE  DOMAIN r = {"conf", "st", "on"} /\ (r.st = "off" => r.conf = Node!None)
<1>1. CASE radio.st = "off" /\ conf # Node!None
  BY <1>1 DEF Node!EspConnect
<1>2. CASE ~ (radio.st = "off" /\ conf # Node!None)
  <2>1. r = [radio EXCEPT !.conf = conf]
    BY <1>2 DEF Node!EspConnect
  <2>2. r.conf = conf /\ r.st = radio.st /\ DOMAIN r = DOMAIN radio
    BY <2>1 DEF PlaceTyped
  <2> QED BY <1>2, <2>2 DEF PlaceTyped
<1> QED BY <1>1, <1>2

LEMMA EspDisconnects ==
    ASSUME PlaceTyped, NEW r, r = Node!EspDisconnect
    PROVE  DOMAIN r = {"conf", "st", "on"} /\ r.conf = radio.conf /\ r.st = "off"
BY DEF PlaceTyped, Node!EspDisconnect

\* Where one task is in connectWifi() is nobody else's.
LEMMA JoiningMoves ==
    ASSUME PlaceTyped, NEW t \in Node!Joiners, NEW x,
           \/ joining' = [joining EXCEPT ![t].pc = x]
           \/ \E to : joining' = [joining EXCEPT ![t] = [pc |-> x, to |-> to]]
    PROVE  /\ DOMAIN joining' = Node!Joiners /\ \A o \in Node!Joiners : DOMAIN joining'[o] = {"pc", "to"}
           /\ joining'[t].pc = x /\ \A o \in Node!Joiners \ {t} : joining'[o] = joining[o]
<1>1. DOMAIN joining = Node!Joiners /\ \A o \in Node!Joiners : DOMAIN joining[o] = {"pc", "to"}
  BY DEF PlaceTyped
<1>2. CASE joining' = [joining EXCEPT ![t].pc = x]
  BY <1>1, <1>2
<1>3. CASE \E to : joining' = [joining EXCEPT ![t] = [pc |-> x, to |-> to]]
  BY <1>1, <1>3
<1> QED BY <1>2, <1>3

LEMMA LinkingMoves ==
    ASSUME PlaceTyped, NEW t \in Node!Linkers, NEW x,
           \/ linking' = [linking EXCEPT ![t].pc = x]
           \/ \E to : linking' = [linking EXCEPT ![t] = [pc |-> x, to |-> to]]
    PROVE  /\ DOMAIN linking' = Node!Linkers /\ \A o \in Node!Linkers : DOMAIN linking'[o] = {"pc", "to"}
           /\ linking'[t].pc = x /\ \A o \in Node!Linkers \ {t} : linking'[o] = linking[o]
<1>1. DOMAIN linking = Node!Linkers /\ \A o \in Node!Linkers : DOMAIN linking[o] = {"pc", "to"}
  BY DEF PlaceTyped
<1>2. CASE linking' = [linking EXCEPT ![t].pc = x]
  BY <1>1, <1>2
<1>3. CASE \E to : linking' = [linking EXCEPT ![t] = [pc |-> x, to |-> to]]
  BY <1>1, <1>3
<1> QED BY <1>2, <1>3

\* A task that is about to call startLink() has nothing to do with the key yet.
LEMMA KeyRests ==
    ASSUME KeyStory, NEW t \in Node!Linkers, linking[t].pc = "no", linking'[t].pc = "lock",
           \A o \in Node!Linkers \ {t} : linking'[o] = linking[o], UNCHANGED <<linkKey, mqttClient>>
    PROVE  KeyStory'
BY DEF KeyStory, Node!LinkKeyTrue, Node!Holds

\* The events of the radio, and the timer.
LEMMA RadioEventsKeep ==
    ASSUME ConnInv, Node!GotIp \/ Node!Disconnected \/ Node!LostIp \/ Node!OnRetry
    PROVE  ConnInv'
<1>0. PlaceTyped /\ PlaceStory /\ Node!RadioKeepsTrying
  BY DEF ConnInv
<1>1. UNCHANGED <<onTheLink, prov, joining, haveCreds, scanning>>
  BY DEF Node!GotIp, Node!Disconnected, Node!LostIp, Node!OnRetry, Node!ScheduleRetry, Node!link, onTheLink
<1>2. DOMAIN radio' = {"conf", "st", "on"} /\ Node!RadioKeepsTrying'
  <2>1. CASE Node!GotIp
    <3>1. radio' = [radio EXCEPT !.st = "up"]
      BY <2>1 DEF Node!GotIp
    <3>2. radio'.st = "up" /\ DOMAIN radio' = DOMAIN radio
      BY <1>0, <3>1 DEF PlaceTyped
    <3> QED BY <1>0, <3>2 DEF PlaceTyped, Node!RadioKeepsTrying
  <2>2. CASE Node!LostIp
    <3>1. radio' = [radio EXCEPT !.st = "joining"]
      BY <2>2 DEF Node!LostIp
    <3>2. radio'.st = "joining" /\ DOMAIN radio' = DOMAIN radio
      BY <1>0, <3>1 DEF PlaceTyped
    <3> QED BY <1>0, <3>2 DEF PlaceTyped, Node!RadioKeepsTrying
  <2>3. CASE Node!Disconnected
    <3>1. radio' = Node!EspDisconnect /\ armed' = (armed \/ (haveCreds /\ ~scanning))
      BY <2>3 DEF Node!Disconnected, Node!ScheduleRetry
    <3>2. DOMAIN radio' = {"conf", "st", "on"}
      BY <1>0, <3>1, EspDisconnects
    <3>3. haveCreds' => armed' \/ prov'.pc = "air"
      BY <1>0, <1>1, <3>1 DEF PlaceStory
    <3> QED BY <3>2, <3>3 DEF Node!RadioKeepsTrying
  <2>4. CASE Node!OnRetry
    <3>1. CASE haveCreds /\ ~scanning /\ ~Node!Up
      <4>1. radio' = Node!EspConnect(radio.conf)
        BY <2>4, <3>1 DEF Node!OnRetry
      <4>2. DOMAIN radio' = {"conf", "st", "on"} /\ (radio'.st = "off" => radio'.conf = Node!None)
        BY <1>0, <4>1, EspConnects
      <4> QED BY <4>2 DEF Node!RadioKeepsTrying
    <3>2. CASE ~ (haveCreds /\ ~scanning /\ ~Node!Up)
      <4>1. radio' = radio
        BY <2>4, <3>2 DEF Node!OnRetry
      <4>2. haveCreds' /\ radio'.st = "off" => prov'.pc = "air"
        BY <1>0, <1>1, <3>2, <4>1 DEF PlaceStory, Node!Up
      <4> QED BY <1>0, <4>1, <4>2 DEF PlaceTyped, Node!RadioKeepsTrying
    <3> QED BY <3>1, <3>2
  <2> QED BY <2>1, <2>2, <2>3, <2>4
<1>3. PlaceTyped' /\ PlaceStory'
  BY <1>0, <1>1, <1>2 DEF PlaceTyped, PlaceStory, onTheLink
<1> QED BY <1>1, <1>2, <1>3, RadioSteps

\* connectWifi() of one task: whoever stops the timer connects itself.
LEMMA ConnectKeeps ==
    ASSUME ConnInv, NEW t \in Node!Joiners, Node!ConnectWifi(t)
    PROVE  ConnInv'
<1>0. PlaceTyped /\ PlaceStory /\ Node!RadioKeepsTrying
  BY DEF ConnInv
<1>1. UNCHANGED <<onTheLink, prov, scanning>>
  BY DEF Node!ConnectWifi, Node!StoreKey, Node!Leave, Node!Join, Node!link, onTheLink
<1>2. /\ \E x : /\ \/ joining' = [joining EXCEPT ![t].pc = x]
                   \/ \E to : joining' = [joining EXCEPT ![t] = [pc |-> x, to |-> to]]
                /\ joining[t].pc # "no"
  BY DEF Node!ConnectWifi, Node!StoreKey, Node!Leave, Node!Join, Node!At, Node!AtRest
<1>3. /\ DOMAIN joining' = Node!Joiners /\ \A o \in Node!Joiners : DOMAIN joining'[o] = {"pc", "to"}
      /\ \A o \in Node!Joiners \ {t} : joining'[o] = joining[o]
  BY <1>0, <1>2, JoiningMoves
<1>4. PlaceStory'
  <2>1. t = "worker" => prov.pc = "wait"
    BY <1>0, <1>2 DEF PlaceStory
  <2>2. "worker" \in Node!Joiners
    BY DEF Node!Joiners
  <2>3. t # "worker" => joining'["worker"] = joining["worker"]
    BY <1>3, <2>2
  <2> QED BY <1>0, <1>1, <2>1, <2>3 DEF PlaceStory, onTheLink
<1>5. DOMAIN radio' = {"conf", "st", "on"} /\ Node!RadioKeepsTrying'
  <2>1. CASE Node!StoreKey(t)
    <3>1. joining[t].pc = "key" /\ UNCHANGED <<radio, haveCreds, armed>>
      BY <2>1 DEF Node!StoreKey
    <3>2. \A o \in Node!Joiners : joining[o].pc = "join" => joining'[o].pc = "join"
      BY <1>3, <3>1
    <3> QED BY <1>0, <1>1, <3>1, <3>2 DEF PlaceTyped, Node!RadioKeepsTrying
  <2>2. CASE Node!Leave(t)
    <3>1. radio' = Node!EspDisconnect /\ joining' = [joining EXCEPT ![t].pc = "join"]
      BY <2>2 DEF Node!Leave, Node!At
    <3>2. joining'[t].pc = "join"
      BY <1>0, <3>1, JoiningMoves
    <3>3. DOMAIN radio' = {"conf", "st", "on"}
      BY <1>0, <3>1, EspDisconnects
    <3> QED BY <3>2, <3>3 DEF Node!RadioKeepsTrying
  <2>3. CASE Node!Join(t)
    <3>1. \/ radio' = [radio EXCEPT !.conf = Node!None]
          \/ radio' = Node!EspConnect(joining[t].to)
          \/ radio' = radio /\ radio.st = "joining"
      BY <2>3 DEF Node!Join
    <3>2. DOMAIN radio' = {"conf", "st", "on"} /\ (radio'.st = "off" => radio'.conf = Node!None)
      <4>1. CASE radio' = [radio EXCEPT !.conf = Node!None]
        BY <1>0, <4>1 DEF PlaceTyped
      <4>2. CASE radio' = Node!EspConnect(joining[t].to)
        BY <1>0, <4>2, EspConnects
      <4>3. CASE radio' = radio /\ radio.st = "joining"
        BY <1>0, <4>3 DEF PlaceTyped
      <4> QED BY <3>1, <4>1, <4>2, <4>3
    <3> QED BY <3>2 DEF Node!RadioKeepsTrying
  <2> QED BY <2>1, <2>2, <2>3 DEF Node!ConnectWifi
<1>6. PlaceTyped'
  BY <1>0, <1>1, <1>3, <1>5 DEF PlaceTyped, onTheLink
<1> QED BY <1>1, <1>4, <1>5, <1>6, RadioSteps

\* startLink() of one task: s_linkMu keeps the other one out until the key is stored.
LEMMA LinkKeeps ==
    ASSUME ConnInv, NEW t \in Node!Linkers, Node!StartLink(t)
    PROVE  ConnInv'
<1>0. PlaceTyped /\ PlaceStory /\ KeyStory
  BY DEF ConnInv
<1>1. UNCHANGED <<onTheRadio, prov, joining, supervisor>>
  BY DEF Node!StartLink, Node!LockLink, Node!StopClient, Node!StartClient, Node!StoreLinkKey, Node!wifi, onTheRadio
<1>a. DOMAIN linking = Node!Linkers /\ DOMAIN linking[t] = {"pc", "to"}
  BY <1>0 DEF PlaceTyped
<1>2. /\ DOMAIN linking' = Node!Linkers /\ \A o \in Node!Linkers : DOMAIN linking'[o] = {"pc", "to"}
      /\ \A o \in Node!Linkers \ {t} : linking'[o] = linking[o]
      /\ linking[t].pc # "no"
      /\ \/ /\ linking[t].pc = "lock" /\ linking'[t].pc = "stop" /\ \A o \in Node!Linkers : ~ Node!Holds(o)
            /\ UNCHANGED <<mqttClient, linkKey>>
         \/ linking[t].pc = "stop" /\ linking'[t].pc = "start"
         \/ linking[t].pc = "start" /\ linking'[t].pc = "key" /\ linking'[t].to = mqttClient'
         \/ linking[t].pc = "key" /\ linking'[t].pc = "no" /\ linkKey' = linking[t].to /\ mqttClient' = mqttClient
  <2>1. CASE Node!LockLink(t)
    <3>1. linking' = [linking EXCEPT ![t].pc = "stop"]
      BY <2>1 DEF Node!LockLink
    <3>2. linking[t].pc = "lock" /\ UNCHANGED <<mqttClient, linkKey>> /\ \A o \in Node!Linkers : ~ Node!Holds(o)
      BY <2>1 DEF Node!LockLink, Node!link
    <3> QED BY <1>0, <3>1, <3>2, LinkingMoves
  <2>2. CASE Node!StopClient(t)
    <3>1. linking' = [linking EXCEPT ![t].pc = "start"] /\ linking[t].pc = "stop"
      BY <2>2 DEF Node!StopClient
    <3> QED BY <1>0, <3>1, LinkingMoves
  <2>3. CASE Node!StartClient(t)
    <3>1. PICK started : mqttClient' = started /\ linking' = [linking EXCEPT ![t] = [pc |-> "key", to |-> started]]
      BY <2>3 DEF Node!StartClient
    <3>2. linking[t].pc = "start"
      BY <2>3 DEF Node!StartClient
    <3>3. linking'[t] = [pc |-> "key", to |-> started]
      BY <1>a, <3>1
    <3> QED BY <1>0, <3>1, <3>2, <3>3, LinkingMoves
  <2>4. CASE Node!StoreLinkKey(t)
    <3>1. linking' = [linking EXCEPT ![t] = [pc |-> "no", to |-> Node!None]]
      BY <2>4 DEF Node!StoreLinkKey, Node!AtRest
    <3>2. linking[t].pc = "key" /\ linkKey' = linking[t].to /\ mqttClient' = mqttClient
      BY <2>4 DEF Node!StoreLinkKey
    <3> QED BY <1>0, <3>1, <3>2, LinkingMoves
  <2> QED BY <2>1, <2>2, <2>3, <2>4 DEF Node!StartLink
<1>3. Node!Holds(t) \/ \A o \in Node!Linkers : ~ Node!Holds(o)
  BY <1>2 DEF Node!Holds
<1>4. PlaceTyped'
  BY <1>0, <1>1, <1>2 DEF PlaceTyped, onTheRadio
<1>5. PlaceStory'
  <2>1. t = "worker" => prov.pc = "reach"
    BY <1>0, <1>2 DEF PlaceStory
  <2>2. t = "net" => supervisor # "start"
    BY <1>0, <1>2 DEF PlaceStory
  <2>3. "worker" \in Node!Linkers /\ "net" \in Node!Linkers
    BY DEF Node!Linkers
  <2>4. /\ t # "worker" => linking'["worker"] = linking["worker"]
        /\ t # "net" => linking'["net"] = linking["net"]
    BY <1>2, <2>3
  <2> QED BY <1>0, <1>1, <2>1, <2>2, <2>4 DEF PlaceStory, onTheRadio
<1>6. KeyStory'
  <2>1. \A o \in Node!Linkers \ {t} : ~ Node!Holds(o) /\ ~ Node!Holds(o)'
    BY <1>0, <1>2, <1>3 DEF KeyStory, Node!Holds
  <2>2. \A o \in Node!Linkers \ {t} : linking'[o].pc \notin {"stop", "start", "key"}
    BY <2>1 DEF Node!Holds
  <2>3. linking'[t].pc = "key" => mqttClient' = linking'[t].to
    BY <1>2
  <2>4. linking'[t].pc \notin {"stop", "start", "key"} => linkKey' = mqttClient'
    BY <1>0, <1>2 DEF KeyStory
  <2> QED BY <2>2, <2>3, <2>4 DEF KeyStory, Node!LinkKeyTrue, Node!Holds
<1> QED BY <1>1, <1>4, <1>5, <1>6, LinkSteps

\* superviseLink() sees an address, then starts a link.
LEMMA SuperviseKeeps ==
    ASSUME ConnInv, Node!Supervise \/ Node!SuperviseStarts
    PROVE  ConnInv'
<1>0. PlaceTyped /\ PlaceStory /\ KeyStory
  BY DEF ConnInv
<1>1. UNCHANGED <<onTheRadio, prov, joining, linkKey, mqttClient>>
  BY DEF Node!Supervise, Node!SuperviseStarts, Node!link, Node!wifi, onTheRadio
<1>2. CASE linking' = linking
  <2>1. supervisor' = "start" => linking["net"].pc = "no"
    BY <1>0, <1>2 DEF PlaceStory, Node!Supervise, Node!SuperviseStarts
  <2>2. PlaceTyped' /\ PlaceStory' /\ KeyStory'
    BY <1>0, <1>1, <1>2, <2>1 DEF PlaceTyped, PlaceStory, KeyStory, Node!LinkKeyTrue, Node!Holds, onTheRadio
  <2> QED BY <1>1, <2>2, LinkSteps
<1>3. CASE linking' # linking
  <2>1. /\ supervisor = "start" /\ supervisor' = "idle"
        /\ linking' = [linking EXCEPT !["net"] = [pc |-> "lock", to |-> cfg.link]]
    BY <1>3 DEF Node!Supervise, Node!SuperviseStarts
  <2>2. "net" \in Node!Linkers /\ linking["net"].pc = "no"
    BY <1>0, <2>1 DEF PlaceStory, Node!Linkers
  <2>3. /\ DOMAIN linking' = Node!Linkers /\ \A o \in Node!Linkers : DOMAIN linking'[o] = {"pc", "to"}
        /\ linking'["net"].pc = "lock" /\ \A o \in Node!Linkers \ {"net"} : linking'[o] = linking[o]
    BY <1>0, <2>1, <2>2, LinkingMoves
  <2>4. PlaceTyped' /\ PlaceStory'
    BY <1>0, <1>1, <2>1, <2>3 DEF PlaceTyped, PlaceStory, Node!Linkers, onTheRadio
  <2>5. KeyStory'
    <3>1. \A o \in Node!Linkers : linking'[o].pc = linking[o].pc \/ (o = "net" /\ linking'[o].pc = "lock")
      BY <2>3
    <3> QED BY <1>0, <1>1, <2>2, <2>3, <3>1, KeyRests
  <2> QED BY <1>1, <2>4, <2>5, LinkSteps
<1> QED BY <1>2, <1>3

\* configChanged() and factory_reset on the console: connect() takes its turn.
LEMMA SettingsKeep ==
    ASSUME ConnInv, UNCHANGED <<onTheLink, haveCreds, scanning, armed>>,
           prov' = [prov EXCEPT !.quiet = FALSE],
           \/ joining' = joining
           \/ /\ joining["console"].pc = "no"
              /\ \E to : joining' = [joining EXCEPT !["console"] = [pc |-> "key", to |-> to]],
           radio' = radio \/ radio' = [radio EXCEPT !.conf = Node!None]
    PROVE  ConnInv'
<1>0. PlaceTyped /\ PlaceStory /\ Node!RadioKeepsTrying /\ KeyStory
  BY DEF ConnInv
<1>1. prov'.pc = prov.pc /\ DOMAIN prov' = DOMAIN prov
  BY <1>0 DEF PlaceTyped
<1>2. /\ DOMAIN joining' = Node!Joiners /\ \A o \in Node!Joiners : DOMAIN joining'[o] = {"pc", "to"}
      /\ \A o \in Node!Joiners : joining'[o] = joining[o] \/ joining[o].pc = "no"
      /\ joining'["worker"] = joining["worker"]
  <2>1. "console" \in Node!Joiners /\ "worker" \in Node!Joiners \ {"console"}
    BY DEF Node!Joiners
  <2>2. CASE joining' = joining
    BY <1>0, <2>2 DEF PlaceTyped
  <2>3. CASE joining' # joining
    <3>1. joining["console"].pc = "no" /\ \E to : joining' = [joining EXCEPT !["console"] = [pc |-> "key", to |-> to]]
      BY <2>3
    <3>2. /\ DOMAIN joining' = Node!Joiners /\ \A o \in Node!Joiners : DOMAIN joining'[o] = {"pc", "to"}
          /\ \A o \in Node!Joiners \ {"console"} : joining'[o] = joining[o]
      BY <1>0, <2>1, <3>1, JoiningMoves
    <3> QED BY <2>1, <3>1, <3>2
  <2> QED BY <2>2, <2>3
<1>3. DOMAIN radio' = {"conf", "st", "on"} /\ radio'.st = radio.st
      /\ (radio'.conf = radio.conf \/ radio'.conf = Node!None)
  <2>1. CASE radio' = radio
    BY <1>0, <2>1 DEF PlaceTyped
  <2>2. CASE radio' = [radio EXCEPT !.conf = Node!None]
    BY <1>0, <2>2 DEF PlaceTyped
  <2> QED BY <2>1, <2>2
<1>4. PlaceTyped'
  BY <1>0, <1>1, <1>2, <1>3 DEF PlaceTyped, onTheLink
<1>5. PlaceStory'
  BY <1>0, <1>1, <1>2 DEF PlaceStory, onTheLink
<1>6. Node!RadioKeepsTrying'
  <2>1. \A o \in Node!Joiners : joining[o].pc = "join" => joining'[o].pc = "join"
    BY <1>2
  <2> QED BY <1>0, <1>1, <1>3, <2>1 DEF Node!RadioKeepsTrying
<1>7. KeyStory'
  BY <1>0 DEF KeyStory, Node!LinkKeyTrue, Node!Holds, onTheLink
<1> QED BY <1>4, <1>5, <1>6, <1>7 DEF ConnInv

\* prov_worker joins for a test, and starts a link for one.
LEMMA TestKeeps ==
    ASSUME ConnInv, Node!Decide \/ Node!Broker
    PROVE  ConnInv'
<1>0. PlaceTyped /\ PlaceStory /\ Node!RadioKeepsTrying /\ KeyStory
  BY DEF ConnInv
<1>1. "worker" \in Node!Joiners /\ "worker" \in Node!Linkers
  BY DEF Node!Joiners, Node!Linkers
<1>2. CASE Node!Decide
  <2>1. /\ prov.pc = "decide" /\ prov' = [prov EXCEPT !.pc = "wait"] /\ UNCHANGED <<onTheRadio, onTheLink>>
        /\ \/ joining' = joining
           \/ joining' = [joining EXCEPT !["worker"] = [pc |-> "key", to |-> prov.c.wifi]]
    BY <1>2 DEF Node!Decide, Node!To, Node!wifi, Node!link, onTheRadio, onTheLink
  <2>2. prov'.pc = "wait" /\ DOMAIN prov' = DOMAIN prov
    BY <1>0, <2>1 DEF PlaceTyped
  <2>3. joining["worker"].pc = "no" /\ linking["worker"].pc = "no" /\ ~ scanning
    BY <1>0, <2>1 DEF PlaceStory
  <2>4. CASE joining' = joining
    BY <2>1, <2>2, <2>4, ConnQuiet
  <2>5. CASE joining' = [joining EXCEPT !["worker"] = [pc |-> "key", to |-> prov.c.wifi]]
    <3>1. /\ DOMAIN joining' = Node!Joiners /\ \A o \in Node!Joiners : DOMAIN joining'[o] = {"pc", "to"}
          /\ \A o \in Node!Joiners \ {"worker"} : joining'[o] = joining[o]
      BY <1>0, <1>1, <2>5, JoiningMoves
    <3>2. \A o \in Node!Joiners : joining[o].pc = "join" => joining'[o].pc = "join"
      BY <2>3, <3>1
    <3>3. PlaceTyped' /\ PlaceStory'
      BY <1>0, <2>1, <2>2, <2>3, <3>1 DEF PlaceTyped, PlaceStory, onTheRadio, onTheLink
    <3>4. Node!RadioKeepsTrying' /\ KeyStory'
      BY <1>0, <2>1, <3>2 DEF Node!RadioKeepsTrying, KeyStory, Node!LinkKeyTrue, Node!Holds, onTheRadio, onTheLink
    <3> QED BY <3>3, <3>4 DEF ConnInv
  <2> QED BY <2>1, <2>4, <2>5
<1>3. CASE Node!Broker
  <2>1. /\ prov.pc = "broker" /\ UNCHANGED <<onTheRadio, joining, linkKey, mqttClient, supervisor>>
        /\ \/ prov' = [prov EXCEPT !.pc = "finish"] /\ linking' = linking
           \/ /\ prov' = [prov EXCEPT !.pc = "reach"]
              /\ linking' = [linking EXCEPT !["worker"] = [pc |-> "lock", to |-> prov.c.link]]
    BY <1>3 DEF Node!Broker, Node!To, Node!wifi, Node!link, onTheRadio
  <2>2. joining["worker"].pc = "no" /\ linking["worker"].pc = "no" /\ ~ scanning
    BY <1>0, <2>1 DEF PlaceStory
  <2>3. CASE prov' = [prov EXCEPT !.pc = "finish"] /\ linking' = linking
    <3>1. prov'.pc = "finish" /\ DOMAIN prov' = DOMAIN prov /\ UNCHANGED onTheLink
      BY <1>0, <2>1, <2>3 DEF PlaceTyped, onTheLink
    <3> QED BY <2>1, <3>1, ConnQuiet
  <2>4. CASE /\ prov' = [prov EXCEPT !.pc = "reach"]
             /\ linking' = [linking EXCEPT !["worker"] = [pc |-> "lock", to |-> prov.c.link]]
    <3>1. prov'.pc = "reach" /\ DOMAIN prov' = DOMAIN prov
      BY <1>0, <2>4 DEF PlaceTyped
    <3>2. /\ DOMAIN linking' = Node!Linkers /\ \A o \in Node!Linkers : DOMAIN linking'[o] = {"pc", "to"}
          /\ linking'["worker"].pc = "lock" /\ \A o \in Node!Linkers \ {"worker"} : linking'[o] = linking[o]
      BY <1>0, <1>1, <2>4, LinkingMoves
    <3>3. linking'["net"] = linking["net"]
      BY <3>2 DEF Node!Linkers
    <3>4. PlaceTyped' /\ PlaceStory'
      BY <1>0, <2>1, <2>2, <3>1, <3>2, <3>3 DEF PlaceTyped, PlaceStory, onTheRadio
    <3>6. KeyStory'
      BY <1>0, <1>1, <2>1, <2>2, <3>2, KeyRests
    <3>7. Node!RadioKeepsTrying'
      BY <1>0, <2>1, <3>1 DEF Node!RadioKeepsTrying, onTheRadio
    <3> QED BY <3>4, <3>6, <3>7 DEF ConnInv
  <2> QED BY <2>1, <2>3, <2>4
<1> QED BY <1>2, <1>3

\* A scan holds the retries back, and joins again when it is over.
LEMMA ScanKeeps ==
    ASSUME ConnInv, Node!ScanStarts \/ Node!ScanEnds \/ Node!ScanResumes
    PROVE  ConnInv'
<1>0. PlaceTyped /\ PlaceStory /\ Node!RadioKeepsTrying /\ KeyStory
  BY DEF ConnInv
<1>1. /\ \/ prov.pc = "scan" /\ prov' = [prov EXCEPT !.pc = "air"]
         \/ prov.pc = "air" /\ prov' = [prov EXCEPT !.pc = "resume"] /\ scanning' = FALSE
         \/ prov.pc = "resume" /\ prov' = [prov EXCEPT !.pc = "finish"] /\ scanning' = scanning
      /\ UNCHANGED <<joining, onTheLink>>
  BY DEF Node!ScanStarts, Node!ScanEnds, Node!ScanResumes, Node!To, Node!link, onTheLink
<1>2. /\ DOMAIN prov' = DOMAIN prov
      /\ \/ prov.pc = "scan" /\ prov'.pc = "air"
         \/ prov.pc = "air" /\ prov'.pc = "resume" /\ ~ scanning'
         \/ prov.pc = "resume" /\ prov'.pc = "finish" /\ scanning' = scanning
  BY <1>0, <1>1 DEF PlaceTyped
<1>3. PlaceStory'
  BY <1>0, <1>1, <1>2 DEF PlaceStory, onTheLink
<1>4. DOMAIN radio' = {"conf", "st", "on"} /\ Node!RadioKeepsTrying'
  <2>1. CASE Node!ScanStarts
    <3>1. radio' = radio \/ radio' = Node!EspDisconnect
      BY <2>1 DEF Node!ScanStarts
    <3>2. DOMAIN radio' = {"conf", "st", "on"}
      BY <1>0, <3>1, EspDisconnects DEF PlaceTyped
    <3>3. prov'.pc = "air"
      BY <1>0, <1>2, <2>1 DEF Node!ScanStarts
    <3> QED BY <3>2, <3>3 DEF Node!RadioKeepsTrying
  <2>2. CASE Node!ScanEnds
    <3>1. prov'.pc = "resume" /\ radio' = radio
      BY <1>0, <1>2, <2>2 DEF Node!ScanEnds
    <3> QED BY <1>0, <3>1 DEF PlaceTyped, Node!RadioKeepsTrying
  <2>3. CASE Node!ScanResumes
    <3>1. CASE haveCreds /\ ~Node!Up
      <4>1. radio' = Node!EspConnect(radio.conf)
        BY <2>3, <3>1 DEF Node!ScanResumes, Node!Resume
      <4>2. DOMAIN radio' = {"conf", "st", "on"} /\ (radio'.st = "off" => radio'.conf = Node!None)
        BY <1>0, <4>1, EspConnects
      <4> QED BY <4>2 DEF Node!RadioKeepsTrying
    <3>2. CASE ~ (haveCreds /\ ~Node!Up)
      <4>1. radio' = radio /\ haveCreds' = haveCreds
        BY <2>3, <3>2 DEF Node!ScanResumes, Node!Resume
      <4>2. ~ (haveCreds' /\ radio'.st = "off")
        BY <3>2, <4>1 DEF Node!Up
      <4> QED BY <1>0, <4>1, <4>2 DEF PlaceTyped, Node!RadioKeepsTrying
    <3> QED BY <3>1, <3>2
  <2> QED BY <2>1, <2>2, <2>3
<1>5. PlaceTyped' /\ KeyStory'
  BY <1>0, <1>1, <1>2, <1>4 DEF PlaceTyped, KeyStory, Node!LinkKeyTrue, Node!Holds, onTheLink
<1> QED BY <1>3, <1>4, <1>5 DEF ConnInv

\* At boot nothing is set up yet.
AtBoot ==
    /\ radio = Node!Off /\ haveCreds = FALSE /\ scanning = FALSE /\ linkKey = Node!None /\ mqttClient = Node!None
    /\ supervisor = "idle" /\ prov = Node!Idle /\ linking = [t \in Node!Linkers |-> Node!AtRest]
    /\ joining = [t \in Node!Joiners |->
          IF t = "main" /\ flash.wifi # Node!None THEN [pc |-> "key", to |-> flash.wifi] ELSE Node!AtRest]

LEMMA FreshConnections == AtBoot => ConnInv
<1> SUFFICES ASSUME AtBoot PROVE ConnInv
  OBVIOUS
<1>1. DOMAIN radio = {"conf", "st", "on"} /\ DOMAIN prov = {"pc", "op", "c", "quiet", "joined"} /\ prov.pc = "idle"
  BY DEF AtBoot, Node!Off, Node!Idle
<1>2. /\ DOMAIN linking = Node!Linkers
      /\ \A t \in Node!Linkers : DOMAIN linking[t] = {"pc", "to"} /\ linking[t].pc = "no"
  BY DEF AtBoot, Node!AtRest
<1>3. /\ DOMAIN joining = Node!Joiners /\ \A t \in Node!Joiners : DOMAIN joining[t] = {"pc", "to"}
      /\ joining["worker"].pc = "no"
  BY DEF AtBoot, Node!AtRest, Node!Joiners
<1>4. linking["worker"].pc = "no" /\ linking["net"].pc = "no"
  BY <1>2 DEF Node!Linkers
<1> QED BY <1>1, <1>2, <1>3, <1>4
    DEF AtBoot, ConnInv, PlaceTyped, PlaceStory, Node!RadioKeepsTrying, KeyStory, Node!LinkKeyTrue, Node!Holds

\* Radio and link, whoever of the console, the main task, prov_worker, net_task,
\* the timer and the driver gets in between.
LEMMA ConnAlways == Node!Spec => []ConnInv
<1>1. Node!Init => ConnInv
  BY FreshConnections DEF Node!Init, Node!Boot, Node!Blank, AtBoot
<1>2. ConnInv /\ [Node!Next]_Node!vars => ConnInv'
  <2> SUFFICES ASSUME ConnInv, [Node!Next]_Node!vars PROVE ConnInv'
    OBVIOUS
  <2>0. PlaceTyped
    BY DEF ConnInv
  <2>1. CASE \/ UNCHANGED Node!vars
             \/ Node!Told \/ Node!Reboot \/ Node!StartJob \/ Node!StartLong("scan") \/ Node!StartLong("test")
             \/ \E f \in Node!Fields, new \in Node!Settings : Node!SetFails(f, new)
             \/ Node!ClientConnects \/ Node!ClientDisconnects
    <3>1. UNCHANGED <<onTheRadio, onTheLink, joining, prov>>
      BY <2>1 DEF Node!vars, Node!wifi, Node!link, Node!Told, Node!Reboot, Node!StartJob, Node!StartLong, Node!SetFails,
         Node!ClientConnects, Node!ClientDisconnects, onTheRadio, onTheLink
    <3> QED BY <3>1, ConnQuiet
  <2>2. CASE (\E f \in Node!Fields, new \in Node!Settings : Node!Set(f, new)) \/ Node!FactoryReset
    <3>1. /\ UNCHANGED <<onTheLink, haveCreds, scanning, armed>>
          /\ prov' = [prov EXCEPT !.quiet = FALSE]
          /\ \/ joining' = joining
             \/ /\ joining["console"].pc = "no"
                /\ \E to : joining' = [joining EXCEPT !["console"] = [pc |-> "key", to |-> to]]
          /\ radio' = radio \/ radio' = [radio EXCEPT !.conf = Node!None]
      BY <2>2 DEF Node!Set, Node!FactoryReset, Node!Command, Node!Free, Node!wifi, Node!link, onTheLink
    <3> QED BY <3>1, SettingsKeep
  <2>3. CASE \E t \in Node!Joiners : Node!ConnectWifi(t)
    BY <2>3, ConnectKeeps
  <2>4. CASE \E t \in Node!Linkers : Node!StartLink(t)
    BY <2>4, LinkKeeps
  <2>5. CASE Node!Restart \/ Node!PowerCut
    <3>1. Node!BootAgain
      BY <2>5 DEF Node!Restart, Node!PowerCut
    <3>2. AtBoot'
      BY <3>1 DEF Node!BootAgain, Node!Boot, Node!Blank, AtBoot
    <3>3. AtBoot' => ConnInv'
      BY FreshConnections, PTL
    <3> QED BY <3>2, <3>3
  <2>6. CASE Node!TakeJob \/ Node!Waited \/ Node!Reached \/ Node!Finish \/ Node!FreeBusy
    <3>1. UNCHANGED <<onTheRadio, onTheLink, joining>>
      BY <2>6 DEF Node!TakeJob, Node!Waited, Node!Reached, Node!Finish, Node!FreeBusy, Node!wifi, Node!link,
         onTheRadio, onTheLink
    <3>2. /\ DOMAIN prov' = DOMAIN prov
          /\ \/ prov.pc = "wait" /\ joining["worker"].pc = "no" /\ prov'.pc \notin {"wait", "reach"}
             \/ prov.pc = "reach" /\ linking["worker"].pc = "no" /\ prov'.pc \notin {"wait", "reach"}
             \/ prov.pc \notin {"wait", "reach", "air", "resume"}
      <4>0. DOMAIN prov = {"pc", "op", "c", "quiet", "joined"}
        BY <2>0 DEF PlaceTyped
      <4>1. CASE Node!TakeJob
        BY <4>0, <4>1 DEF Node!TakeJob
      <4>2. CASE Node!FreeBusy
        BY <4>0, <4>2 DEF Node!FreeBusy, Node!Idle
      <4>3. CASE Node!Finish
        BY <4>0, <4>3 DEF Node!Finish, Node!To
      <4>4. CASE Node!Reached
        BY <4>0, <4>4 DEF Node!Reached, Node!To
      <4>5. CASE Node!Waited
        <5>1. prov.pc = "wait" /\ joining["worker"].pc = "no"
              /\ \/ prov' = [prov EXCEPT !.pc = "finish"]
                 \/ prov' = [prov EXCEPT !.pc = "finish", !.joined = radio.on]
                 \/ prov' = [prov EXCEPT !.pc = "broker", !.joined = radio.on]
          BY <4>5 DEF Node!Waited
        <5>2. CASE prov' = [prov EXCEPT !.pc = "finish"]
          BY <4>0, <5>1, <5>2
        <5>3. CASE prov' = [prov EXCEPT !.pc = "finish", !.joined = radio.on]
          BY <4>0, <5>1, <5>3
        <5>4. CASE prov' = [prov EXCEPT !.pc = "broker", !.joined = radio.on]
          BY <4>0, <5>1, <5>4
        <5> QED BY <5>1, <5>2, <5>3, <5>4
      <4> QED BY <2>6, <4>1, <4>2, <4>3, <4>4, <4>5
    <3> QED BY <3>1, <3>2, ConnQuiet
  <2>7. CASE Node!Supervise \/ Node!SuperviseStarts
    BY <2>7, SuperviseKeeps
  <2>8. CASE Node!GotIp \/ Node!Disconnected \/ Node!LostIp \/ Node!OnRetry
    BY <2>8, RadioEventsKeep
  <2>9. CASE Node!Decide \/ Node!Broker
    BY <2>9, TestKeeps
  <2>10. CASE Node!ScanStarts \/ Node!ScanEnds \/ Node!ScanResumes
    BY <2>10, ScanKeeps
  <2> QED BY <2>1, <2>2, <2>3, <2>4, <2>5, <2>6, <2>7, <2>8, <2>9, <2>10
      DEF Node!Next, Node!Console, Node!Worker, Node!NetTask, Node!Joiners, Node!Linkers
<1> QED BY <1>1, <1>2, PTL DEF Node!Spec

\* A station that is off the network it has been given tries again, whoever of the
\* tasks, the timer and the driver disconnects it, stops the timer, or holds the
\* retries back for a scan: connect(), scheduleRetry() and scan() of WifiManager.cpp.
THEOREM RadioAlwaysTries == Node!Spec => []RadioKeepsTrying
<1>1. ConnInv => RadioKeepsTrying
  BY DEF ConnInv, RadioKeepsTrying
<1> QED BY <1>1, ConnAlways, PTL

\* The key of the link, which each task stores for the client that it has started,
\* is that of the client that runs: prov_worker and net_task cannot have their keys
\* stored in another order than their clients started, because of s_linkMu.
\* startLink() of NodeApp.cpp.
THEOREM LinkKeyStaysTrue == Node!Spec => []LinkKeyTrue
<1>1. ConnInv => LinkKeyTrue
  BY DEF ConnInv, KeyStory, LinkKeyTrue
<1> QED BY <1>1, ConnAlways, PTL

-----------------------------------------------------------------------------
(* The agent: its threads and its messages.                                *)

Places == {"dump", "open", "write", "replace", "reply", "apply", "move", "bounce"}
Threads == [pc : Places, to : Sites, old : Sites, n : Nat, text : Agent!Texts, fd : {"tmp", "site", "gone"},
           after : BOOLEAN]
Message == [kind : {Agent!Online, Agent!Offline, "reply"}, site : Sites, n : Nat]
Session == [live : BOOLEAN, connack : BOOLEAN, will : Sites \union {Agent!NoSite}, subs : SUBSET Sites]
Kept == [Sites -> {Agent!NoSite, Agent!Online, Agent!Offline}]
Acked == [n : Nat, past : Nat, site : Sites \union {Agent!NoSite}, later : SUBSET Sites]

AgentTyped ==
    /\ run \in {"up", "stopping", "down"} /\ site \in Sites /\ will \in Sites /\ mqttOk \in BOOLEAN
    /\ outbox \in Seq(Message) /\ worker \in Seq(Threads)
    /\ file \in [site : Agent!Texts, tmp : Agent!Texts] /\ stored \in Sites \union {Agent!NoSite}
    /\ session \in Session /\ retained \in Kept
    /\ acked \in Acked
    /\ excused \in BOOLEAN

\* A sequence with one element more, with another one in its place, without it.
LEMMA OneAdded ==
    ASSUME NEW S, NEW q \in Seq(S), NEW x \in S, NEW r, r = Append(q, x)
    PROVE  /\ r \in Seq(S) /\ Len(q) \in Nat /\ Len(r) = Len(q) + 1 /\ DOMAIN r = 1..(Len(q) + 1) /\ DOMAIN q = 1..Len(q)
           /\ r[Len(q) + 1] = x /\ \A i \in 1..Len(q) : r[i] = q[i] /\ i \in 1..(Len(q) + 1) /\ i < Len(q) + 1
           /\ \A i \in 1..(Len(q) + 1) : i \in 1..Len(q) \/ i = Len(q) + 1
           /\ Len(q) + 1 \in 1..(Len(q) + 1) /\ r # <<>>
<1>1. r \in Seq(S) /\ Len(q) \in Nat /\ Len(r) = Len(q) + 1 /\ DOMAIN q = 1..Len(q) /\ DOMAIN r = 1..Len(r)
      /\ r[Len(q) + 1] = x /\ \A i \in 1..Len(q) : r[i] = q[i]
  BY AppendProperties, LenProperties
<1>2. \A n \in Nat : /\ \A i \in 1..n : i \in 1..(n + 1) /\ i < n + 1
                     /\ \A i \in 1..(n + 1) : i \in 1..n \/ i = n + 1
                     /\ n + 1 \in 1..(n + 1)
  OBVIOUS
<1>3. r # <<>>
  BY <1>1
<1> QED BY <1>1, <1>2, <1>3

LEMMA OneChanged ==
    ASSUME NEW S, NEW q \in Seq(S), NEW w \in 1..Len(q), NEW x \in S, NEW r, r = [q EXCEPT ![w] = x]
    PROVE  /\ r \in Seq(S) /\ Len(r) = Len(q) /\ r[w] = x
           /\ \A v \in 1..Len(q) : v # w => r[v] = q[v]
<1>1. r \in Seq(S) /\ Len(r) = Len(q)
  BY ExceptSeq
<1>2. DOMAIN q = 1..Len(q)
  BY LenProperties
<1> QED BY <1>1, <1>2

\* Where the element of place v came from.
Behind(w, v) == IF v < w THEN v ELSE v + 1

LessOne(q, w) == SubSeq(q, 1, w - 1) \o SubSeq(q, w + 1, Len(q))

LEMMA OneRemoved ==
    ASSUME NEW S, NEW q \in Seq(S), NEW w \in 1..Len(q), NEW r, r = LessOne(q, w)
    PROVE  /\ r \in Seq(S) /\ Len(r) = Len(q) - 1
           /\ \A v \in 1..Len(r) : Behind(w, v) \in 1..Len(q) /\ Behind(w, v) # w /\ r[v] = q[Behind(w, v)]
           /\ \A v, u \in 1..Len(r) : Behind(w, v) = Behind(w, u) => v = u
           /\ \A u \in 1..Len(q) : u # w => \E v \in 1..Len(r) : u = Behind(w, v)
<1> DEFINE a == SubSeq(q, 1, w - 1)
           b == SubSeq(q, w + 1, Len(q))
           n == Len(q)
<1>1. n \in Nat /\ w \in Nat /\ 1 <= w /\ w <= n
  BY LenProperties
<1>2. a \in Seq(S) /\ Len(a) = w - 1 /\ \A i \in 1..(w - 1) : a[i] = q[i]
  <2>1. /\ 1 \in 1..(n + 1) /\ (w - 1) \in 0..n
        /\ (IF 1 <= w - 1 THEN (w - 1) - 1 + 1 ELSE 0) = w - 1
        /\ \A i \in 1..(w - 1) : 1 + i - 1 = i
    BY <1>1
  <2> QED BY <1>1, <2>1, SubSeqProperties
<1>3. b \in Seq(S) /\ Len(b) = n - w /\ \A i \in 1..(n - w) : b[i] = q[w + i]
  <2>1. /\ (w + 1) \in 1..(n + 1) /\ n \in 0..n
        /\ (IF w + 1 <= n THEN n - (w + 1) + 1 ELSE 0) = n - w
        /\ \A i \in 1..(n - w) : (w + 1) + i - 1 = w + i
    BY <1>1
  <2> QED BY <1>1, <2>1, SubSeqProperties
<1>4. r \in Seq(S) /\ Len(r) = (w - 1) + (n - w)
      /\ \A v \in 1..((w - 1) + (n - w)) : r[v] = IF v <= w - 1 THEN a[v] ELSE b[v - (w - 1)]
  <2> HIDE DEF a, b, n
  <2>1. r = a \o b
    BY DEF a, b, n, LessOne
  <2>2. /\ a \o b \in Seq(S) /\ Len(a \o b) = Len(a) + Len(b)
        /\ \A v \in 1..(Len(a) + Len(b)) : (a \o b)[v] = IF v <= Len(a) THEN a[v] ELSE b[v - Len(a)]
    BY <1>2, <1>3, ConcatProperties
  <2> QED BY <1>2, <1>3, <2>1, <2>2
<1> HIDE DEF a, b, n
<1>5. Len(r) = n - 1
  BY <1>1, <1>4
<1>6. ASSUME NEW v \in 1..(n - 1)
      PROVE  Behind(w, v) \in 1..n /\ Behind(w, v) # w /\ r[v] = q[Behind(w, v)]
  <2>1. v \in 1..((w - 1) + (n - w))
    BY <1>1
  <2>2. CASE v < w
    <3>1. v \in 1..(w - 1) /\ v <= w - 1 /\ v \in 1..n /\ v # w
      BY <1>1, <2>2
    <3>2. r[v] = q[v]
      BY <1>2, <1>4, <2>1, <3>1
    <3> QED BY <2>2, <3>1, <3>2 DEF Behind
  <2>3. CASE ~ (v < w)
    <3>1. v - (w - 1) \in 1..(n - w) /\ ~ (v <= w - 1) /\ w + (v - (w - 1)) = v + 1 /\ v + 1 \in 1..n /\ v + 1 # w
      BY <1>1, <2>3
    <3>2. r[v] = b[v - (w - 1)]
      BY <1>4, <2>1, <3>1
    <3>3. b[v - (w - 1)] = q[w + (v - (w - 1))]
      BY <1>3, <3>1
    <3>4. r[v] = q[v + 1]
      BY <3>1, <3>2, <3>3
    <3> QED BY <2>3, <3>1, <3>4 DEF Behind
  <2> QED BY <2>2, <2>3
<1>7. \A v, u \in 1..(n - 1) : Behind(w, v) = Behind(w, u) => v = u
  BY <1>1 DEF Behind
<1>8. ASSUME NEW u \in 1..n, u # w
      PROVE  \E v \in 1..(n - 1) : u = Behind(w, v)
  <2>1. CASE u < w
    <3>1. u \in 1..(n - 1) /\ u = Behind(w, u)
      BY <1>1, <2>1 DEF Behind
    <3> QED BY <3>1
  <2>2. CASE ~ (u < w)
    <3>1. (u - 1) \in 1..(n - 1) /\ u = Behind(w, u - 1)
      BY <1>1, <1>8, <2>2 DEF Behind
    <3> QED BY <3>1
  <2> QED BY <2>1, <2>2
<1> QED BY <1>4, <1>5, <1>6, <1>7, <1>8 DEF n

LEMMA ThreadFields ==
    ASSUME NEW t \in Threads, NEW pc \in Places, NEW s \in Sites, NEW fd \in {"tmp", "site", "gone"}
    PROVE  /\ LET u == [t EXCEPT !.pc = pc] IN
              /\ u \in Threads /\ u.pc = pc /\ u.to = t.to /\ u.n = t.n /\ u.fd = t.fd /\ u.after = t.after
           /\ LET u == [[t EXCEPT !.pc = pc] EXCEPT !.old = s] IN
              /\ u \in Threads /\ u.pc = pc /\ u.to = t.to /\ u.n = t.n
           /\ LET u == [t EXCEPT !.pc = pc, !.fd = fd] IN
              /\ u \in Threads /\ u.pc = pc /\ u.to = t.to /\ u.n = t.n
           /\ LET u == [t EXCEPT !.fd = fd] IN
              /\ u \in Threads /\ u.pc = t.pc /\ u.to = t.to /\ u.n = t.n
BY DEF Threads, Places

LEMMA WorkersAre ==
    ASSUME AgentTyped
    PROVE  /\ Len(worker) \in Nat /\ Agent!Workers = 1..Len(worker) /\ DOMAIN worker = Agent!Workers
           /\ \A w \in Agent!Workers : /\ worker[w] \in Threads /\ worker[w].pc \in Places /\ worker[w].to \in Sites
                                       /\ worker[w].n \in Nat /\ worker[w].after \in BOOLEAN
                                       /\ worker[w].text \in Agent!Texts
                                       /\ worker[w].fd \in {"tmp", "site", "gone"}
<1>1. worker \in Seq(Threads)
  BY DEF AgentTyped
<1>2. Len(worker) \in Nat /\ worker \in [1..Len(worker) -> Threads]
  BY <1>1, LenProperties
<1>3. \A t \in Threads : /\ t.pc \in Places /\ t.to \in Sites /\ t.n \in Nat /\ t.after \in BOOLEAN
                        /\ t.text \in Agent!Texts
                        /\ t.fd \in {"tmp", "site", "gone"}
  BY DEF Threads
<1> QED BY <1>2, <1>3 DEF Agent!Workers

\* A thread goes on.
LEMMA ThreadMoves ==
    ASSUME AgentTyped, NEW w \in Agent!Workers, NEW pc \in Places, NEW s \in Sites,
           worker' = [worker EXCEPT ![w].pc = pc] \/ worker' = [worker EXCEPT ![w].pc = pc, ![w].old = s]
    PROVE  /\ worker' \in Seq(Threads) /\ Len(worker') = Len(worker)
           /\ worker'[w] \in Threads /\ worker'[w].pc = pc /\ worker'[w].to = worker[w].to /\ worker'[w].n = worker[w].n
           /\ \A v \in Agent!Workers : v # w => worker'[v] = worker[v]
           /\ worker' = [worker EXCEPT ![w].pc = pc] => worker'[w].fd = worker[w].fd
<1>1. /\ worker \in Seq(Threads) /\ worker[w] \in Threads /\ w \in 1..Len(worker) /\ Agent!Workers = 1..Len(worker)
      /\ DOMAIN worker = 1..Len(worker)
  BY WorkersAre DEF AgentTyped
<1>2. CASE worker' = [worker EXCEPT ![w].pc = pc]
  <2> DEFINE t == [worker[w] EXCEPT !.pc = pc]
  <2>1. /\ t \in Threads /\ t.pc = pc /\ t.to = worker[w].to /\ t.n = worker[w].n /\ t.fd = worker[w].fd
    BY <1>1, ThreadFields
  <2>2. worker' = [worker EXCEPT ![w] = t]
    BY <1>1, <1>2
  <2> HIDE DEF t
  <2>3. /\ worker' \in Seq(Threads) /\ Len(worker') = Len(worker) /\ worker'[w] = t
        /\ \A v \in 1..Len(worker) : v # w => worker'[v] = worker[v]
    BY <1>1, <2>1, <2>2, OneChanged
  <2> QED BY <1>1, <2>1, <2>3
<1>3. CASE worker' = [worker EXCEPT ![w].pc = pc, ![w].old = s] /\ worker' # [worker EXCEPT ![w].pc = pc]
  <2> DEFINE t == [[worker[w] EXCEPT !.pc = pc] EXCEPT !.old = s]
  <2>1. /\ t \in Threads /\ t.pc = pc /\ t.to = worker[w].to /\ t.n = worker[w].n
    <3>1. [worker[w] EXCEPT !.pc = pc] \in Threads
      BY <1>1 DEF Threads
    <3> QED BY <1>1, <3>1 DEF Threads
  <2>2. worker' = [worker EXCEPT ![w] = t]
    BY <1>1, <1>3
  <2> HIDE DEF t
  <2>3. /\ worker' \in Seq(Threads) /\ Len(worker') = Len(worker) /\ worker'[w] = t
        /\ \A v \in 1..Len(worker) : v # w => worker'[v] = worker[v]
    BY <1>1, <2>1, <2>2, OneChanged
  <2> QED BY <1>1, <1>3, <2>1, <2>3
<1> QED BY <1>2, <1>3

\* save_state() goes on, with the text that it has made or has written, or fails.
LEMMA SaveMoves ==
    ASSUME AgentTyped, NEW w \in Agent!Workers, NEW pc \in Places, NEW text \in Agent!Texts,
           worker' = [worker EXCEPT ![w].pc = pc, ![w].text = text]
    PROVE  /\ worker' \in Seq(Threads) /\ Len(worker') = Len(worker)
           /\ worker'[w].pc = pc /\ worker'[w].text = text /\ worker'[w].to = worker[w].to
           /\ worker'[w].n = worker[w].n /\ worker'[w].fd = worker[w].fd
           /\ \A v \in Agent!Workers : v # w => worker'[v] = worker[v]
<1>1. /\ worker \in Seq(Threads) /\ worker[w] \in Threads /\ w \in 1..Len(worker) /\ Agent!Workers = 1..Len(worker)
      /\ DOMAIN worker = 1..Len(worker)
  BY WorkersAre DEF AgentTyped
<1> DEFINE a == [worker[w] EXCEPT !.pc = pc]
           t == [a EXCEPT !.text = text]
<1>2. a \in Threads /\ a.pc = pc /\ a.to = worker[w].to /\ a.n = worker[w].n /\ a.fd = worker[w].fd
  BY <1>1 DEF Threads
<1>3. worker' = [worker EXCEPT ![w] = t]
  BY <1>1
<1> HIDE DEF a
<1>4. t \in Threads /\ t.pc = pc /\ t.text = text /\ t.to = worker[w].to /\ t.n = worker[w].n /\ t.fd = worker[w].fd
  BY <1>2 DEF Threads
<1> HIDE DEF t
<1>5. ASSUME NEW r, r = [worker EXCEPT ![w] = t]
      PROVE  r \in Seq(Threads) /\ Len(r) = Len(worker) /\ r[w] = t /\ \A v \in 1..Len(worker) : v # w => r[v] = worker[v]
  BY <1>1, <1>4, <1>5, OneChanged
<1>6. /\ worker' \in Seq(Threads) /\ Len(worker') = Len(worker) /\ worker'[w] = t
      /\ \A v \in 1..Len(worker) : v # w => worker'[v] = worker[v]
  BY <1>3, <1>5
<1> QED BY <1>1, <1>4, <1>6

LEMMA SaveGivesUp ==
    ASSUME AgentTyped, NEW w \in Agent!Workers, Agent!SaveFails(w)
    PROVE  /\ worker' \in Seq(Threads) /\ Len(worker') = Len(worker)
           /\ worker'[w].pc = "reply" /\ worker'[w].n = 0 /\ worker'[w].to = worker[w].to
           /\ \A v \in Agent!Workers : v # w => worker'[v] = worker[v]
<1>1. /\ worker \in Seq(Threads) /\ worker[w] \in Threads /\ w \in 1..Len(worker) /\ Agent!Workers = 1..Len(worker)
      /\ DOMAIN worker = 1..Len(worker)
  BY WorkersAre DEF AgentTyped
<1>2. worker' = [worker EXCEPT ![w].pc = "reply", ![w].text = Agent!NoSite, ![w].fd = "tmp", ![w].n = 0]
  BY DEF Agent!SaveFails
<1> DEFINE a == [worker[w] EXCEPT !.pc = "reply"]
           b == [a EXCEPT !.text = Agent!NoSite]
           c == [b EXCEPT !.fd = "tmp"]
           t == [c EXCEPT !.n = 0]
<1>3. worker' = [worker EXCEPT ![w] = t]
  BY <1>1, <1>2
<1>4. a \in Threads /\ a.pc = "reply" /\ a.to = worker[w].to
  BY <1>1 DEF Threads, Places
<1> HIDE DEF a
<1>5. b \in Threads /\ b.pc = "reply" /\ b.to = worker[w].to
  BY <1>4 DEF Threads, Agent!Texts
<1> HIDE DEF b
<1>6. c \in Threads /\ c.pc = "reply" /\ c.to = worker[w].to
  BY <1>5 DEF Threads
<1> HIDE DEF c
<1>7. t \in Threads /\ t.pc = "reply" /\ t.to = worker[w].to /\ t.n = 0
  BY <1>6 DEF Threads
<1> HIDE DEF t
<1>8. /\ worker' \in Seq(Threads) /\ Len(worker') = Len(worker) /\ worker'[w] = t
      /\ \A v \in 1..Len(worker) : v # w => worker'[v] = worker[v]
  BY <1>1, <1>3, <1>7, OneChanged
<1> QED BY <1>1, <1>7, <1>8

\* A thread is done.
LEMMA ThreadReturns ==
    ASSUME AgentTyped, NEW w \in Agent!Workers, Agent!Returns(w)
    PROVE  /\ worker' \in Seq(Threads) /\ Len(worker') = Len(worker) - 1
           /\ \A v \in 1..Len(worker') : /\ Behind(w, v) \in Agent!Workers /\ Behind(w, v) # w
                                         /\ worker'[v] = worker[Behind(w, v)]
           /\ \A v, u \in 1..Len(worker') : Behind(w, v) = Behind(w, u) => v = u
           /\ \A u \in Agent!Workers : u # w => \E v \in 1..Len(worker') : u = Behind(w, v)
<1>1. /\ worker \in Seq(Threads) /\ w \in 1..Len(worker) /\ Agent!Workers = 1..Len(worker)
      /\ worker' = LessOne(worker, w)
  BY WorkersAre DEF AgentTyped, Agent!Returns, LessOne
<1>2. /\ worker' \in Seq(Threads) /\ Len(worker') = Len(worker) - 1
      /\ \A v \in 1..Len(worker') : /\ Behind(w, v) \in 1..Len(worker) /\ Behind(w, v) # w
                                    /\ worker'[v] = worker[Behind(w, v)]
      /\ \A v, u \in 1..Len(worker') : Behind(w, v) = Behind(w, u) => v = u
      /\ \A u \in 1..Len(worker) : u # w => \E v \in 1..Len(worker') : u = Behind(w, v)
  BY <1>1, OneRemoved
<1> QED BY <1>1, <1>2

\* A command gets a thread.
LEMMA ThreadStarts ==
    ASSUME AgentTyped, NEW t \in Threads, worker' = Append(worker, t)
    PROVE  /\ worker' \in Seq(Threads) /\ Len(worker') = Len(worker) + 1 /\ worker'[Len(worker) + 1] = t
           /\ Len(worker) + 1 \in 1..Len(worker')
           /\ \A v \in Agent!Workers : worker'[v] = worker[v] /\ v \in 1..Len(worker')
           /\ \A v \in 1..Len(worker') : v \in Agent!Workers \/ v = Len(worker) + 1
           /\ Len(worker) + 1 \notin Agent!Workers
<1>1. worker \in Seq(Threads) /\ Agent!Workers = 1..Len(worker) /\ Len(worker) \in Nat
  BY WorkersAre DEF AgentTyped
<1>2. Len(worker) + 1 \notin 1..Len(worker)
  BY <1>1
<1> QED BY <1>1, <1>2, OneAdded

\* A thread that is new.
LEMMA NewThreads ==
    ASSUME AgentTyped, NEW pc \in {"dump", "reply"}, NEW s \in Sites, NEW n \in Nat
    PROVE  Agent!Thread(pc, s, n, TRUE) \in Threads /\ Agent!Thread(pc, s, n, FALSE) \in Threads
BY DEF AgentTyped, Agent!Thread, Threads, Places, Agent!Texts

\* The thread that puts its file in place; others write on to what they opened.
LEMMA ReplaceMoves ==
    ASSUME AgentTyped, NEW w \in Agent!Workers, Agent!Replace(w)
    PROVE  /\ worker' \in Seq(Threads) /\ Len(worker') = Len(worker)
           /\ worker[w].pc = "replace" /\ worker'[w].pc = "reply"
           /\ \A v \in Agent!Workers : /\ worker'[v].to = worker[v].to /\ worker'[v].n = worker[v].n
                                       /\ v # w => worker'[v].pc = worker[v].pc
<1>1. /\ worker \in Seq(Threads) /\ Agent!Workers = 1..Len(worker) /\ Len(worker) \in Nat /\ worker[w].pc = "replace"
  BY WorkersAre DEF AgentTyped, Agent!Replace, Agent!At
<1>2. CASE file.tmp = Agent!NoSite
  <2>1. worker' = [worker EXCEPT ![w].pc = "reply"]
    BY <1>2 DEF Agent!Replace, Agent!Goes
  <2>2. "reply" \in Places /\ site \in Sites
    BY DEF Places, AgentTyped
  <2> QED BY <1>1, <2>1, <2>2, ThreadMoves
<1>3. CASE file.tmp # Agent!NoSite
  <2> DEFINE new(v) == IF v = w THEN [worker[v] EXCEPT !.pc = "reply", !.fd = "tmp"]
                       ELSE IF worker[v].pc = "write"
                            THEN [worker[v] EXCEPT !.fd = IF @ = "tmp" THEN "site" ELSE "gone"]
                            ELSE worker[v]
  <2>1. worker' = [v \in Agent!Workers |-> new(v)]
    BY <1>3 DEF Agent!Replace
  <2>2. ASSUME NEW v \in Agent!Workers
        PROVE  /\ new(v) \in Threads /\ new(v).to = worker[v].to /\ new(v).n = worker[v].n
               /\ v # w => new(v).pc = worker[v].pc
               /\ v = w => new(v).pc = "reply"
    <3>0. worker[v] \in Threads /\ "reply" \in Places /\ worker[v].fd \in {"tmp", "site", "gone"}
      BY WorkersAre DEF Places
    <3>1. CASE v = w
      BY <3>0, <3>1 DEF Threads, Places
    <3>2. CASE v # w /\ worker[v].pc = "write" /\ worker[v].fd = "tmp"
      <4>1. new(v) = [worker[v] EXCEPT !.fd = "site"]
        BY <3>2
      <4> QED BY <3>0, <3>2, <4>1 DEF Threads, Places
    <3>3. CASE v # w /\ worker[v].pc = "write" /\ worker[v].fd # "tmp"
      <4>1. new(v) = [worker[v] EXCEPT !.fd = "gone"]
        BY <3>3
      <4> QED BY <3>0, <3>3, <4>1 DEF Threads, Places
    <3>4. CASE v # w /\ worker[v].pc # "write"
      BY <3>0, <3>4
    <3> QED BY <3>1, <3>2, <3>3, <3>4
  <2> HIDE DEF new
  <2>3. worker' \in [1..Len(worker) -> Threads]
    BY <1>1, <2>1, <2>2
  <2>4. worker' \in Seq(Threads) /\ Len(worker') = Len(worker)
    BY <1>1, <2>3
  <2> QED BY <1>1, <2>1, <2>2, <2>4
<1> QED BY <1>2, <1>3

\* A message, which has a site of the agent's.
LEMMA Messages ==
    ASSUME NEW s \in Sites, NEW n \in Nat
    PROVE  /\ Agent!Msg(Agent!Online, s) \in Message /\ Agent!Msg(Agent!Offline, s) \in Message
           /\ [kind |-> "reply", site |-> s, n |-> n] \in Message
BY DEF Agent!Msg, Message

LEMMA BoxGrows ==
    ASSUME AgentTyped, NEW m \in Message, outbox' = Append(outbox, m)
    PROVE  /\ outbox' \in Seq(Message) /\ outbox' # <<>>
BY OneAdded DEF AgentTyped

LEMMA StatusKept ==
    ASSUME AgentTyped, NEW s, NEW state \in {Agent!Online, Agent!Offline}, retained' = [retained EXCEPT ![s] = state]
    PROVE  retained' \in Kept
BY DEF AgentTyped, Kept

\* The host gets the answer to a set_meta.
LEMMA AckedMoves ==
    ASSUME AgentTyped, NEW m \in Message, Agent!Answered(m)
    PROVE  /\ acked' \in Acked /\ acked'.n = acked.n
           /\ m.n <= acked.past => acked' = acked
           /\ ~ (m.n <= acked.past) => /\ acked'.past = m.n /\ acked'.site = m.site
                                      /\ acked'.later = IF m.n = acked.n THEN {} ELSE acked.later
<1>1. acked \in Acked /\ m.n \in Nat /\ m.site \in Sites
  BY DEF AgentTyped, Message
<1>2. CASE m.n <= acked.past
  BY <1>1, <1>2 DEF Agent!Answered
<1>3. CASE ~ (m.n <= acked.past)
  <2> DEFINE l == IF m.n = acked.n THEN {} ELSE acked.later
  <2>1. acked' = [acked EXCEPT !.past = m.n, !.site = m.site, !.later = l]
    BY <1>3 DEF Agent!Answered
  <2>2. l \in SUBSET Sites
    BY <1>1 DEF Acked
  <2> HIDE DEF l
  <2>3. acked' \in Acked /\ acked'.n = acked.n /\ acked'.past = m.n /\ acked'.site = m.site /\ acked'.later = l
    BY <1>1, <2>1, <2>2 DEF Acked
  <2> QED BY <1>3, <2>3 DEF l
<1> QED BY <1>2, <1>3

LEMMA Zero ==
    /\ 0 \in Nat /\ <<>> \in Seq(Message) /\ <<>> \in Seq(Threads) /\ Agent!NoSession \in Session
    /\ Agent!NoSession.live = FALSE
BY DEF Agent!NoSession, Session

\* A session that ends without a DISCONNECT, or none that ends.
LEMMA EndOfSession ==
    ASSUME AgentTyped, Agent!WillFires \/ UNCHANGED <<session, retained>>
    PROVE  session' \in Session /\ retained' \in Kept
<1>1. CASE Agent!WillFires
  <2>1. session' = Agent!NoSession /\ retained' = [retained EXCEPT ![session.will] = Agent!Offline]
    BY <1>1 DEF Agent!WillFires, Agent!Status
  <2> QED BY <2>1, StatusKept, Zero
<1>2. CASE UNCHANGED <<session, retained>>
  BY <1>2 DEF AgentTyped
<1> QED BY <1>1, <1>2

\* A thread of a command keeps the types.
LEMMA ThreadTypes ==
    ASSUME AgentTyped, NEW w \in Agent!Workers, Agent!Worker(w)
    PROVE  AgentTyped'
<1>0. /\ run \in {"up", "stopping", "down"} /\ site \in Sites /\ will \in Sites /\ mqttOk \in BOOLEAN
      /\ outbox \in Seq(Message) /\ worker \in Seq(Threads)
      /\ file \in [site : Agent!Texts, tmp : Agent!Texts] /\ stored \in Sites \union {Agent!NoSite}
      /\ session \in Session /\ retained \in Kept
      /\ acked \in Acked
      /\ excused \in BOOLEAN
  BY DEF AgentTyped
<1>a. /\ worker[w].to \in Sites /\ worker[w].n \in Nat /\ worker[w].fd \in {"tmp", "site", "gone"}
      /\ worker[w].text \in Agent!Texts /\ {Agent!NoSite, Agent!Bare, Agent!Mixed} \subseteq Agent!Texts
      /\ Sites \subseteq Agent!Texts /\ {"open", "write", "replace", "reply", "apply", "move", "bounce"} \subseteq Places
  BY WorkersAre DEF Places, Agent!Texts
<1>1. CASE Agent!Open(w)
  <2>1. /\ file' = [file EXCEPT !.tmp = Agent!Empty] /\ worker' = [worker EXCEPT ![w].pc = "write"]
        /\ UNCHANGED <<run, site, will, mqttOk, outbox, stored, session, retained, acked, excused>>
    BY <1>1 DEF Agent!Open, Agent!Goes, Agent!agent, Agent!broker
  <2>2. file' \in [site : Agent!Texts, tmp : Agent!Texts]
    BY <1>0, <2>1 DEF Agent!Texts
  <2>3. worker' \in Seq(Threads)
    BY <1>0, <1>a, <2>1, ThreadMoves
  <2> QED BY <1>0, <2>1, <2>2, <2>3 DEF AgentTyped
<1>2. CASE Agent!Write(w)
  <2>1. /\ worker' = [worker EXCEPT ![w].pc = "replace", ![w].text = Agent!NoSite]
        /\ UNCHANGED <<run, site, will, mqttOk, outbox, stored, session, retained, acked, excused>>
    BY <1>2 DEF Agent!Write, Agent!Goes, Agent!agent, Agent!broker
  <2>2. file' \in [site : Agent!Texts, tmp : Agent!Texts]
    <3>1. file' = file \/ \E text \in {worker[w].text, Agent!Mixed} : file' = [file EXCEPT ![worker[w].fd] = text]
      BY <1>2 DEF Agent!Write
    <3> QED BY <1>0, <1>a, <3>1
  <2>3. worker' \in Seq(Threads)
    BY <1>a, <2>1, SaveMoves
  <2> QED BY <1>0, <2>1, <2>2, <2>3 DEF AgentTyped
<1>3. CASE Agent!Replace(w)
  <2>1. /\ file' = file \/ file' = [site |-> file.tmp, tmp |-> Agent!NoSite]
        /\ UNCHANGED <<run, site, will, mqttOk, outbox, stored, session, retained, acked, excused>>
    BY <1>3 DEF Agent!Replace, Agent!agent, Agent!broker
  <2>2. file' \in [site : Agent!Texts, tmp : Agent!Texts]
    BY <1>0, <2>1 DEF Agent!Texts
  <2>3. worker' \in Seq(Threads)
    BY <1>3, ReplaceMoves
  <2> QED BY <1>0, <2>1, <2>2, <2>3 DEF AgentTyped
<1>4. CASE Agent!Reply(w)
  <2>1. /\ outbox' = Append(outbox, [kind |-> "reply", site |-> worker[w].to, n |-> worker[w].n])
        /\ worker' = [worker EXCEPT ![w].pc = "apply"] \/ Agent!Returns(w)
        /\ UNCHANGED <<run, site, will, mqttOk, file, stored, session, retained, acked, excused>>
    BY <1>4 DEF Agent!Reply, Agent!Goes, Agent!agent, Agent!broker
  <2>2. outbox' \in Seq(Message)
    BY <1>a, <2>1, Messages, BoxGrows
  <2>3. worker' \in Seq(Threads)
    BY <1>0, <1>a, <2>1, ThreadMoves, ThreadReturns
  <2> QED BY <1>0, <2>1, <2>2, <2>3 DEF AgentTyped
<1>5. CASE Agent!Apply(w)
  <2>1. /\ outbox' = outbox \/ outbox' = Append(outbox, Agent!Msg(Agent!Offline, site))
        /\ site' = worker[w].to /\ worker' = [worker EXCEPT ![w].pc = "move", ![w].old = site]
        /\ excused' \in BOOLEAN
        /\ UNCHANGED <<run, will, mqttOk, file, stored, session, retained, acked>>
    BY <1>5 DEF Agent!Apply, Agent!broker
  <2>2. outbox' \in Seq(Message)
    BY <1>0, <2>1, Messages, BoxGrows, Zero
  <2>3. worker' \in Seq(Threads)
    BY <1>0, <1>a, <2>1, ThreadMoves
  <2> QED BY <1>0, <1>a, <2>1, <2>2, <2>3 DEF AgentTyped
<1>6. CASE Agent!Retopic(w)
  <2>1. UNCHANGED <<run, site, mqttOk, file, stored, retained, acked, excused>>
    BY <1>6 DEF Agent!Retopic
  <2>2. CASE mqttOk
    <3>1. /\ outbox' = Append(outbox, Agent!Msg(Agent!Online, site)) /\ will' = site
          /\ session' = session \/ session' = [session EXCEPT !.subs = (session.subs \ {worker[w].old}) \union {site}]
          /\ worker' = [worker EXCEPT ![w].pc = "bounce"]
      BY <1>6, <2>2 DEF Agent!Retopic, Agent!Goes
    <3>2. outbox' \in Seq(Message)
      BY <1>0, <3>1, Messages, BoxGrows, Zero
    <3>3. worker' \in Seq(Threads)
      BY <1>0, <1>a, <3>1, ThreadMoves
    <3>4. session' \in Session
      BY <1>0, <3>1 DEF Session
    <3> QED BY <1>0, <2>1, <3>1, <3>2, <3>3, <3>4 DEF AgentTyped
  <2>3. CASE ~ mqttOk
    <3>1. Agent!Returns(w) /\ UNCHANGED <<outbox, stored, session, will>>
      BY <1>6, <2>3 DEF Agent!Retopic
    <3>2. worker' \in Seq(Threads)
      BY <3>1, ThreadReturns
    <3> QED BY <1>0, <2>1, <3>1, <3>2 DEF AgentTyped
  <2> QED BY <2>2, <2>3
<1>7. CASE Agent!Bounce(w)
  <2>1. /\ mqttOk' = FALSE /\ Agent!Returns(w)
        /\ Agent!WillFires \/ (session' = Agent!NoSession /\ retained' = retained)
        /\ UNCHANGED <<run, site, will, outbox, file, stored, acked, excused>>
    BY <1>7 DEF Agent!Bounce
  <2>2. session' \in Session /\ retained' \in Kept
    BY <1>0, <2>1, EndOfSession, Zero
  <2>3. worker' \in Seq(Threads)
    BY <2>1, ThreadReturns
  <2> QED BY <1>0, <2>1, <2>2, <2>3 DEF AgentTyped
<1>8. CASE Agent!Dump(w)
  <2> DEFINE text == IF stored = Agent!NoSite THEN Agent!Bare ELSE stored
  <2>1. /\ worker' = [worker EXCEPT ![w].pc = "open", ![w].text = text]
        /\ UNCHANGED <<run, site, will, mqttOk, outbox, file, stored, session, retained, acked, excused>>
    BY <1>8 DEF Agent!Dump, Agent!agent, Agent!broker
  <2>2. text \in Agent!Texts
    BY <1>0, <1>a
  <2> HIDE DEF text
  <2>3. worker' \in Seq(Threads)
    BY <1>a, <2>1, <2>2, SaveMoves
  <2> QED BY <1>0, <2>1, <2>3 DEF AgentTyped
<1>9. CASE Agent!SaveFails(w)
  <2>1. /\ file' = file \/ file' = [file EXCEPT ![worker[w].fd] = Agent!Mixed]
        /\ UNCHANGED <<run, site, will, mqttOk, outbox, stored, session, retained, acked, excused>>
    BY <1>9 DEF Agent!SaveFails, Agent!agent, Agent!broker
  <2>2. file' \in [site : Agent!Texts, tmp : Agent!Texts]
    BY <1>0, <1>a, <2>1
  <2>3. worker' \in Seq(Threads)
    BY <1>9, SaveGivesUp
  <2> QED BY <1>0, <2>1, <2>2, <2>3 DEF AgentTyped
<1> QED BY <1>1, <1>2, <1>3, <1>4, <1>5, <1>6, <1>7, <1>8, <1>9 DEF Agent!Worker, Agent!Save

typed == <<run, site, will, mqttOk, outbox, worker, file, stored, session, retained, acked, excused>>

\* The agent, the broker and the threads keep their types.
LEMMA AgentTypes ==
    ASSUME AgentTyped, [Agent!Next]_Agent!vars
    PROVE  AgentTyped'
<1>0. /\ run \in {"up", "stopping", "down"} /\ site \in Sites /\ will \in Sites /\ mqttOk \in BOOLEAN
      /\ outbox \in Seq(Message) /\ worker \in Seq(Threads)
      /\ file \in [site : Agent!Texts, tmp : Agent!Texts] /\ stored \in Sites \union {Agent!NoSite}
      /\ session \in Session /\ retained \in Kept
      /\ acked \in Acked
      /\ excused \in BOOLEAN
  BY DEF AgentTyped
<1>1. CASE \/ UNCHANGED Agent!vars
           \/ Agent!HostAges \/ Agent!HostLeaves \/ Agent!HostReturns \/ Agent!Heal \/ Agent!Transmit
  <2>1. UNCHANGED typed
    BY <1>1 DEF Agent!vars, Agent!agent, Agent!broker, Agent!HostAges, Agent!HostLeaves, Agent!HostReturns, Agent!Heal,
       Agent!Transmit, typed
  <2> QED BY <2>1 DEF AgentTyped, typed
<1>2. CASE Agent!Deliver
  <2>1. /\ outbox # <<>> /\ outbox' = Tail(outbox)
        /\ UNCHANGED <<run, site, will, mqttOk, worker, file, stored, session, excused>>
    BY <1>2 DEF Agent!Deliver, Agent!agent
  <2>2. outbox' \in Seq(Message) /\ Head(outbox) \in Message
    BY <1>0, <2>1, HeadTailProperties
  <2>3. CASE Head(outbox).kind = "reply"
    <3>1. retained' = retained /\ Agent!Answered(Head(outbox))
      BY <1>2, <2>3 DEF Agent!Deliver
    <3>3. acked' \in Acked
      BY <2>2, <3>1, AckedMoves
    <3> QED BY <1>0, <2>1, <2>2, <3>1, <3>3 DEF AgentTyped
  <2>4. CASE Head(outbox).kind # "reply"
    <3>1. acked' = acked /\ retained' = [retained EXCEPT ![Head(outbox).site] = Head(outbox).kind]
      BY <1>2, <2>4 DEF Agent!Deliver, Agent!Status
    <3>2. Head(outbox).kind \in {Agent!Online, Agent!Offline}
      BY <2>2, <2>4 DEF Message
    <3>3. retained' \in Kept
      BY <3>1, <3>2, StatusKept
    <3> QED BY <1>0, <2>1, <2>2, <3>1, <3>3 DEF AgentTyped
  <2> QED BY <2>3, <2>4
<1>3. CASE Agent!Connect
  <2>1. /\ session' = [live |-> TRUE, connack |-> TRUE, will |-> will, subs |-> {}]
        /\ UNCHANGED <<run, site, will, mqttOk, outbox, worker, file, stored, retained, acked, excused>>
    BY <1>3 DEF Agent!Connect, Agent!agent
  <2>2. session' \in Session
    BY <1>0, <2>1 DEF Session
  <2> QED BY <1>0, <2>1, <2>2 DEF AgentTyped
<1>4. CASE Agent!OnConnect
  <2>1. /\ mqttOk' = TRUE /\ session' = [session EXCEPT !.connack = FALSE, !.subs = {site}]
        /\ outbox' = Append(outbox, Agent!Msg(Agent!Online, site))
        /\ UNCHANGED <<run, site, will, worker, file, stored, retained, acked, excused>>
    BY <1>4 DEF Agent!OnConnect
  <2>2. session' \in Session
    BY <1>0, <2>1 DEF Session
  <2>3. outbox' \in Seq(Message)
    BY <1>0, <2>1, Messages, BoxGrows, Zero
  <2> QED BY <1>0, <2>1, <2>2, <2>3 DEF AgentTyped
<1>5. CASE Agent!OnDisconnect
  BY <1>0, <1>5 DEF Agent!OnDisconnect, Agent!broker, AgentTyped
<1>6. ASSUME NEW left, Agent!Drop(left) PROVE AgentTyped'
  <2>1. UNCHANGED <<run, site, will, mqttOk, outbox, worker, file, stored, acked>> /\ excused' \in BOOLEAN
    BY <1>0, <1>6 DEF Agent!Drop, Agent!agent
  <2>2. session' \in Session /\ retained' \in Kept
    BY <1>0, <1>6, EndOfSession DEF Agent!Drop, Agent!broker
  <2> QED BY <1>0, <2>1, <2>2 DEF AgentTyped
<1>7. CASE Agent!Shutdown
  <2>1. UNCHANGED <<site, will, mqttOk, worker, file, stored, session, retained, acked>> /\ excused' \in BOOLEAN
        /\ run' = "stopping"
        /\ (outbox' = outbox \/ outbox' = Append(outbox, Agent!Msg(Agent!Offline, site)))
    BY <1>0, <1>7 DEF Agent!Shutdown, Agent!broker
  <2>2. outbox' \in Seq(Message)
    BY <1>0, <2>1, Messages, BoxGrows, Zero
  <2> QED BY <1>0, <2>1, <2>2 DEF AgentTyped
<1>8. CASE Agent!Ended
  <2>1. UNCHANGED <<site, will, file, stored, retained, acked>> /\ excused' \in BOOLEAN
        /\ run' = "down" /\ mqttOk' = FALSE /\ outbox' = <<>> /\ worker' = <<>> /\ session' = Agent!NoSession
    BY <1>0, <1>8 DEF Agent!Ended
  <2> QED BY <1>0, <2>1, Zero DEF AgentTyped
<1>9. CASE Agent!Crash
  <2>1. UNCHANGED <<site, will, file, stored, acked>> /\ excused' \in BOOLEAN
        /\ run' = "down" /\ mqttOk' = FALSE /\ outbox' = <<>> /\ worker' = <<>>
    BY <1>0, <1>9 DEF Agent!Crash
  <2>2. session' \in Session /\ retained' \in Kept
    BY <1>0, <1>9, EndOfSession DEF Agent!Crash, Agent!broker
  <2> QED BY <1>0, <2>1, <2>2, Zero DEF AgentTyped
<1>10. CASE Agent!Start
  <2>1. /\ site' = (IF Agent!LoadState # Agent!NoSite THEN Agent!LoadState ELSE Configured) /\ will' = site'
        /\ run' = "up" /\ mqttOk' = FALSE /\ stored' = Agent!LoadState
        /\ UNCHANGED <<outbox, worker, file, session, retained, acked, excused>>
    BY <1>10 DEF Agent!Start, Agent!broker
  <2>2. site' \in Sites /\ stored' \in Sites \union {Agent!NoSite}
    BY <2>1, EdgeAssumption DEF Agent!LoadState
  <2> QED BY <1>0, <2>1, <2>2 DEF AgentTyped
<1>11. ASSUME NEW s \in Sites, Agent!SetMeta(s) PROVE AgentTyped'
  <2>1. /\ UNCHANGED <<run, site, will, mqttOk, outbox, file, session, retained, excused>> /\ stored' = s
        /\ worker' = Append(worker, Agent!Thread("dump", s, acked.n + 1, TRUE))
    BY <1>11 DEF Agent!SetMeta, Agent!OnMessage, Agent!agent, Agent!broker
  <2>2. acked' \in Acked /\ acked.n + 1 \in Nat
    <3>1. \/ acked' = [n |-> acked.n + 1, past |-> acked.n + 1, site |-> Agent!NoSite, later |-> {}]
          \/ acked' = [acked EXCEPT !.n = acked.n + 1, !.later = acked.later \union {s}]
      BY <1>11 DEF Agent!SetMeta, Agent!Void
    <3>2. acked.n + 1 \in Nat /\ acked.later \union {s} \in SUBSET Sites
      BY <1>0 DEF Acked
    <3>3. CASE acked' = [n |-> acked.n + 1, past |-> acked.n + 1, site |-> Agent!NoSite, later |-> {}]
      BY <3>2, <3>3 DEF Acked
    <3>4. CASE acked' = [acked EXCEPT !.n = acked.n + 1, !.later = acked.later \union {s}]
      <4> DEFINE k == acked.n + 1
                 l == acked.later \union {s}
      <4>1. k \in Nat /\ l \in SUBSET Sites /\ acked' = [acked EXCEPT !.n = k, !.later = l]
        BY <3>2, <3>4
      <4> HIDE DEF k, l
      <4>2. acked' \in Acked
        BY <1>0, <4>1 DEF Acked
      <4> QED BY <3>2, <4>2
    <3> QED BY <3>1, <3>3, <3>4
  <2>3. Agent!Thread("dump", s, acked.n + 1, TRUE) \in Threads
    BY <1>0, <2>2, NewThreads
  <2>4. worker' \in Seq(Threads)
    BY <2>1, <2>3, ThreadStarts
  <2> QED BY <1>0, <2>1, <2>2, <2>4 DEF AgentTyped
<1>12. CASE Agent!HandleCommand
  <2>1. /\ UNCHANGED <<run, site, will, mqttOk, outbox, file, stored, session, retained, acked, excused>>
        /\ worker' = Append(worker, Agent!Thread("reply", site, 0, FALSE))
    BY <1>12 DEF Agent!HandleCommand, Agent!OnMessage, Agent!agent, Agent!broker
  <2>2. Agent!Thread("reply", site, 0, FALSE) \in Threads
    BY <1>0, Zero, NewThreads
  <2>3. worker' \in Seq(Threads)
    BY <2>1, <2>2, ThreadStarts
  <2> QED BY <1>0, <2>1, <2>3 DEF AgentTyped
<1>13. ASSUME NEW w \in Agent!Workers, Agent!Worker(w) PROVE AgentTyped'
  BY <1>13, ThreadTypes
<1>14. CASE Agent!Remember
  <2>1. /\ UNCHANGED <<run, site, will, mqttOk, outbox, file, stored, session, retained, excused>>
        /\ worker' = Append(worker, Agent!Thread("dump", site, 0, FALSE))
        /\ acked' = acked \/ acked' = Agent!Void(acked.n)
    BY <1>14 DEF Agent!Remember, Agent!OnMessage, Agent!agent, Agent!broker
  <2>2. Agent!Thread("dump", site, 0, FALSE) \in Threads
    BY <1>0, Zero, NewThreads
  <2>3. worker' \in Seq(Threads)
    BY <2>1, <2>2, ThreadStarts
  <2>4. acked' \in Acked
    BY <1>0, <2>1 DEF Acked, Agent!Void
  <2> QED BY <1>0, <2>1, <2>3, <2>4 DEF AgentTyped
<1> QED BY <1>1, <1>2, <1>3, <1>4, <1>5, <1>6, <1>7, <1>8, <1>9, <1>10, <1>11, <1>12, <1>13, <1>14 DEF Agent!Next

-----------------------------------------------------------------------------
(* The agent: what is to become of the status of a site.                   *)

\* The status of site s on the broker is online when the box has been delivered.
IsStatus(m, s) == m.kind # "reply" /\ m.site = s
EndsOnline(box, kept, s) ==
    \/ \E i \in DOMAIN box : /\ box[i].kind = Agent!Online /\ box[i].site = s
                             /\ \A j \in DOMAIN box : i < j => ~ IsStatus(box[j], s)
    \/ kept[s] = Agent!Online /\ \A i \in DOMAIN box : ~ IsStatus(box[i], s)

\* What comes last decides.
LEMMA LastDecides ==
    ASSUME NEW box \in Seq(Message), NEW m \in Message, NEW kept, NEW s, NEW more, more = Append(box, m)
    PROVE  EndsOnline(more, kept, s) <=> IF IsStatus(m, s) THEN m.kind = Agent!Online ELSE EndsOnline(box, kept, s)
<1> DEFINE n == Len(box)
<1>1. /\ n \in Nat /\ DOMAIN box = 1..n /\ DOMAIN more = 1..(n + 1) /\ more[n + 1] = m
      /\ \A i \in 1..n : more[i] = box[i] /\ i \in 1..(n + 1) /\ i < n + 1
      /\ \A i \in 1..(n + 1) : i \in 1..n \/ i = n + 1
      /\ n + 1 \in 1..(n + 1)
  BY OneAdded
<1> HIDE DEF n
<1>a. \A j \in 1..(n + 1) : ~ (n + 1 < j)
  BY <1>1
<1>2. CASE IsStatus(m, s)
  <2>1. ASSUME m.kind = Agent!Online PROVE EndsOnline(more, kept, s)
    BY <1>1, <1>2, <1>a, <2>1 DEF EndsOnline, IsStatus
  <2>2. ASSUME EndsOnline(more, kept, s) PROVE m.kind = Agent!Online
    <3>1. \E i \in 1..(n + 1) : /\ more[i].kind = Agent!Online /\ more[i].site = s
                                /\ \A j \in 1..(n + 1) : i < j => ~ IsStatus(more[j], s)
      BY <1>1, <1>2, <2>2 DEF EndsOnline
    <3>2. PICK i \in 1..(n + 1) : /\ more[i].kind = Agent!Online
                                  /\ \A j \in 1..(n + 1) : i < j => ~ IsStatus(more[j], s)
      BY <3>1
    <3>3. i = n + 1
      BY <1>1, <1>2, <3>2
    <3> QED BY <1>1, <3>2, <3>3
  <2> QED BY <1>2, <2>1, <2>2
<1>3. CASE ~ IsStatus(m, s)
  <2>1. ASSUME EndsOnline(more, kept, s) PROVE EndsOnline(box, kept, s)
    <3>1. CASE \E i \in 1..(n + 1) : /\ more[i].kind = Agent!Online /\ more[i].site = s
                                     /\ \A j \in 1..(n + 1) : i < j => ~ IsStatus(more[j], s)
      <4>1. PICK i \in 1..(n + 1) : /\ more[i].kind = Agent!Online /\ more[i].site = s
                                    /\ \A j \in 1..(n + 1) : i < j => ~ IsStatus(more[j], s)
        BY <3>1
      <4>2. i # n + 1
        BY <1>1, <1>3, <4>1 DEF IsStatus, Agent!Online
      <4>3. i \in 1..n /\ box[i].kind = Agent!Online /\ box[i].site = s
        BY <1>1, <4>1, <4>2
      <4>4. \A j \in 1..n : i < j => ~ IsStatus(box[j], s)
        BY <1>1, <4>1
      <4> QED BY <1>1, <4>3, <4>4 DEF EndsOnline
    <3>2. CASE kept[s] = Agent!Online /\ \A i \in 1..(n + 1) : ~ IsStatus(more[i], s)
      <4>1. \A i \in 1..n : ~ IsStatus(box[i], s)
        BY <1>1, <3>2
      <4> QED BY <1>1, <3>2, <4>1 DEF EndsOnline
    <3> QED BY <1>1, <2>1, <3>1, <3>2 DEF EndsOnline
  <2>2. ASSUME EndsOnline(box, kept, s) PROVE EndsOnline(more, kept, s)
    <3>1. CASE \E i \in 1..n : /\ box[i].kind = Agent!Online /\ box[i].site = s
                               /\ \A j \in 1..n : i < j => ~ IsStatus(box[j], s)
      <4>1. PICK i \in 1..n : /\ box[i].kind = Agent!Online /\ box[i].site = s
                              /\ \A j \in 1..n : i < j => ~ IsStatus(box[j], s)
        BY <3>1
      <4>2. i \in 1..(n + 1) /\ more[i].kind = Agent!Online /\ more[i].site = s
        BY <1>1, <4>1
      <4>3. \A j \in 1..(n + 1) : i < j => ~ IsStatus(more[j], s)
        BY <1>1, <1>3, <4>1
      <4> QED BY <1>1, <4>2, <4>3 DEF EndsOnline
    <3>2. CASE kept[s] = Agent!Online /\ \A i \in 1..n : ~ IsStatus(box[i], s)
      <4>1. \A i \in 1..(n + 1) : ~ IsStatus(more[i], s)
        BY <1>1, <1>3, <3>2
      <4> QED BY <1>1, <3>2, <4>1 DEF EndsOnline
    <3> QED BY <1>1, <2>2, <3>1, <3>2 DEF EndsOnline
  <2> QED BY <1>3, <2>1, <2>2
<1> QED BY <1>2, <1>3

\* What is delivered is what was to become of it.
LEMMA DeliveryDecides ==
    ASSUME NEW box \in Seq(Message), box # <<>>, NEW kept \in Kept, NEW s \in Sites, NEW m, m = Head(box),
           NEW after, after = IF m.kind = "reply" THEN kept ELSE [kept EXCEPT ![m.site] = m.kind]
    PROVE  EndsOnline(Tail(box), after, s) <=> EndsOnline(box, kept, s)
<1> DEFINE rest == Tail(box)
           n == Len(rest)
<1>1. /\ n \in Nat /\ DOMAIN box = 1..(n + 1) /\ DOMAIN rest = 1..n /\ box[1] = m /\ m \in Message
      /\ \A i \in 1..n : rest[i] = box[i + 1]
  <2>1. /\ rest \in Seq(Message) /\ Len(rest) = Len(box) - 1 /\ Head(box) \in Message /\ Head(box) = box[1]
        /\ \A i \in 1..Len(rest) : rest[i] = box[i + 1]
    BY HeadTailProperties
  <2>2. Len(box) \in Nat /\ DOMAIN box = 1..Len(box) /\ n \in Nat /\ DOMAIN rest = 1..n
    BY <2>1, LenProperties
  <2>3. Len(box) = n + 1
    BY <2>1, <2>2
  <2> QED BY <2>1, <2>2, <2>3
<1>2. /\ \A i \in 1..n : i + 1 \in 1..(n + 1) /\ 1 < i + 1
      /\ \A i \in 1..(n + 1) : i = 1 \/ (i - 1 \in 1..n /\ (i - 1) + 1 = i)
      /\ 1 \in 1..(n + 1)
      /\ \A i, j \in 1..n : i < j <=> i + 1 < j + 1
  BY <1>1
<1>3. after[s] = IF IsStatus(m, s) THEN m.kind ELSE kept[s]
  BY <1>1 DEF Kept, IsStatus
<1>4. m.kind \in {Agent!Online, Agent!Offline, "reply"}
  BY <1>1 DEF Message
<1> HIDE DEF n, rest
<1>5. ASSUME EndsOnline(rest, after, s) PROVE EndsOnline(box, kept, s)
  <2>1. CASE \E i \in 1..n : /\ rest[i].kind = Agent!Online /\ rest[i].site = s
                             /\ \A j \in 1..n : i < j => ~ IsStatus(rest[j], s)
    <3>1. PICK i \in 1..n : /\ rest[i].kind = Agent!Online /\ rest[i].site = s
                            /\ \A j \in 1..n : i < j => ~ IsStatus(rest[j], s)
      BY <2>1
    <3>2. i + 1 \in 1..(n + 1) /\ box[i + 1].kind = Agent!Online /\ box[i + 1].site = s
      BY <1>1, <1>2, <3>1
    <3>3. ASSUME NEW j \in 1..(n + 1), i + 1 < j PROVE ~ IsStatus(box[j], s)
      <4>1. j - 1 \in 1..n /\ (j - 1) + 1 = j /\ i < j - 1
        BY <1>1, <3>1, <3>3
      <4>2. rest[j - 1] = box[j]
        BY <1>1, <4>1
      <4> QED BY <3>1, <4>1, <4>2
    <3> QED BY <1>1, <3>2, <3>3 DEF EndsOnline
  <2>2. CASE after[s] = Agent!Online /\ \A i \in 1..n : ~ IsStatus(rest[i], s)
    <3>1. \A j \in 1..(n + 1) : 1 < j => ~ IsStatus(box[j], s)
      <4>1. ASSUME NEW j \in 1..(n + 1), 1 < j PROVE ~ IsStatus(box[j], s)
        <5>1. j - 1 \in 1..n /\ (j - 1) + 1 = j
          BY <1>2, <4>1
        <5>2. rest[j - 1] = box[j]
          BY <1>1, <5>1
        <5> QED BY <2>2, <5>1, <5>2
      <4> QED BY <4>1
    <3>2. CASE IsStatus(m, s)
      <4>1. box[1].kind = Agent!Online /\ box[1].site = s
        BY <1>1, <1>3, <2>2, <3>2 DEF IsStatus
      <4> QED BY <1>1, <1>2, <3>1, <4>1 DEF EndsOnline
    <3>3. CASE ~ IsStatus(m, s)
      <4>1. \A j \in 1..(n + 1) : ~ IsStatus(box[j], s)
        <5>1. \A j \in 1..(n + 1) : j = 1 \/ 1 < j
          BY <1>1
        <5> QED BY <1>1, <3>1, <3>3, <5>1
      <4> QED BY <1>1, <1>3, <2>2, <3>3, <4>1 DEF EndsOnline
    <3> QED BY <3>2, <3>3
  <2> QED BY <1>1, <1>5, <2>1, <2>2 DEF EndsOnline
<1>6. ASSUME EndsOnline(box, kept, s) PROVE EndsOnline(rest, after, s)
  <2>1. CASE \E i \in 1..(n + 1) : /\ box[i].kind = Agent!Online /\ box[i].site = s
                                   /\ \A j \in 1..(n + 1) : i < j => ~ IsStatus(box[j], s)
    <3>1. PICK i \in 1..(n + 1) : /\ box[i].kind = Agent!Online /\ box[i].site = s
                                  /\ \A j \in 1..(n + 1) : i < j => ~ IsStatus(box[j], s)
      BY <2>1
    <3>2. CASE i = 1
      <4>1. \A j \in 1..n : ~ IsStatus(rest[j], s)
        BY <1>1, <1>2, <3>1, <3>2
      <4>2. IsStatus(m, s) /\ m.kind = Agent!Online
        BY <1>1, <3>1, <3>2 DEF IsStatus, Agent!Online
      <4> QED BY <1>1, <1>3, <4>1, <4>2 DEF EndsOnline
    <3>3. CASE i # 1
      <4>1. i - 1 \in 1..n /\ (i - 1) + 1 = i
        BY <1>2, <3>3
      <4>2. rest[i - 1].kind = Agent!Online /\ rest[i - 1].site = s
        BY <1>1, <3>1, <4>1
      <4>3. ASSUME NEW j \in 1..n, i - 1 < j PROVE ~ IsStatus(rest[j], s)
        <5>1. j + 1 \in 1..(n + 1) /\ i < j + 1
          BY <1>1, <1>2, <4>1, <4>3
        <5> QED BY <1>1, <3>1, <5>1
      <4> QED BY <1>1, <4>1, <4>2, <4>3 DEF EndsOnline
    <3> QED BY <3>2, <3>3
  <2>2. CASE kept[s] = Agent!Online /\ \A i \in 1..(n + 1) : ~ IsStatus(box[i], s)
    <3>1. ~ IsStatus(m, s) /\ \A j \in 1..n : ~ IsStatus(rest[j], s)
      BY <1>1, <1>2, <2>2
    <3> QED BY <1>1, <1>3, <2>2, <3>1 DEF EndsOnline
  <2> QED BY <1>1, <1>6, <2>1, <2>2 DEF EndsOnline
<1> QED BY <1>5, <1>6 DEF rest

LEMMA EmptyBox ==
    ASSUME NEW kept, NEW s
    PROVE  EndsOnline(<<>>, kept, s) <=> kept[s] = Agent!Online
BY DEF EndsOnline

-----------------------------------------------------------------------------
(* The agent: its presence.                                                *)

\* mqtt_ok is set by the CONNACK of the session; who is down has nothing left.
ConnectionStory ==
    /\ session.live => (mqttOk <=> ~ session.connack)
    /\ run = "down" => ~ session.live /\ ~ mqttOk /\ outbox = <<>> /\ worker = <<>>

\* The status of s will be online.
Ends(s) == EndsOnline(outbox, retained, s)

\* Nobody is between two sites: the Will is where the agent is, and when the
\* box is empty an online is nowhere else.
AtHome ==
    /\ will = site /\ (session.live => session.will = site)
    /\ \A s \in Sites : Ends(s) => s = site
    /\ run = "up" /\ mqttOk /\ session.live => Ends(site) /\ session.subs = {site}
    /\ run = "stopping" => (~ mqttOk /\ outbox # <<>>) \/ \A s \in Sites : ~ Ends(s)
    /\ run = "down" => \A s \in Sites : ~ Ends(s)

\* One thread at a time moves the agent: its offline is behind it, then its
\* online as well.
OnTheMove(w) == worker[w].pc \in {"move", "bounce"}
Solo == \A v, w \in Agent!Workers : OnTheMove(v) /\ OnTheMove(w) => v = w
Leaving == \E w \in Agent!Workers : worker[w].pc = "move"
Bouncing == \E w \in Agent!Workers : worker[w].pc = "bounce"
Running == run = "up" /\ mqttOk /\ session.live

PresenceStory ==
    ~ excused =>
        /\ Solo
        /\ Leaving => Running /\ \A s \in Sites : ~ Ends(s)
        /\ Bouncing => Running /\ will = site /\ \A s \in Sites : Ends(s) => s = site
        /\ ~ Leaving /\ ~ Bouncing => AtHome

PresenceInv == AgentTyped /\ ConnectionStory /\ PresenceStory

presence == <<run, site, will, mqttOk, session, retained, excused>>

\* A step that is nothing to the presence: a thread that is not on the move goes
\* on, comes or goes, and a reply is no status.
LEMMA PresenceQuiet ==
    ASSUME PresenceInv, AgentTyped', UNCHANGED presence, run # "down" \/ UNCHANGED <<outbox, worker>>,
           outbox' = outbox \/ \E m \in Message : m.kind = "reply" /\ outbox' = Append(outbox, m),
           Leaving' <=> Leaving, Bouncing' <=> Bouncing, Solo => Solo'
    PROVE  PresenceInv'
<1>1. \A s \in Sites : Ends(s)' <=> Ends(s)
  <2> SUFFICES ASSUME NEW s \in Sites PROVE Ends(s)' <=> Ends(s)
    OBVIOUS
  <2>0. outbox \in Seq(Message)
    BY DEF PresenceInv, AgentTyped
  <2>1. CASE outbox' = outbox
    BY <2>1 DEF Ends, presence
  <2>2. CASE \E m \in Message : m.kind = "reply" /\ outbox' = Append(outbox, m)
    <3>1. PICK m \in Message : m.kind = "reply" /\ outbox' = Append(outbox, m)
      BY <2>2
    <3>2. EndsOnline(outbox', retained, s) <=> EndsOnline(outbox, retained, s)
      BY <2>0, <3>1, LastDecides DEF IsStatus
    <3> QED BY <3>2 DEF Ends, presence
  <2> QED BY <2>1, <2>2
<1>2. outbox # <<>> => outbox' # <<>>
  BY BoxGrows DEF PresenceInv
<1>3. ConnectionStory'
  BY DEF PresenceInv, ConnectionStory, presence
<1>4. site \in Sites
  BY DEF PresenceInv, AgentTyped
<1>5. AtHome => AtHome'
  BY <1>1, <1>2, <1>4 DEF AtHome, presence
<1>6. PresenceStory'
  BY <1>1, <1>5 DEF PresenceInv, PresenceStory, Running, presence
<1> QED BY <1>3, <1>6 DEF PresenceInv

\* A step of others than the threads, when none of them is on the move.
LEMMA PresenceAtHome ==
    ASSUME PresenceInv, AgentTyped', ConnectionStory', worker' = worker \/ worker' = <<>>,
           excused => excused',
           ~ excused' => ~ Leaving /\ ~ Bouncing /\ (AtHome => AtHome')
    PROVE  PresenceInv'
<1>1. ~ excused' => AtHome /\ Solo
  BY DEF PresenceInv, PresenceStory
<1>2. ~ excused' => ~ Leaving' /\ ~ Bouncing' /\ Solo'
  <2>1. CASE worker' = worker
    BY <1>1, <2>1 DEF Leaving, Bouncing, Solo, OnTheMove, Agent!Workers
  <2>2. CASE worker' = <<>>
    <3>1. 1..Len(worker') = {}
      BY <2>2
    <3> QED BY <3>1 DEF Leaving, Bouncing, Solo, Agent!Workers
  <2> QED BY <2>1, <2>2
<1>3. PresenceStory'
  BY <1>1, <1>2 DEF PresenceStory
<1> QED BY <1>3 DEF PresenceInv

LEMMA SessionIs ==
    ASSUME AgentTyped
    PROVE  /\ session.live \in BOOLEAN /\ session.connack \in BOOLEAN /\ mqttOk \in BOOLEAN
           /\ DOMAIN session = {"live", "connack", "will", "subs"} /\ Agent!NoSession.live = FALSE
BY DEF AgentTyped, Session, Agent!NoSession

\* A message goes out.
LEMMA DeliverKeeps ==
    ASSUME PresenceInv, AgentTyped', Agent!Deliver
    PROVE  PresenceInv'
<1>0. AgentTyped /\ ConnectionStory /\ PresenceStory
  BY DEF PresenceInv
<1>1. /\ session.live /\ ~ session.connack /\ outbox # <<>> /\ outbox' = Tail(outbox)
      /\ UNCHANGED <<run, site, will, mqttOk, worker, session, excused>>
  BY DEF Agent!Deliver, Agent!agent
<1>2. retained' = IF Head(outbox).kind = "reply" THEN retained ELSE [retained EXCEPT ![Head(outbox).site] = Head(outbox).kind]
  BY DEF Agent!Deliver, Agent!Status
<1>3. \A s \in Sites : Ends(s)' <=> Ends(s)
  <2> SUFFICES ASSUME NEW s \in Sites PROVE Ends(s)' <=> Ends(s)
    OBVIOUS
  <2>1. outbox \in Seq(Message) /\ retained \in Kept
    BY <1>0 DEF AgentTyped
  <2>2. EndsOnline(Tail(outbox), retained', s) <=> EndsOnline(outbox, retained, s)
    BY <1>1, <1>2, <2>1, DeliveryDecides
  <2> QED BY <1>1, <2>2 DEF Ends
<1>4. mqttOk /\ run # "down"
  BY <1>0, <1>1 DEF ConnectionStory
<1>5. ConnectionStory'
  BY <1>0, <1>1, <1>4 DEF ConnectionStory
<1>6. site \in Sites
  BY <1>0 DEF AgentTyped
<1>7. AtHome => AtHome'
  BY <1>1, <1>3, <1>4, <1>6 DEF AtHome
<1>8. (Solo' <=> Solo) /\ (Leaving' <=> Leaving) /\ (Bouncing' <=> Bouncing)
  BY <1>1 DEF Solo, Leaving, Bouncing, OnTheMove, Agent!Workers
<1>9. PresenceStory'
  BY <1>0, <1>1, <1>3, <1>7, <1>8 DEF PresenceStory, Running
<1> QED BY <1>5, <1>9 DEF PresenceInv

\* The connection comes and goes.
LEMMA ConnectionKeeps ==
    ASSUME PresenceInv, AgentTyped', Agent!Connect \/ Agent!OnConnect \/ Agent!OnDisconnect
    PROVE  PresenceInv'
<1>0. AgentTyped /\ ConnectionStory /\ PresenceStory
  BY DEF PresenceInv
<1>a. site \in Sites /\ outbox \in Seq(Message)
  BY <1>0 DEF AgentTyped
<1>1. CASE Agent!Connect
  <2>1. /\ run = "up" /\ ~ session.live /\ ~ mqttOk
        /\ session' = [live |-> TRUE, connack |-> TRUE, will |-> will, subs |-> {}]
        /\ UNCHANGED <<run, site, will, mqttOk, outbox, worker, retained, excused>>
    BY <1>1 DEF Agent!Connect, Agent!agent
  <2>2. session'.live /\ session'.connack /\ session'.will = will
    BY <2>1
  <2>3. ConnectionStory'
    BY <2>1, <2>2 DEF ConnectionStory
  <2>4. ~ excused => ~ Leaving /\ ~ Bouncing
    BY <1>0, <2>1 DEF PresenceStory, Running
  <2>5. \A s \in Sites : Ends(s)' <=> Ends(s)
    BY <2>1 DEF Ends
  <2>6. AtHome => AtHome'
    BY <2>1, <2>2, <2>5 DEF AtHome
  <2> QED BY <2>1, <2>3, <2>4, <2>6, PresenceAtHome
<1>2. CASE Agent!OnConnect
  <2>1. /\ run = "up" /\ session.live /\ session.connack /\ mqttOk' = TRUE
        /\ session' = [session EXCEPT !.connack = FALSE, !.subs = {site}]
        /\ outbox' = Append(outbox, Agent!Msg(Agent!Online, site))
        /\ UNCHANGED <<run, site, will, worker, retained, excused>>
    BY <1>2 DEF Agent!OnConnect
  <2>2. session'.live /\ ~ session'.connack /\ session'.will = session.will /\ session'.subs = {site}
    BY <1>0, <2>1, SessionIs
  <2>3. ConnectionStory'
    BY <2>1, <2>2 DEF ConnectionStory
  <2>4. ~ mqttOk
    BY <1>0, <2>1 DEF ConnectionStory
  <2>5. ~ excused => ~ Leaving /\ ~ Bouncing
    BY <1>0, <2>4 DEF PresenceStory, Running
  <2>6. \A s \in Sites : Ends(s)' <=> s = site \/ Ends(s)
    <3> SUFFICES ASSUME NEW s \in Sites PROVE Ends(s)' <=> s = site \/ Ends(s)
      OBVIOUS
    <3> DEFINE m == Agent!Msg(Agent!Online, site)
    <3>1. m \in Message /\ m.kind = Agent!Online /\ m.site = site /\ m.kind # "reply"
      BY <1>a, Messages, Zero DEF Agent!Msg, Agent!Online
    <3> HIDE DEF m
    <3>2. EndsOnline(outbox', retained, s) <=> IF IsStatus(m, s) THEN m.kind = Agent!Online ELSE EndsOnline(outbox, retained, s)
      BY <1>a, <2>1, <3>1, LastDecides DEF m
    <3>3. IsStatus(m, s) <=> s = site
      BY <3>1 DEF IsStatus
    <3> QED BY <2>1, <3>1, <3>2, <3>3 DEF Ends
  <2>7. AtHome => AtHome'
    BY <1>a, <2>1, <2>2, <2>6 DEF AtHome
  <2> QED BY <2>1, <2>3, <2>5, <2>7, PresenceAtHome
<1>3. CASE Agent!OnDisconnect
  <2>1. /\ run # "down" /\ mqttOk /\ ~ session.live /\ mqttOk' = FALSE
        /\ UNCHANGED <<run, site, will, outbox, worker, session, retained, excused>>
    BY <1>3 DEF Agent!OnDisconnect, Agent!broker
  <2>2. ConnectionStory'
    BY <2>1 DEF ConnectionStory
  <2>3. ~ excused => ~ Leaving /\ ~ Bouncing
    BY <1>0, <2>1 DEF PresenceStory, Running
  <2>4. \A s \in Sites : Ends(s)' <=> Ends(s)
    BY <2>1 DEF Ends
  <2>5. AtHome => AtHome'
    BY <2>1, <2>4 DEF AtHome
  <2> QED BY <2>1, <2>2, <2>3, <2>5, PresenceAtHome
<1> QED BY <1>1, <1>2, <1>3

\* Nothing of a move is left.
LEMMA NotMoving ==
    ASSUME AgentTyped, ~ Agent!Moving
    PROVE  /\ ~ Leaving /\ ~ Bouncing
           /\ \A i \in DOMAIN outbox : \A s \in Sites : IsStatus(outbox[i], s) => s = site
<1>1. DOMAIN outbox = 1..Len(outbox)
  BY LenProperties DEF AgentTyped
<1> QED BY <1>1 DEF Agent!Moving, Leaving, Bouncing, IsStatus

\* A Will takes an online away and brings none.
LEMMA WillAtHome ==
    ASSUME AgentTyped, AtHome, outbox' = outbox,
           (session.live /\ Agent!WillFires) \/ (~ session.live /\ UNCHANGED <<session, retained>>)
    PROVE  ~ session'.live /\ \A s \in Sites : Ends(s)' => Ends(s)
<1>1. CASE session.live /\ Agent!WillFires
  <2>1. session' = Agent!NoSession /\ retained' = [retained EXCEPT ![session.will] = Agent!Offline]
    BY <1>1 DEF Agent!WillFires, Agent!Status
  <2>2. retained \in Kept
    BY DEF AgentTyped
  <2>3. \A s \in Sites : Ends(s)' => Ends(s)
    <3> SUFFICES ASSUME NEW s \in Sites, Ends(s)' PROVE Ends(s)
      OBVIOUS
    <3>1. EndsOnline(outbox, retained', s)
      BY DEF Ends
    <3>2. EndsOnline(outbox, retained, s)
      <4>1. retained'[s] = Agent!Online => retained[s] = Agent!Online
        BY <2>1, <2>2 DEF Kept, Agent!Online, Agent!Offline
      <4> QED BY <3>1, <4>1 DEF EndsOnline
    <3> QED BY <3>2 DEF Ends
  <2> QED BY <2>1, <2>3, Zero
<1>2. CASE ~ session.live /\ UNCHANGED <<session, retained>>
  BY <1>2 DEF Ends
<1> QED BY <1>1, <1>2

LEMMA DropKeeps ==
    ASSUME PresenceInv, AgentTyped', NEW left, Agent!Drop(left)
    PROVE  PresenceInv'
<1>0. AgentTyped /\ ConnectionStory /\ PresenceStory
  BY DEF PresenceInv
<1>1. /\ UNCHANGED <<run, site, will, mqttOk, outbox, worker>> /\ excused' = (excused \/ Agent!Moving)
      /\ (session.live /\ Agent!WillFires) \/ (~ session.live /\ UNCHANGED <<session, retained>>)
  BY DEF Agent!Drop, Agent!agent, Agent!broker
<1>2. ~ session'.live
  BY <1>0, <1>1, Zero DEF Agent!WillFires
<1>3. ConnectionStory'
  BY <1>0, <1>1, <1>2 DEF ConnectionStory
<1>4. ~ excused' => ~ Leaving /\ ~ Bouncing
  BY <1>0, <1>1, NotMoving
<1>5. AtHome => AtHome'
  <2> SUFFICES ASSUME AtHome PROVE AtHome'
    OBVIOUS
  <2>1. \A s \in Sites : Ends(s)' => Ends(s)
    BY <1>0, <1>1, WillAtHome
  <2> QED BY <1>1, <1>2, <2>1 DEF AtHome
<1> QED BY <1>1, <1>3, <1>4, <1>5, PresenceAtHome

LEMMA ShutdownKeeps ==
    ASSUME PresenceInv, AgentTyped', Agent!Shutdown
    PROVE  PresenceInv'
<1>0. AgentTyped /\ ConnectionStory /\ PresenceStory
  BY DEF PresenceInv
<1>a. site \in Sites /\ outbox \in Seq(Message)
  BY <1>0 DEF AgentTyped
<1>1. /\ run = "up" /\ run' = "stopping" /\ UNCHANGED <<site, will, mqttOk, worker, session, retained>>
      /\ excused' = (excused \/ Agent!Moving \/ (~mqttOk /\ retained[site] = Agent!Online))
      /\ outbox' = IF mqttOk THEN Append(outbox, Agent!Msg(Agent!Offline, site)) ELSE outbox
  BY DEF Agent!Shutdown, Agent!broker
<1>2. ConnectionStory'
  BY <1>0, <1>1 DEF ConnectionStory
<1>3. ~ excused' => ~ Leaving /\ ~ Bouncing
  BY <1>0, <1>1, NotMoving
<1>4. ~ excused' /\ AtHome => AtHome'
  <2> SUFFICES ASSUME ~ excused', AtHome PROVE AtHome'
    OBVIOUS
  <2>1. CASE mqttOk
    <3>1. \A s \in Sites : ~ Ends(s)'
      <4> SUFFICES ASSUME NEW s \in Sites PROVE ~ Ends(s)'
        OBVIOUS
      <4> DEFINE m == Agent!Msg(Agent!Offline, site)
      <4>1. m \in Message /\ m.kind # Agent!Online /\ m.site = site /\ m.kind # "reply"
        BY <1>a, Messages, Zero DEF Agent!Msg, Agent!Online, Agent!Offline
      <4>2. outbox' = Append(outbox, m)
        BY <1>1, <2>1
      <4> HIDE DEF m
      <4>3. EndsOnline(outbox', retained, s) <=> IF IsStatus(m, s) THEN m.kind = Agent!Online ELSE EndsOnline(outbox, retained, s)
        BY <1>a, <4>1, <4>2, LastDecides
      <4>4. s # site => ~ Ends(s)
        BY DEF AtHome
      <4> QED BY <1>1, <4>1, <4>3, <4>4 DEF Ends, IsStatus
    <3> QED BY <1>1, <3>1 DEF AtHome
  <2>2. CASE ~ mqttOk
    <3>1. \A s \in Sites : Ends(s)' <=> Ends(s)
      BY <1>1, <2>2 DEF Ends
    <3>2. outbox' = <<>> => \A s \in Sites : ~ Ends(s)
      <4> SUFFICES ASSUME outbox = <<>>, NEW s \in Sites, Ends(s) PROVE FALSE
        BY <1>1, <2>2
      <4>1. retained[s] = Agent!Online
        BY EmptyBox DEF Ends
      <4>2. s = site
        BY DEF AtHome
      <4> QED BY <1>1, <2>2, <4>1, <4>2
    <3> QED BY <1>1, <2>2, <3>1, <3>2 DEF AtHome
  <2> QED BY <2>1, <2>2
<1> QED BY <1>1, <1>2, <1>3, <1>4, PresenceAtHome

LEMMA EndKeeps ==
    ASSUME PresenceInv, AgentTyped', Agent!Ended \/ Agent!Crash
    PROVE  PresenceInv'
<1>0. AgentTyped /\ ConnectionStory /\ PresenceStory
  BY DEF PresenceInv
<1>1. /\ run # "down" /\ run' = "down" /\ ~ mqttOk' /\ outbox' = <<>> /\ worker' = <<>>
      /\ UNCHANGED <<site, will>> /\ (excused \/ Agent!Moving => excused')
  BY DEF Agent!Ended, Agent!Crash
<1>2. ~ session'.live
  BY Zero DEF Agent!Ended, Agent!Crash, Agent!WillFires, Agent!broker
<1>3. ConnectionStory'
  BY <1>1, <1>2 DEF ConnectionStory
<1>4. ~ excused' => ~ Leaving /\ ~ Bouncing
  BY <1>0, <1>1, NotMoving
<1>5. ~ excused' /\ AtHome => AtHome'
  <2> SUFFICES ASSUME ~ excused', AtHome PROVE AtHome'
    OBVIOUS
  <2>1. ASSUME NEW s \in Sites, Ends(s)' PROVE FALSE
    <3>1. retained'[s] = Agent!Online
      BY <1>1, <2>1, EmptyBox DEF Ends
    <3>2. CASE Agent!Ended
      <4>1. run = "stopping" /\ retained' = retained /\ outbox = <<>>
        BY <3>2 DEF Agent!Ended
      <4>2. Ends(s)
        BY <3>1, <4>1, EmptyBox DEF Ends
      <4> QED BY <4>1, <4>2 DEF AtHome
    <3>3. CASE Agent!Crash
      <4>1. excused' = (excused \/ Agent!Moving \/ (~session.live /\ retained[site] = Agent!Online))
            /\ IF session.live THEN Agent!WillFires ELSE retained' = retained
        BY <3>3 DEF Agent!Crash, Agent!broker
      <4>2. CASE session.live
        <5>1. retained' = [retained EXCEPT ![session.will] = Agent!Offline] /\ session.will = site
          BY <4>1, <4>2 DEF Agent!WillFires, Agent!Status, AtHome
        <5>2. retained \in Kept /\ site \in Sites
          BY <1>0 DEF AgentTyped
        <5>3. s # site /\ retained[s] = Agent!Online
          BY <3>1, <5>1, <5>2 DEF Kept, Agent!Online, Agent!Offline
        <5>4. Ends(s)
          BY <1>0, <1>1, <5>3, NotMoving DEF Ends, EndsOnline
        <5> QED BY <5>3, <5>4 DEF AtHome
      <4>3. CASE ~ session.live
        <5>1. s # site /\ retained[s] = Agent!Online
          BY <3>1, <4>1, <4>3
        <5>2. Ends(s)
          BY <1>0, <1>1, <5>1, NotMoving DEF Ends, EndsOnline
        <5> QED BY <5>1, <5>2 DEF AtHome
      <4> QED BY <4>2, <4>3
    <3> QED BY <3>2, <3>3
  <2> QED BY <1>1, <1>2, <2>1 DEF AtHome
<1> QED BY <1>1, <1>3, <1>4, <1>5, PresenceAtHome

LEMMA StartKeeps ==
    ASSUME PresenceInv, AgentTyped', Agent!Start
    PROVE  PresenceInv'
<1>0. AgentTyped /\ ConnectionStory /\ PresenceStory
  BY DEF PresenceInv
<1>1. /\ run = "down" /\ run' = "up" /\ site' = will' /\ mqttOk' = FALSE
      /\ UNCHANGED <<outbox, worker, session, retained, excused>>
  BY DEF Agent!Start, Agent!broker
<1>2. ~ session.live
  BY <1>0, <1>1 DEF ConnectionStory
<1>3. ConnectionStory'
  BY <1>1, <1>2 DEF ConnectionStory
<1>4. ~ excused => ~ Leaving /\ ~ Bouncing
  BY <1>0, <1>1 DEF PresenceStory, Running
<1>5. \A s \in Sites : Ends(s)' <=> Ends(s)
  BY <1>1 DEF Ends
<1>6. AtHome => AtHome'
  BY <1>1, <1>2, <1>5 DEF AtHome
<1> QED BY <1>1, <1>3, <1>4, <1>6, PresenceAtHome

\* A thread goes on, or returns, or comes, that is not on the move before or after.
LEMMA ThreadQuiet ==
    ASSUME AgentTyped, NEW w \in Agent!Workers, ~ OnTheMove(w),
           \/ Agent!Returns(w)
           \/ /\ Len(worker') = Len(worker) /\ worker'[w].pc \notin {"move", "bounce"}
              /\ \A v \in Agent!Workers : v # w => worker'[v].pc = worker[v].pc
    PROVE  (Leaving' <=> Leaving) /\ (Bouncing' <=> Bouncing) /\ (Solo => Solo')
<1>0. Agent!Workers = 1..Len(worker) /\ Agent!Workers' = 1..Len(worker')
  BY DEF Agent!Workers
<1>1. CASE Agent!Returns(w)
  <2>1. /\ \A v \in Agent!Workers' : /\ Behind(w, v) \in Agent!Workers /\ Behind(w, v) # w
                                     /\ worker'[v] = worker[Behind(w, v)]
        /\ \A v, u \in Agent!Workers' : Behind(w, v) = Behind(w, u) => v = u
        /\ \A u \in Agent!Workers : u # w => \E v \in Agent!Workers' : u = Behind(w, v)
    BY <1>0, <1>1, ThreadReturns
  <2>2. Leaving' <=> Leaving
    BY <2>1 DEF Leaving, OnTheMove
  <2>3. Bouncing' <=> Bouncing
    BY <2>1 DEF Bouncing, OnTheMove
  <2>4. Solo => Solo'
    BY <2>1 DEF Solo, OnTheMove
  <2> QED BY <2>2, <2>3, <2>4
<1>2. CASE /\ Len(worker') = Len(worker) /\ worker'[w].pc \notin {"move", "bounce"}
           /\ \A v \in Agent!Workers : v # w => worker'[v].pc = worker[v].pc
  BY <1>0, <1>2 DEF Leaving, Bouncing, Solo, OnTheMove
<1> QED BY <1>1, <1>2

LEMMA CommandsKeep ==
    ASSUME PresenceInv, AgentTyped', Agent!HandleCommand \/ Agent!Remember \/ \E s \in Sites : Agent!SetMeta(s)
    PROVE  PresenceInv'
<1>0. AgentTyped
  BY DEF PresenceInv
<1>1. \E t \in Threads : t.pc \notin {"move", "bounce"} /\ Agent!OnMessage(t)
  <2>1. site \in Sites /\ acked.n + 1 \in Nat
    BY <1>0 DEF AgentTyped, Acked
  <2>2. CASE Agent!HandleCommand
    <3> DEFINE t == Agent!Thread("reply", site, 0, FALSE)
    <3>0. t.pc = "reply"
      BY DEF Agent!Thread
    <3>1. t \in Threads
      BY <1>0, <2>1, Zero, NewThreads
    <3>2. Agent!OnMessage(t)
      BY <2>2 DEF Agent!HandleCommand
    <3> HIDE DEF t
    <3> QED BY <3>0, <3>1, <3>2
  <2>3. ASSUME NEW s \in Sites, Agent!SetMeta(s) PROVE \E t \in Threads : t.pc \notin {"move", "bounce"} /\ Agent!OnMessage(t)
    <3> DEFINE t == Agent!Thread("dump", s, acked.n + 1, TRUE)
    <3>0. t.pc = "dump"
      BY DEF Agent!Thread
    <3>1. t \in Threads
      BY <1>0, <2>1, NewThreads
    <3>2. Agent!OnMessage(t)
      BY <2>3 DEF Agent!SetMeta
    <3> HIDE DEF t
    <3> QED BY <3>0, <3>1, <3>2
  <2>4. CASE Agent!Remember
    <3> DEFINE t == Agent!Thread("dump", site, 0, FALSE)
    <3>0. t.pc = "dump"
      BY DEF Agent!Thread
    <3>1. t \in Threads
      BY <1>0, <2>1, Zero, NewThreads
    <3>2. Agent!OnMessage(t)
      BY <2>4 DEF Agent!Remember
    <3> HIDE DEF t
    <3> QED BY <3>0, <3>1, <3>2
  <2> QED BY <2>2, <2>3, <2>4
<1>2. PICK t \in Threads : t.pc \notin {"move", "bounce"} /\ Agent!OnMessage(t)
  BY <1>1
<1>3. worker' = Append(worker, t) /\ run # "down" /\ UNCHANGED presence /\ outbox' = outbox
  BY <1>2 DEF Agent!OnMessage, Agent!agent, Agent!broker, presence
<1>4. /\ worker'[Len(worker) + 1] = t
      /\ \A v \in Agent!Workers : worker'[v] = worker[v] /\ v \in Agent!Workers'
      /\ \A v \in Agent!Workers' : v \in Agent!Workers \/ v = Len(worker) + 1
  BY <1>0, <1>2, <1>3, ThreadStarts DEF Agent!Workers
<1>5. (Leaving' <=> Leaving) /\ (Bouncing' <=> Bouncing) /\ (Solo => Solo')
  BY <1>2, <1>4 DEF Leaving, Bouncing, Solo, OnTheMove
<1> QED BY <1>3, <1>5, PresenceQuiet

\* A thread before its move.
LEMMA StoringKeeps ==
    ASSUME PresenceInv, AgentTyped', NEW w \in Agent!Workers,
           Agent!Save(w) \/ Agent!Reply(w)
    PROVE  PresenceInv'
<1>0. AgentTyped
  BY DEF PresenceInv
<1>1. UNCHANGED presence /\ run # "down" /\ worker[w].pc \in {"dump", "open", "write", "replace", "reply"}
  BY DEF Agent!Save, Agent!Dump, Agent!SaveFails, Agent!Saves, Agent!Open, Agent!Write, Agent!Replace, Agent!Reply, Agent!At, Agent!agent, Agent!broker, presence
<1>2. outbox' = outbox \/ \E m \in Message : m.kind = "reply" /\ outbox' = Append(outbox, m)
  <2>1. CASE Agent!Reply(w)
    <3> DEFINE m == [kind |-> "reply", site |-> worker[w].to, n |-> worker[w].n]
    <3>1. m \in Message /\ m.kind = "reply"
      BY <1>0, WorkersAre, Messages
    <3>2. outbox' = Append(outbox, m)
      BY <2>1 DEF Agent!Reply
    <3> HIDE DEF m
    <3> QED BY <3>1, <3>2
  <2>2. CASE Agent!Save(w)
    BY <2>2 DEF Agent!Save, Agent!Dump, Agent!Open, Agent!Write, Agent!Replace, Agent!SaveFails
  <2> QED BY <2>1, <2>2
<1>3. \/ Agent!Returns(w)
      \/ /\ Len(worker') = Len(worker) /\ worker'[w].pc \notin {"move", "bounce"}
         /\ \A v \in Agent!Workers : v # w => worker'[v].pc = worker[v].pc
  <2>0. site \in Sites /\ {"open", "write", "replace", "apply"} \subseteq Places
    BY <1>0 DEF AgentTyped, Places
  <2>1. CASE Agent!Replace(w)
    BY <1>0, <2>1, ReplaceMoves
  <2>2. CASE Agent!Open(w) \/ Agent!Reply(w)
    <3>1. \/ Agent!Returns(w)
          \/ \E pc \in {"write", "apply"} : worker' = [worker EXCEPT ![w].pc = pc]
      BY <2>2 DEF Agent!Open, Agent!Reply, Agent!Goes
    <3>2. ASSUME NEW pc \in {"write", "apply"}, worker' = [worker EXCEPT ![w].pc = pc]
          PROVE  /\ Len(worker') = Len(worker) /\ worker'[w].pc \notin {"move", "bounce"}
                 /\ \A v \in Agent!Workers : v # w => worker'[v].pc = worker[v].pc
      BY <1>0, <2>0, <3>2, ThreadMoves
    <3> QED BY <3>1, <3>2
  <2>3. CASE Agent!Dump(w) \/ Agent!Write(w)
    <3>1. PICK pc \in {"open", "replace"}, text \in Agent!Texts : worker' = [worker EXCEPT ![w].pc = pc, ![w].text = text]
      <4>1. CASE Agent!Write(w)
        <5>1. worker' = [worker EXCEPT ![w].pc = "replace", ![w].text = Agent!NoSite]
          BY <4>1 DEF Agent!Write
        <5> QED BY <5>1 DEF Agent!Texts
      <4>2. CASE Agent!Dump(w)
        <5> DEFINE made == IF stored = Agent!NoSite THEN Agent!Bare ELSE stored
        <5>1. worker' = [worker EXCEPT ![w].pc = "open", ![w].text = made]
          BY <4>2 DEF Agent!Dump
        <5>2. made \in Agent!Texts
          BY <1>0 DEF AgentTyped, Agent!Texts
        <5> HIDE DEF made
        <5> QED BY <5>1, <5>2
      <4> QED BY <2>3, <4>1, <4>2
    <3>2. pc \in Places /\ pc \notin {"move", "bounce"}
      BY DEF Places
    <3>3. /\ Len(worker') = Len(worker) /\ worker'[w].pc = pc
          /\ \A v \in Agent!Workers : v # w => worker'[v] = worker[v]
      BY <1>0, <3>1, <3>2, SaveMoves
    <3> QED BY <3>2, <3>3
  <2>4. CASE Agent!SaveFails(w)
    BY <1>0, <2>4, SaveGivesUp
  <2> QED BY <2>1, <2>2, <2>3, <2>4 DEF Agent!Save
<1>4. (Leaving' <=> Leaving) /\ (Bouncing' <=> Bouncing) /\ (Solo => Solo')
  BY <1>0, <1>1, <1>3, ThreadQuiet DEF OnTheMove
<1> QED BY <1>1, <1>2, <1>4, PresenceQuiet

\* apply_meta() leaves the old topic.
LEMMA ApplyKeeps ==
    ASSUME PresenceInv, AgentTyped', NEW w \in Agent!Workers, Agent!Apply(w)
    PROVE  PresenceInv'
<1>0. AgentTyped /\ ConnectionStory /\ PresenceStory
  BY DEF PresenceInv
<1>a. site \in Sites /\ outbox \in Seq(Message) /\ "move" \in Places
  BY <1>0 DEF AgentTyped, Places
<1>1. /\ run # "down" /\ UNCHANGED <<run, mqttOk, will, session, retained>>
      /\ worker' = [worker EXCEPT ![w].pc = "move", ![w].old = site]
      /\ excused' = (excused \/ Agent!Moving \/ ~mqttOk \/ ~session.live \/ run = "stopping")
      /\ outbox' = IF mqttOk THEN Append(outbox, Agent!Msg(Agent!Offline, site)) ELSE outbox
  BY DEF Agent!Apply, Agent!At, Agent!broker
<1>2. ConnectionStory'
  BY <1>0, <1>1 DEF ConnectionStory
<1>3. PresenceStory'
  <2> SUFFICES ASSUME ~ excused' PROVE PresenceStory'
    BY DEF PresenceStory
  <2>1. ~ excused /\ mqttOk /\ session.live /\ run = "up" /\ ~ Leaving /\ ~ Bouncing /\ AtHome
    <3>1. run \in {"up", "stopping", "down"}
      BY <1>0 DEF AgentTyped
    <3> QED BY <1>0, <1>1, <3>1, NotMoving DEF PresenceStory
  <2>2. /\ Len(worker') = Len(worker) /\ worker'[w].pc = "move"
        /\ \A v \in Agent!Workers : v # w => worker'[v] = worker[v]
    BY <1>0, <1>a, <1>1, ThreadMoves
  <2>3. Agent!Workers' = Agent!Workers
    BY <2>2 DEF Agent!Workers
  <2>4. \A v \in Agent!Workers : v # w => worker'[v].pc \notin {"move", "bounce"}
    BY <2>1, <2>2 DEF Leaving, Bouncing
  <2>5. Solo' /\ Leaving' /\ ~ Bouncing'
    BY <2>2, <2>3, <2>4 DEF Solo, OnTheMove, Leaving, Bouncing
  <2>6. \A s \in Sites : ~ Ends(s)'
    <3> SUFFICES ASSUME NEW s \in Sites PROVE ~ Ends(s)'
      OBVIOUS
    <3> DEFINE m == Agent!Msg(Agent!Offline, site)
    <3>1. m \in Message /\ m.kind # Agent!Online /\ m.site = site /\ m.kind # "reply"
      BY <1>a, Messages, Zero DEF Agent!Msg, Agent!Online, Agent!Offline
    <3>2. outbox' = Append(outbox, m)
      BY <1>1, <2>1
    <3> HIDE DEF m
    <3>3. EndsOnline(outbox', retained, s) <=> IF IsStatus(m, s) THEN m.kind = Agent!Online ELSE EndsOnline(outbox, retained, s)
      BY <1>a, <3>1, <3>2, LastDecides
    <3>4. s # site => ~ Ends(s)
      BY <2>1 DEF AtHome
    <3> QED BY <1>1, <3>1, <3>3, <3>4 DEF Ends, IsStatus
  <2> QED BY <1>1, <2>1, <2>5, <2>6 DEF PresenceStory, Running
<1> QED BY <1>2, <1>3 DEF PresenceInv

\* It arrives on the new one,
LEMMA RetopicKeeps ==
    ASSUME PresenceInv, AgentTyped', NEW w \in Agent!Workers, Agent!Retopic(w)
    PROVE  PresenceInv'
<1>0. AgentTyped /\ ConnectionStory /\ PresenceStory
  BY DEF PresenceInv
<1>a. site \in Sites /\ outbox \in Seq(Message) /\ "bounce" \in Places
  BY <1>0 DEF AgentTyped, Places
<1>1. /\ run # "down" /\ UNCHANGED <<run, site, mqttOk, retained, excused>> /\ Leaving
      /\ session' = session \/ (mqttOk /\ session' = [session EXCEPT !.subs = (session.subs \ {worker[w].old}) \union {site}])
  BY DEF Agent!Retopic, Agent!At, Leaving
<1>b. session'.live = session.live /\ session'.connack = session.connack
  BY <1>0, <1>1, SessionIs
<1>2. ConnectionStory'
  BY <1>0, <1>1, <1>b DEF ConnectionStory
<1>3. PresenceStory'
  <2> SUFFICES ASSUME ~ excused PROVE PresenceStory'
    BY <1>1 DEF PresenceStory
  <2>1. Solo /\ Running /\ \A s \in Sites : ~ Ends(s)
    BY <1>0, <1>1 DEF PresenceStory
  <2>2. /\ worker[w].pc = "move" /\ worker' = [worker EXCEPT ![w].pc = "bounce"] /\ will' = site
        /\ outbox' = Append(outbox, Agent!Msg(Agent!Online, site))
    BY <2>1 DEF Agent!Retopic, Agent!At, Agent!Goes, Running
  <2>3. /\ Len(worker') = Len(worker) /\ worker'[w].pc = "bounce"
        /\ \A v \in Agent!Workers : v # w => worker'[v] = worker[v]
    BY <1>0, <1>a, <2>2, ThreadMoves
  <2>4. Agent!Workers' = Agent!Workers
    BY <2>3 DEF Agent!Workers
  <2>5. \A v \in Agent!Workers : v # w => worker'[v].pc \notin {"move", "bounce"}
    BY <2>1, <2>2, <2>3 DEF Solo, OnTheMove
  <2>6. Solo' /\ ~ Leaving' /\ Bouncing'
    BY <2>3, <2>4, <2>5 DEF Solo, OnTheMove, Leaving, Bouncing
  <2>7. \A s \in Sites : Ends(s)' => s = site
    <3> SUFFICES ASSUME NEW s \in Sites, s # site PROVE ~ Ends(s)'
      OBVIOUS
    <3> DEFINE m == Agent!Msg(Agent!Online, site)
    <3>1. m \in Message /\ m.site = site
      BY <1>a, Messages, Zero DEF Agent!Msg
    <3>2. outbox' = Append(outbox, m)
      BY <2>2
    <3> HIDE DEF m
    <3>3. EndsOnline(outbox', retained, s) <=> IF IsStatus(m, s) THEN m.kind = Agent!Online ELSE EndsOnline(outbox, retained, s)
      BY <1>a, <3>1, <3>2, LastDecides
    <3> QED BY <1>1, <2>1, <3>1, <3>3 DEF Ends, IsStatus
  <2> QED BY <1>1, <1>b, <2>1, <2>2, <2>6, <2>7 DEF PresenceStory, Running
<1> QED BY <1>2, <1>3 DEF PresenceInv

\* and leaves the session that has the old Will.
LEMMA BounceKeeps ==
    ASSUME PresenceInv, AgentTyped', NEW w \in Agent!Workers, Agent!Bounce(w)
    PROVE  PresenceInv'
<1>0. AgentTyped /\ ConnectionStory /\ PresenceStory
  BY DEF PresenceInv
<1>1. /\ run # "down" /\ worker[w].pc = "bounce" /\ mqttOk' = FALSE /\ Agent!Returns(w)
      /\ UNCHANGED <<run, site, will, outbox, excused>>
      /\ Agent!WillFires \/ (session' = Agent!NoSession /\ retained' = retained)
  BY DEF Agent!Bounce, Agent!At
<1>2. ~ session'.live
  BY <1>1, Zero DEF Agent!WillFires
<1>3. ConnectionStory'
  BY <1>0, <1>1, <1>2 DEF ConnectionStory
<1>4. PresenceStory'
  <2> SUFFICES ASSUME ~ excused PROVE PresenceStory'
    BY <1>1 DEF PresenceStory
  <2>1. Bouncing
    BY <1>1 DEF Bouncing
  <2>2. Solo /\ Running /\ will = site /\ \A s \in Sites : Ends(s) => s = site
    BY <1>0, <2>1 DEF PresenceStory
  <2>3. \A v \in 1..Len(worker') : /\ Behind(w, v) \in Agent!Workers /\ Behind(w, v) # w
                                   /\ worker'[v] = worker[Behind(w, v)]
    BY <1>0, <1>1, ThreadReturns
  <2>4. \A v \in 1..Len(worker') : worker'[v].pc \notin {"move", "bounce"}
    BY <1>1, <2>2, <2>3 DEF Solo, OnTheMove
  <2>5. Solo' /\ ~ Leaving' /\ ~ Bouncing'
    BY <2>4 DEF Solo, OnTheMove, Leaving, Bouncing, Agent!Workers
  <2>6. \A s \in Sites : Ends(s)' => Ends(s)
    <3> SUFFICES ASSUME NEW s \in Sites, Ends(s)' PROVE Ends(s)
      OBVIOUS
    <3>1. retained'[s] = Agent!Online => retained[s] = Agent!Online
      <4>1. retained' = retained \/ retained' = [retained EXCEPT ![session.will] = Agent!Offline]
        BY <1>1 DEF Agent!WillFires, Agent!Status
      <4>2. retained \in Kept
        BY <1>0 DEF AgentTyped
      <4> QED BY <4>1, <4>2 DEF Kept, Agent!Online, Agent!Offline
    <3> QED BY <1>1, <3>1 DEF Ends, EndsOnline
  <2>7. AtHome'
    BY <1>1, <1>2, <2>2, <2>6 DEF AtHome, Running
  <2> QED BY <2>5, <2>7 DEF PresenceStory
<1> QED BY <1>3, <1>4 DEF PresenceInv

LEMMA PresenceStep ==
    ASSUME PresenceInv, [Agent!Next]_Agent!vars
    PROVE  PresenceInv'
<1>0. AgentTyped
  BY DEF PresenceInv
<1>1. AgentTyped'
  BY <1>0, AgentTypes
<1>2. CASE \/ UNCHANGED Agent!vars
           \/ Agent!HostAges \/ Agent!HostLeaves \/ Agent!HostReturns \/ Agent!Heal \/ Agent!Transmit
  <2>1. UNCHANGED <<presence, outbox, worker>>
    BY <1>2 DEF Agent!vars, Agent!agent, Agent!broker, Agent!HostAges, Agent!HostLeaves, Agent!HostReturns, Agent!Heal,
       Agent!Transmit, presence
  <2>2. (Leaving' <=> Leaving) /\ (Bouncing' <=> Bouncing) /\ (Solo => Solo')
    BY <2>1 DEF Leaving, Bouncing, Solo, OnTheMove, Agent!Workers
  <2> QED BY <1>1, <2>1, <2>2, PresenceQuiet
<1>3. CASE Agent!Deliver
  BY <1>1, <1>3, DeliverKeeps
<1>4. CASE Agent!Connect \/ Agent!OnConnect \/ Agent!OnDisconnect
  BY <1>1, <1>4, ConnectionKeeps
<1>5. CASE Agent!Shutdown \/ Agent!Start
  BY <1>1, <1>5, ShutdownKeeps, StartKeeps
<1>6. CASE Agent!Ended \/ Agent!Crash
  BY <1>1, <1>6, EndKeeps
<1>7. ASSUME NEW left, Agent!Drop(left) PROVE PresenceInv'
  BY <1>1, <1>7, DropKeeps
<1>8. CASE Agent!HandleCommand \/ Agent!Remember \/ \E s \in Sites : Agent!SetMeta(s)
  BY <1>1, <1>8, CommandsKeep
<1>9. ASSUME NEW w \in Agent!Workers, Agent!Worker(w) PROVE PresenceInv'
  BY <1>1, <1>9, StoringKeeps, ApplyKeeps, RetopicKeeps, BounceKeeps DEF Agent!Worker
<1> QED BY <1>2, <1>3, <1>4, <1>5, <1>6, <1>7, <1>8, <1>9 DEF Agent!Next

\* The retained status and the Last Will tell whether the agent runs, however the
\* threads of its commands, that of paho and the main one get in between each
\* other and wherever a connection, a stop or a crash comes, unless one of the
\* excused cases does: apply_meta(), _on_connect() and shutdown().
THEOREM PresenceAlwaysTrue == Agent!Spec => []PresenceIsTrue
<1>1. Agent!Init => PresenceInv
  <2> SUFFICES ASSUME Agent!Init PROVE PresenceInv
    OBVIOUS
  <2>1. /\ run = "up" /\ site = Configured /\ mqttOk = FALSE /\ will = Configured /\ outbox = <<>> /\ worker = <<>>
        /\ file = [site |-> Agent!NoSite, tmp |-> Agent!NoSite] /\ stored = Agent!NoSite /\ session = Agent!NoSession
        /\ retained = [s \in Sites |-> Agent!NoSite]
        /\ acked = [n |-> 0, past |-> 0, site |-> Agent!NoSite, later |-> {}] /\ excused = FALSE
    BY DEF Agent!Init
  <2>2. AgentTyped
    BY <2>1, EdgeAssumption, Zero DEF AgentTyped, Agent!Texts, Kept, Acked
  <2>3. ConnectionStory
    BY <2>1, Zero DEF ConnectionStory
  <2>4. \A s \in Sites : ~ Ends(s)
    BY <2>1, EmptyBox DEF Ends, Agent!NoSite, Agent!Online
  <2>5. 1..Len(worker) = {}
    BY <2>1
  <2>6. AtHome
    BY <2>1, <2>4, Zero DEF AtHome
  <2> QED BY <2>2, <2>3, <2>5, <2>6 DEF PresenceInv, PresenceStory, Solo, Leaving, Bouncing, Agent!Workers
<1>2. PresenceInv /\ [Agent!Next]_Agent!vars => PresenceInv'
  BY PresenceStep
<1>3. PresenceInv => PresenceIsTrue
  <2> SUFFICES ASSUME PresenceInv, Agent!Quiet, ~ excused
               PROVE  /\ \A s \in Sites : retained[s] = Agent!Online => s = site
                      /\ run = "up" /\ mqttOk /\ session.live /\ ~session.connack =>
                            retained[site] = Agent!Online /\ session.will = site /\ session.subs = {site}
                      /\ run = "down" => \A s \in Sites : retained[s] # Agent!Online
    BY DEF PresenceIsTrue, Agent!PresenceIsTrue
  <2>1. ~ Leaving /\ ~ Bouncing /\ outbox = <<>>
    BY DEF Agent!Quiet, Leaving, Bouncing
  <2>2. AtHome /\ site \in Sites
    BY <2>1 DEF PresenceInv, PresenceStory, AgentTyped
  <2>3. \A s \in Sites : Ends(s) <=> retained[s] = Agent!Online
    BY <2>1, EmptyBox DEF Ends
  <2> QED BY <2>2, <2>3 DEF AtHome
<1> QED BY <1>1, <1>2, <1>3, PTL DEF Agent!Spec

-----------------------------------------------------------------------------
(* The agent: its state file.                                              *)

Storing(w) == worker[w].pc \in {"dump", "open", "write", "replace"}
NobodyStores == \A w \in Agent!Workers : ~ Storing(w)

\* Some answer promises something, or one to come does.
Alone == acked.site # Agent!NoSite \/ acked.past < acked.n

\* What self.state and the file have when the answer to set_meta n with site s
\* is on its way.
Stored(n, s) ==
    /\ file.site \in {s} \union acked.later /\ stored \in {s} \union acked.later
    /\ n = acked.n => file.site = s /\ stored = s

\* The text of self.state.
Text == IF stored = Agent!NoSite THEN Agent!Bare ELSE stored

\* Whoever stores does so alone, and what it stores is self.state.
StoreStory ==
    Alone => \A w \in Agent!Workers : Storing(w) =>
        /\ acked.past < worker[w].n => worker[w].n = acked.n /\ stored = worker[w].to
        /\ \A v \in Agent!Workers : Storing(v) => v = w
        /\ worker[w].pc # "replace" => worker[w].fd = "tmp"
        /\ worker[w].pc \in {"open", "write"} => worker[w].text = Text
        /\ worker[w].pc = "write" => file.tmp = Agent!Empty
        /\ worker[w].pc = "replace" => file.tmp = Text

Counted ==
    /\ acked.past <= acked.n
    /\ \A w \in Agent!Workers : worker[w].n <= acked.n
    /\ \A i \in DOMAIN outbox : outbox[i].n <= acked.n
    /\ run = "down" => worker = <<>> /\ outbox = <<>>

ReplyStory ==
    /\ \A w \in Agent!Workers : worker[w].pc = "reply" /\ acked.past < worker[w].n => Stored(worker[w].n, worker[w].to)
    /\ \A i \in DOMAIN outbox : outbox[i].kind = "reply" /\ acked.past < outbox[i].n => Stored(outbox[i].n, outbox[i].site)
    /\ acked.site # Agent!NoSite => /\ file.site \in {acked.site} \union acked.later
                                    /\ stored \in {acked.site} \union acked.later

MetaInv == AgentTyped /\ Counted /\ StoreStory /\ ReplyStory

\* When two were stored at once nothing is to be shown until a set_meta comes
\* that has the file for itself.
LEMMA NothingPromised ==
    ASSUME AgentTyped', Counted', ~ Alone'
    PROVE  MetaInv'
<1>1. acked'.past \in Nat /\ acked'.n \in Nat /\ acked'.site = Agent!NoSite /\ ~ (acked'.past < acked'.n)
  BY DEF AgentTyped, Acked, Alone
<1>2. \A w \in 1..Len(worker') : worker'[w].n \in Nat
  <2>1. worker' \in [1..Len(worker') -> Threads]
    BY LenProperties DEF AgentTyped
  <2> QED BY <2>1 DEF Threads
<1>3. \A i \in DOMAIN outbox' : outbox'[i].n \in Nat
  <2>1. outbox' \in [DOMAIN outbox' -> Message]
    BY LenProperties DEF AgentTyped
  <2> QED BY <2>1 DEF Message
<1>4. \A w \in 1..Len(worker') : ~ (acked'.past < worker'[w].n)
  BY <1>1, <1>2 DEF Counted, Agent!Workers
<1>5. \A i \in DOMAIN outbox' : ~ (acked'.past < outbox'[i].n)
  BY <1>1, <1>3 DEF Counted
<1>6. ReplyStory'
  BY <1>1, <1>4, <1>5 DEF ReplyStory, Agent!Workers
<1>7. StoreStory'
  BY DEF StoreStory
<1> QED BY <1>6, <1>7 DEF MetaInv

LEMMA MessagesAre ==
    ASSUME AgentTyped
    PROVE  /\ Len(outbox) \in Nat /\ DOMAIN outbox = 1..Len(outbox)
           /\ \A i \in DOMAIN outbox : /\ outbox[i] \in Message /\ outbox[i].n \in Nat /\ outbox[i].site \in Sites
                                       /\ outbox[i].kind \in {Agent!Online, Agent!Offline, "reply"}
           /\ acked.past \in Nat /\ acked.n \in Nat /\ acked.later \in SUBSET Sites
<1>1. outbox \in [1..Len(outbox) -> Message] /\ Len(outbox) \in Nat
  BY LenProperties DEF AgentTyped
<1>2. acked.past \in Nat /\ acked.n \in Nat /\ acked.later \in SUBSET Sites
  BY DEF AgentTyped, Acked
<1> QED BY <1>1, <1>2 DEF Message

\* A step that is nothing to the file: a thread is one that there was, as far on
\* as storing goes, or only answers; a message is one that there was, a status, or
\* the answer of a thread.
LEMMA MetaQuiet ==
    ASSUME MetaInv, AgentTyped', UNCHANGED <<acked, file, stored>>,
           run' = "down" => worker' = <<>> /\ outbox' = <<>>,
           NEW f,
           \A v \in 1..Len(worker') :
              \/ worker'[v].n = 0 /\ worker'[v].pc = "reply"
              \/ /\ f[v] \in Agent!Workers /\ worker'[v].n = worker[f[v]].n /\ worker'[v].to = worker[f[v]].to
                 /\ worker'[v].pc = "reply" => worker[f[v]].pc = "reply"
                 /\ worker'[v].pc \in {"dump", "open", "write", "replace"} => worker'[v] = worker[f[v]],
           \A u, v \in 1..Len(worker') : f[u] = f[v] => u = v,
           \A i \in DOMAIN outbox' :
              \/ \E j \in DOMAIN outbox : outbox'[i] = outbox[j]
              \/ outbox'[i].n = 0
              \/ \E w \in Agent!Workers : /\ worker[w].pc = "reply" /\ outbox'[i].n = worker[w].n
                                          /\ outbox'[i].site = worker[w].to
    PROVE  MetaInv'
<1>0. AgentTyped /\ Counted /\ StoreStory /\ ReplyStory
  BY DEF MetaInv
<1>1. acked.past \in Nat /\ acked.n \in Nat /\ Agent!Workers = 1..Len(worker) /\ Agent!Workers' = 1..Len(worker')
  BY <1>0, MessagesAre DEF Agent!Workers
<1>2. ~ (acked.past < 0) /\ 0 <= acked.n
  BY <1>1
<1>3. Counted'
  BY <1>0, <1>1, <1>2 DEF Counted
<1> DEFINE After(n, s) == /\ file'.site \in {s} \union acked'.later /\ stored' \in {s} \union acked'.later
                          /\ n = acked'.n => file'.site = s /\ stored' = s
<1>5. \A n, s : Stored(n, s) => After(n, s)
  BY DEF Stored
<1>t. Text' = Text
  BY DEF Text
<1>6. StoreStory'
  <2> SUFFICES ASSUME Alone', NEW w \in 1..Len(worker'), worker'[w].pc \in {"dump", "open", "write", "replace"}
               PROVE  /\ acked'.past < worker'[w].n => worker'[w].n = acked'.n /\ stored' = worker'[w].to
                      /\ \A v \in 1..Len(worker') : worker'[v].pc \in {"dump", "open", "write", "replace"} => v = w
                      /\ worker'[w].pc # "replace" => worker'[w].fd = "tmp"
                      /\ worker'[w].pc \in {"open", "write"} => worker'[w].text = Text'
                      /\ worker'[w].pc = "write" => file'.tmp = Agent!Empty
                      /\ worker'[w].pc = "replace" => file'.tmp = Text'
    BY <1>1 DEF StoreStory, Storing
  <2>1. Alone
    BY DEF Alone
  <2>2. \A v \in 1..Len(worker') : worker'[v].pc \in {"dump", "open", "write", "replace"} =>
          f[v] \in Agent!Workers /\ worker'[v] = worker[f[v]] /\ Storing(f[v])
    BY DEF Storing
  <2>3. f[w] \in Agent!Workers /\ worker'[w] = worker[f[w]] /\ Storing(f[w])
    BY <2>2
  <2>4. \A v \in 1..Len(worker') : worker'[v].pc \in {"dump", "open", "write", "replace"} => v = w
    BY <1>0, <2>1, <2>2, <2>3 DEF StoreStory
  <2> QED BY <1>0, <1>t, <2>1, <2>3, <2>4 DEF StoreStory
<1>7. ReplyStory'
  <2> HIDE DEF After
  <2>1. ASSUME NEW w \in 1..Len(worker'), worker'[w].pc = "reply", acked.past < worker'[w].n
        PROVE  After(worker'[w].n, worker'[w].to)
    <3>1. /\ f[w] \in Agent!Workers /\ worker'[w].n = worker[f[w]].n /\ worker'[w].to = worker[f[w]].to
          /\ worker[f[w]].pc = "reply"
      BY <1>2, <2>1
    <3>2. Stored(worker[f[w]].n, worker[f[w]].to)
      BY <1>0, <2>1, <3>1 DEF ReplyStory
    <3> QED BY <1>5, <3>1, <3>2
  <2>2. ASSUME NEW i \in DOMAIN outbox', outbox'[i].kind = "reply", acked.past < outbox'[i].n
        PROVE  After(outbox'[i].n, outbox'[i].site)
    <3>1. CASE \E j \in DOMAIN outbox : outbox'[i] = outbox[j]
      <4>1. Stored(outbox'[i].n, outbox'[i].site)
        BY <1>0, <2>2, <3>1 DEF ReplyStory
      <4> QED BY <1>5, <4>1
    <3>2. CASE outbox'[i].n = 0
      BY <1>2, <2>2, <3>2
    <3>3. CASE \E w \in Agent!Workers : /\ worker[w].pc = "reply" /\ outbox'[i].n = worker[w].n
                                        /\ outbox'[i].site = worker[w].to
      <4>1. Stored(outbox'[i].n, outbox'[i].site)
        BY <1>0, <2>2, <3>3 DEF ReplyStory
      <4> QED BY <1>5, <4>1
    <3> QED BY <3>1, <3>2, <3>3
  <2>3. \A w \in 1..Len(worker') : worker'[w].pc = "reply" /\ acked.past < worker'[w].n => After(worker'[w].n, worker'[w].to)
    BY <2>1
  <2>4. \A i \in DOMAIN outbox' : outbox'[i].kind = "reply" /\ acked.past < outbox'[i].n => After(outbox'[i].n, outbox'[i].site)
    BY <2>2
  <2>5. acked'.site # Agent!NoSite => /\ file'.site \in {acked'.site} \union acked'.later
                                      /\ stored' \in {acked'.site} \union acked'.later
    BY <1>0 DEF ReplyStory
  <2> QED BY <1>1, <2>3, <2>4, <2>5 DEF ReplyStory, Stored, After
<1> QED BY <1>3, <1>6, <1>7 DEF MetaInv

\* In particular one that leaves the threads where they are.
LEMMA BoxMoves ==
    ASSUME MetaInv, AgentTyped', UNCHANGED <<worker, acked, file, stored>>,
           run' # "down" \/ (run' = run /\ outbox' = outbox),
           \A i \in DOMAIN outbox' : (\E j \in DOMAIN outbox : outbox'[i] = outbox[j]) \/ outbox'[i].n = 0
    PROVE  MetaInv'
<1> DEFINE f == [v \in 1..Len(worker) |-> v]
<1>1. \A v \in 1..Len(worker') : f[v] = v /\ f[v] \in Agent!Workers /\ worker'[v] = worker[f[v]]
  BY DEF Agent!Workers
<1>2. run' = "down" => worker' = <<>> /\ outbox' = <<>>
  BY DEF MetaInv, Counted
<1> HIDE DEF f
<1>3. \A v \in 1..Len(worker') :
          \/ worker'[v].n = 0 /\ worker'[v].pc = "reply"
          \/ /\ f[v] \in Agent!Workers /\ worker'[v].n = worker[f[v]].n /\ worker'[v].to = worker[f[v]].to
             /\ worker'[v].pc = "reply" => worker[f[v]].pc = "reply"
             /\ worker'[v].pc \in {"dump", "open", "write", "replace"} => worker'[v] = worker[f[v]]
  BY <1>1
<1>4. \A u, v \in 1..Len(worker') : f[u] = f[v] => u = v
  BY <1>1
<1>5. \A i \in DOMAIN outbox' :
          \/ \E j \in DOMAIN outbox : outbox'[i] = outbox[j]
          \/ outbox'[i].n = 0
          \/ \E w \in Agent!Workers : /\ worker[w].pc = "reply" /\ outbox'[i].n = worker[w].n
                                      /\ outbox'[i].site = worker[w].to
  OBVIOUS
<1>6. UNCHANGED <<acked, file, stored>>
  OBVIOUS
<1> QED BY <1>2, <1>3, <1>4, <1>5, <1>6, MetaQuiet

\* save_state() of the one thread that stores, or of two, of which nothing is promised.
LEMMA SaveKeeps ==
    ASSUME MetaInv, AgentTyped', NEW w \in Agent!Workers,
           Agent!Dump(w) \/ Agent!Open(w) \/ Agent!Write(w) \/ Agent!Replace(w)
    PROVE  MetaInv'
<1>0. AgentTyped /\ Counted /\ StoreStory /\ ReplyStory
  BY DEF MetaInv
<1>a. /\ acked.past \in Nat /\ acked.n \in Nat /\ worker[w].to \in Sites /\ DOMAIN file = {"site", "tmp"}
      /\ {"open", "write", "replace", "reply"} \subseteq Places /\ site \in Sites
      /\ Text \in Agent!Texts /\ Agent!NoSite \in Agent!Texts
  BY <1>0, MessagesAre, WorkersAre DEF AgentTyped, Places, Text, Agent!Texts
<1>1. UNCHANGED <<run, outbox, acked, stored>> /\ run # "down" /\ Storing(w)
  BY DEF Agent!Dump, Agent!Open, Agent!Write, Agent!Replace, Agent!At, Agent!agent, Storing
<1>t. Text' = Text
  BY <1>1 DEF Text
<1>2. /\ Len(worker') = Len(worker)
      /\ \A v \in Agent!Workers : /\ worker'[v].to = worker[v].to /\ worker'[v].n = worker[v].n
                                  /\ v # w => worker'[v].pc = worker[v].pc
  <2>1. CASE Agent!Replace(w)
    BY <1>0, <2>1, ReplaceMoves
  <2>2. CASE Agent!Open(w)
    <3>1. worker' = [worker EXCEPT ![w].pc = "write"]
      BY <2>2 DEF Agent!Open, Agent!Goes
    <3> QED BY <1>0, <1>a, <3>1, ThreadMoves
  <2>3. CASE Agent!Write(w)
    <3>1. worker' = [worker EXCEPT ![w].pc = "replace", ![w].text = Agent!NoSite]
      BY <2>3 DEF Agent!Write
    <3> QED BY <1>0, <1>a, <3>1, SaveMoves
  <2>4. CASE Agent!Dump(w)
    <3>1. worker' = [worker EXCEPT ![w].pc = "open", ![w].text = Text]
      BY <2>4 DEF Agent!Dump, Text
    <3> QED BY <1>0, <1>a, <3>1, SaveMoves
  <2> QED BY <2>1, <2>2, <2>3, <2>4
<1>3. Agent!Workers' = Agent!Workers
  BY <1>2 DEF Agent!Workers
<1>4. Counted'
  BY <1>0, <1>1, <1>2, <1>3 DEF Counted
<1>5. CASE ~ Alone
  <2>1. ~ Alone'
    BY <1>1, <1>5 DEF Alone
  <2> QED BY <1>4, <2>1, NothingPromised
<1>6. CASE Alone
  <2>1. /\ acked.past < worker[w].n => worker[w].n = acked.n /\ stored = worker[w].to
        /\ \A v \in Agent!Workers : Storing(v) => v = w
        /\ worker[w].pc # "replace" => worker[w].fd = "tmp"
        /\ worker[w].pc \in {"open", "write"} => worker[w].text = Text
        /\ worker[w].pc = "write" => file.tmp = Agent!Empty
        /\ worker[w].pc = "replace" => file.tmp = Text
    BY <1>0, <1>1, <1>6 DEF StoreStory
  <2>2. \A v \in Agent!Workers : v # w => ~ Storing(v) /\ worker'[v].pc = worker[v].pc
    BY <1>2, <2>1
  <2>3. CASE Agent!Dump(w) \/ Agent!Open(w) \/ Agent!Write(w)
    <3>2. /\ worker'[w].fd = "tmp" /\ file'.site = file.site
          /\ \/ worker'[w].pc = "open" /\ worker'[w].text = Text
             \/ worker'[w].pc = "write" /\ worker'[w].text = Text /\ file'.tmp = Agent!Empty
             \/ worker'[w].pc = "replace" /\ file'.tmp = Text
      <4>1. CASE Agent!Dump(w)
        <5>1. /\ worker' = [worker EXCEPT ![w].pc = "open", ![w].text = Text] /\ worker[w].pc = "dump" /\ file' = file
          BY <4>1 DEF Agent!Dump, Agent!At, Text
        <5>2. "open" \in Places /\ Text \in Agent!Texts
          BY <1>a
        <5>3. worker'[w].pc = "open" /\ worker'[w].text = Text /\ worker'[w].fd = worker[w].fd
          BY <1>0, <5>1, <5>2, SaveMoves
        <5> QED BY <2>1, <5>1, <5>3
      <4>2. CASE Agent!Open(w)
        <5>1. /\ worker' = [worker EXCEPT ![w].pc = "write"] /\ worker[w].pc = "open"
              /\ file' = [file EXCEPT !.tmp = Agent!Empty]
          BY <4>2 DEF Agent!Open, Agent!Goes, Agent!At
        <5>2. worker'[w].text = worker[w].text
          BY <1>0, <5>1, WorkersAre DEF Threads
        <5>3. worker'[w].pc = "write" /\ worker'[w].fd = worker[w].fd
          BY <1>0, <1>a, <5>1, ThreadMoves
        <5> QED BY <1>a, <2>1, <5>1, <5>2, <5>3
      <4>3. CASE Agent!Write(w)
        <5>1. /\ worker' = [worker EXCEPT ![w].pc = "replace", ![w].text = Agent!NoSite] /\ worker[w].pc = "write"
              /\ worker[w].fd = "tmp" /\ file.tmp = Agent!Empty /\ worker[w].text = Text
          BY <2>1, <4>3 DEF Agent!Write, Agent!At
        <5>2. file' = [file EXCEPT !["tmp"] = Text]
          BY <4>3, <5>1 DEF Agent!Write
        <5>3. worker'[w].pc = "replace" /\ worker'[w].fd = "tmp"
          BY <1>0, <1>a, <5>1, SaveMoves
        <5> QED BY <1>a, <5>2, <5>3
      <4> QED BY <2>3, <4>1, <4>2, <4>3
    <3>3. StoreStory'
      <4>1. \A v \in Agent!Workers : (worker'[v].pc \in {"dump", "open", "write", "replace"}) => v = w
        BY <2>2 DEF Storing
      <4>2. /\ acked'.past < worker'[w].n => worker'[w].n = acked'.n /\ stored' = worker'[w].to
            /\ worker'[w].pc # "replace" => worker'[w].fd = "tmp"
            /\ worker'[w].pc \in {"open", "write"} => worker'[w].text = Text
            /\ worker'[w].pc = "write" => file'.tmp = Agent!Empty
            /\ worker'[w].pc = "replace" => file'.tmp = Text
        BY <1>1, <1>2, <2>1, <3>2
      <4> QED BY <1>3, <1>t, <4>1, <4>2 DEF StoreStory, Storing
    <3>5. ReplyStory'
      <4>1. \A v \in Agent!Workers : worker'[v].pc = "reply" => v # w /\ worker[v].pc = "reply"
        BY <2>2, <3>2
      <4> QED BY <1>0, <1>1, <1>2, <1>3, <3>2, <4>1 DEF ReplyStory, Stored
    <3> QED BY <1>4, <3>3, <3>5 DEF MetaInv
  <2>4. CASE Agent!Replace(w)
    <3>1. worker[w].pc = "replace" /\ worker'[w].pc = "reply" /\ file.tmp = Text
      BY <1>0, <2>1, <2>4, ReplaceMoves
    <3>2. Text # Agent!NoSite
      BY DEF Text, Agent!NoSite, Agent!Bare
    <3>3. file' = [site |-> Text, tmp |-> Agent!NoSite]
      BY <2>4, <3>1, <3>2 DEF Agent!Replace
    <3>4. \A v \in Agent!Workers : ~ (worker'[v].pc \in {"dump", "open", "write", "replace"})
      BY <2>2, <3>1 DEF Storing
    <3>5. StoreStory'
      BY <1>3, <3>4 DEF StoreStory, Storing
    <3>6. \A s \in Sites : stored \in {s} \union acked.later => file'.site = stored
      <4>1. \A s \in Sites : stored \in {s} \union acked.later => stored # Agent!NoSite
        BY <1>0, MessagesAre, EdgeAssumption DEF Agent!NoSite
      <4> QED BY <3>3, <4>1 DEF Text
    <3>8. ASSUME NEW v \in Agent!Workers, worker'[v].pc = "reply", acked'.past < worker'[v].n
          PROVE  Stored(worker[v].n, worker[v].to)'
      <4>1. worker[v].n \in Nat /\ worker[v].to \in Sites /\ worker'[v].n = worker[v].n /\ worker'[v].to = worker[v].to
        BY <1>0, <1>2, WorkersAre
      <4>2. CASE v = w
        <5>1. worker[w].n = acked.n /\ stored = worker[w].to
          BY <1>1, <2>1, <3>8, <4>1, <4>2
        <5> QED BY <1>1, <3>6, <4>1, <4>2, <5>1 DEF Stored
      <4>3. CASE v # w
        <5>1. Stored(worker[v].n, worker[v].to)
          BY <1>0, <1>1, <2>2, <3>8, <4>1, <4>3 DEF ReplyStory
        <5> QED BY <1>1, <3>6, <4>1, <5>1 DEF Stored
      <4> QED BY <4>2, <4>3
    <3>9. ReplyStory'
      <4>1. \A i \in DOMAIN outbox' : outbox'[i].kind = "reply" /\ acked'.past < outbox'[i].n =>
                Stored(outbox[i].n, outbox[i].site)'
        BY <1>0, <1>1, <3>6, MessagesAre DEF ReplyStory, Stored
      <4>2. acked'.site # Agent!NoSite => /\ file'.site \in {acked'.site} \union acked'.later
                                          /\ stored' \in {acked'.site} \union acked'.later
        <5>1. acked.site \in Sites \union {Agent!NoSite}
          BY <1>0 DEF AgentTyped, Acked
        <5> QED BY <1>0, <1>1, <3>6, <5>1 DEF ReplyStory
      <4> QED BY <1>3, <3>8, <4>1, <4>2 DEF ReplyStory, Stored
    <3> QED BY <1>4, <3>5, <3>9 DEF MetaInv
  <2> QED BY <2>3, <2>4
<1> QED BY <1>5, <1>6

\* One that fails leaves the state file as it is, unless another one stores as well.
LEMMA FailureKeeps ==
    ASSUME MetaInv, AgentTyped', NEW w \in Agent!Workers, Agent!SaveFails(w)
    PROVE  MetaInv'
<1>0. AgentTyped /\ Counted /\ StoreStory /\ ReplyStory
  BY DEF MetaInv
<1>1. UNCHANGED <<run, outbox, acked, stored>> /\ run # "down" /\ Storing(w)
  BY DEF Agent!SaveFails, Agent!Saves, Agent!agent, Storing
<1>2. /\ Len(worker') = Len(worker) /\ worker'[w].pc = "reply" /\ worker'[w].n = 0
      /\ \A v \in Agent!Workers : v # w => worker'[v] = worker[v]
  BY <1>0, SaveGivesUp
<1>3. /\ Agent!Workers' = Agent!Workers /\ acked.past \in Nat /\ acked.n \in Nat
      /\ 0 <= acked.n /\ ~ (acked.past < 0)
  BY <1>0, <1>2, MessagesAre DEF Agent!Workers
<1>4. Counted'
  BY <1>0, <1>1, <1>2, <1>3 DEF Counted
<1>5. CASE ~ Alone
  <2>1. ~ Alone'
    BY <1>1, <1>5 DEF Alone
  <2> QED BY <1>4, <2>1, NothingPromised
<1>6. CASE Alone
  <2>1. /\ \A v \in Agent!Workers : Storing(v) => v = w
        /\ worker[w].pc = "write" => worker[w].fd = "tmp"
    BY <1>0, <1>1, <1>6 DEF StoreStory
  <2>2. file'.site = file.site
    <3>1. \/ file' = file
          \/ worker[w].pc = "write" /\ file' = [file EXCEPT ![worker[w].fd] = Agent!Mixed]
      BY DEF Agent!SaveFails, Agent!At
    <3>2. DOMAIN file = {"site", "tmp"}
      BY <1>0 DEF AgentTyped
    <3> QED BY <2>1, <3>1, <3>2
  <2>3. \A v \in Agent!Workers : ~ (worker'[v].pc \in {"dump", "open", "write", "replace"})
    BY <1>2, <2>1 DEF Storing
  <2>4. StoreStory'
    BY <1>3, <2>3 DEF StoreStory, Storing
  <2>5. \A v \in Agent!Workers : worker'[v].pc = "reply" /\ acked.past < worker'[v].n => worker'[v] = worker[v]
    BY <1>2, <1>3
  <2>6. ReplyStory'
    BY <1>0, <1>1, <1>3, <2>2, <2>5 DEF ReplyStory, Stored
  <2> QED BY <1>4, <2>4, <2>6 DEF MetaInv
<1> QED BY <1>5, <1>6

\* load_state() reads what was promised.
LEMMA StartKeepsMeta ==
    ASSUME MetaInv, AgentTyped', Agent!Start
    PROVE  MetaInv'
<1>0. AgentTyped /\ Counted /\ StoreStory /\ ReplyStory
  BY DEF MetaInv
<1>1. /\ UNCHANGED <<worker, outbox, acked, file>> /\ stored' = Agent!LoadState
      /\ worker = <<>> /\ outbox = <<>> /\ run' # "down"
  BY <1>0 DEF Agent!Start, Counted
<1>2. Agent!Workers' = {} /\ DOMAIN outbox' = {}
  BY <1>1 DEF Agent!Workers
<1>3. Counted' /\ StoreStory'
  BY <1>0, <1>1, <1>2 DEF Counted, StoreStory
<1>4. ASSUME acked.site # Agent!NoSite
      PROVE  stored' = file.site
  <2>1. acked.site \in Sites /\ acked.later \subseteq Sites
    BY <1>0, <1>4 DEF AgentTyped, Acked
  <2>2. file.site \in Sites
    BY <1>0, <1>4, <2>1 DEF ReplyStory
  <2> QED BY <1>1, <2>2 DEF Agent!LoadState
<1>5. ReplyStory'
  BY <1>0, <1>1, <1>2, <1>4 DEF ReplyStory
<1> QED BY <1>3, <1>5 DEF MetaInv

\* An answer reaches the host.
LEMMA AnswerKeeps ==
    ASSUME MetaInv, AgentTyped', Agent!Deliver
    PROVE  MetaInv'
<1>0. AgentTyped /\ Counted /\ StoreStory /\ ReplyStory
  BY DEF MetaInv
<1>1. /\ outbox # <<>> /\ outbox' = Tail(outbox) /\ UNCHANGED <<run, worker, file, stored>>
  BY DEF Agent!Deliver, Agent!agent
<1>2. /\ outbox \in Seq(Message) /\ Head(outbox) = outbox[1] /\ 1 \in DOMAIN outbox
      /\ \A i \in DOMAIN outbox' : i + 1 \in DOMAIN outbox /\ outbox'[i] = outbox[i + 1]
  <2>1. outbox \in Seq(Message)
    BY <1>0 DEF AgentTyped
  <2>2. /\ outbox' \in Seq(Message) /\ Len(outbox') = Len(outbox) - 1 /\ Head(outbox) = outbox[1]
        /\ \A i \in 1..Len(outbox') : outbox'[i] = outbox[i + 1]
    BY <1>1, <2>1, HeadTailProperties
  <2>3. Len(outbox) \in Nat /\ DOMAIN outbox = 1..Len(outbox) /\ DOMAIN outbox' = 1..Len(outbox') /\ Len(outbox') \in Nat
    BY <2>1, <2>2, LenProperties
  <2>4. 1 \in 1..Len(outbox) /\ \A i \in 1..Len(outbox') : i + 1 \in 1..Len(outbox)
    BY <2>2, <2>3
  <2> QED BY <2>1, <2>2, <2>3, <2>4
<1>3. /\ Agent!Workers' = Agent!Workers /\ Agent!Workers = 1..Len(worker)
  BY <1>1 DEF Agent!Workers
<1>r. run' # "down"
  BY <1>0, <1>1 DEF Counted
<1>4. CASE acked' = acked
  <2>1. \A i \in DOMAIN outbox' : (\E j \in DOMAIN outbox : outbox'[i] = outbox[j]) \/ outbox'[i].n = 0
    BY <1>2
  <2> QED BY <1>1, <1>r, <1>4, <2>1, BoxMoves
<1>5. CASE acked' # acked
  <2> DEFINE m == outbox[1]
  <2>1. m.kind = "reply" /\ Agent!Answered(m) /\ m \in Message
    BY <1>0, <1>2, <1>5, MessagesAre DEF Agent!Deliver
  <2>2. /\ ~ (m.n <= acked.past) /\ acked'.n = acked.n /\ acked'.past = m.n /\ acked'.site = m.site
        /\ acked'.later = IF m.n = acked.n THEN {} ELSE acked.later
    BY <1>0, <1>5, <2>1, AckedMoves
  <2>3. acked.past \in Nat /\ acked.n \in Nat /\ m.n \in Nat /\ m.n <= acked.n /\ acked.past < m.n
    BY <1>0, <1>2, <2>2, MessagesAre DEF Counted
  <2>4. Stored(m.n, m.site) /\ Alone
    BY <1>0, <1>2, <2>1, <2>3 DEF ReplyStory, Alone
  <2> HIDE DEF m
  <2>5. Counted'
    BY <1>0, <1>1, <1>r, <1>2, <1>3, <2>2, <2>3 DEF Counted
  <2>a. \A n \in Nat : acked'.past < n => acked.past < n
    BY <2>2, <2>3
  <2>b. StoreStory'
    <3>1. \A w \in Agent!Workers : acked'.past < worker[w].n => acked.past < worker[w].n
      BY <1>0, <2>a, WorkersAre
    <3>2. Text' = Text
      BY <1>1 DEF Text
    <3> HIDE DEF Text
    <3> QED BY <1>0, <1>1, <1>3, <2>2, <2>4, <3>1, <3>2 DEF StoreStory, Storing
  <2>6. CASE m.n = acked.n
    <3>1. file.site = m.site /\ stored = m.site
      BY <2>4, <2>6 DEF Stored
    <3>3. \A w \in Agent!Workers : ~ (acked'.past < worker[w].n)
      BY <1>0, <2>2, <2>3, <2>6, WorkersAre DEF Counted
    <3>4. \A i \in DOMAIN outbox : ~ (acked'.past < outbox[i].n)
      BY <1>0, <2>2, <2>3, <2>6, MessagesAre DEF Counted
    <3>5. ReplyStory'
      BY <1>1, <1>2, <1>3, <2>2, <3>1, <3>3, <3>4 DEF ReplyStory
    <3> QED BY <2>5, <2>b, <3>5 DEF MetaInv
  <2>7. CASE m.n # acked.n
    <3>1. m.n < acked.n /\ acked'.later = acked.later
      BY <2>2, <2>3, <2>7
    <3>4. \A n, s : Stored(n, s) => Stored(n, s)'
      BY <1>1, <2>2, <3>1 DEF Stored
    <3>5. ASSUME NEW w \in Agent!Workers, worker[w].pc = "reply", acked'.past < worker[w].n
          PROVE  /\ file'.site \in {worker[w].to} \union acked'.later /\ stored' \in {worker[w].to} \union acked'.later
                 /\ worker[w].n = acked'.n => file'.site = worker[w].to /\ stored' = worker[w].to
      <4>1. acked.past < worker[w].n
        BY <1>0, <2>a, <3>5, WorkersAre
      <4>2. Stored(worker[w].n, worker[w].to)
        BY <1>0, <3>5, <4>1 DEF ReplyStory
      <4> QED BY <3>4, <4>2 DEF Stored
    <3>6. ASSUME NEW i \in DOMAIN outbox, outbox[i].kind = "reply", acked'.past < outbox[i].n
          PROVE  /\ file'.site \in {outbox[i].site} \union acked'.later /\ stored' \in {outbox[i].site} \union acked'.later
                 /\ outbox[i].n = acked'.n => file'.site = outbox[i].site /\ stored' = outbox[i].site
      <4>1. acked.past < outbox[i].n
        BY <1>0, <2>a, <3>6, MessagesAre
      <4>2. Stored(outbox[i].n, outbox[i].site)
        BY <1>0, <3>6, <4>1 DEF ReplyStory
      <4> QED BY <3>4, <4>2 DEF Stored
    <3>7. /\ file'.site \in {acked'.site} \union acked'.later
          /\ stored' \in {acked'.site} \union acked'.later
      BY <1>1, <2>2, <2>4, <3>1 DEF Stored
    <3>8. ReplyStory'
      BY <1>1, <1>2, <1>3, <3>5, <3>6, <3>7 DEF ReplyStory, Stored
    <3> QED BY <2>5, <2>b, <3>8 DEF MetaInv
  <2> QED BY <2>6, <2>7
<1> QED BY <1>4, <1>5

LEMMA MessageAdded ==
    ASSUME AgentTyped, NEW m \in Message, outbox' = Append(outbox, m)
    PROVE  \A i \in DOMAIN outbox' : (\E j \in DOMAIN outbox : outbox'[i] = outbox[j]) \/ outbox'[i] = m
<1>1. /\ DOMAIN outbox' = 1..(Len(outbox) + 1) /\ DOMAIN outbox = 1..Len(outbox) /\ outbox'[Len(outbox) + 1] = m
      /\ \A i \in 1..Len(outbox) : outbox'[i] = outbox[i]
      /\ \A i \in 1..(Len(outbox) + 1) : i \in 1..Len(outbox) \/ i = Len(outbox) + 1
  BY OneAdded DEF AgentTyped
<1> QED BY <1>1

\* Steps of paho and of the main thread: a status may go out.
LEMMA StatusKeepsMeta ==
    ASSUME MetaInv, AgentTyped',
           Agent!OnConnect \/ Agent!Shutdown
    PROVE  MetaInv'
<1>0. AgentTyped /\ site \in Sites
  BY DEF MetaInv, AgentTyped
<1>1. UNCHANGED <<worker, acked, file, stored>> /\ run' # "down"
  BY DEF Agent!OnConnect, Agent!Shutdown, Agent!broker
<1>2. \/ outbox' = Append(outbox, Agent!Msg(Agent!Online, site))
      \/ outbox' = Append(outbox, Agent!Msg(Agent!Offline, site))
      \/ outbox' = outbox
  BY DEF Agent!OnConnect, Agent!Shutdown
<1>3. /\ Agent!Msg(Agent!Online, site) \in Message /\ Agent!Msg(Agent!Offline, site) \in Message
      /\ Agent!Msg(Agent!Online, site).n = 0 /\ Agent!Msg(Agent!Offline, site).n = 0
  BY <1>0, Messages, Zero DEF Agent!Msg
<1>4. \A i \in DOMAIN outbox' : (\E j \in DOMAIN outbox : outbox'[i] = outbox[j]) \/ outbox'[i].n = 0
  <2>1. CASE outbox' = Append(outbox, Agent!Msg(Agent!Online, site))
    <3>1. \A i \in DOMAIN outbox' : (\E j \in DOMAIN outbox : outbox'[i] = outbox[j])
                                    \/ outbox'[i] = Agent!Msg(Agent!Online, site)
      BY <1>0, <1>3, <2>1, MessageAdded
    <3> QED BY <1>3, <3>1
  <2>2. CASE outbox' = Append(outbox, Agent!Msg(Agent!Offline, site))
    <3>1. \A i \in DOMAIN outbox' : (\E j \in DOMAIN outbox : outbox'[i] = outbox[j])
                                    \/ outbox'[i] = Agent!Msg(Agent!Offline, site)
      BY <1>0, <1>3, <2>2, MessageAdded
    <3> QED BY <1>3, <3>1
  <2>3. CASE outbox' = outbox
    BY <2>3
  <2> QED BY <1>2, <2>1, <2>2, <2>3
<1> QED BY <1>1, <1>4, BoxMoves

LEMMA EndKeepsMeta ==
    ASSUME MetaInv, AgentTyped', Agent!Ended \/ Agent!Crash
    PROVE  MetaInv'
<1>1. worker' = <<>> /\ outbox' = <<>> /\ UNCHANGED <<acked, file, stored>>
  BY DEF Agent!Ended, Agent!Crash
<1>2. Agent!Workers' = {} /\ DOMAIN outbox' = {}
  BY <1>1 DEF Agent!Workers
<1>3. Counted' /\ StoreStory' /\ ReplyStory'
  BY <1>1, <1>2 DEF MetaInv, Counted, StoreStory, ReplyStory
<1> QED BY <1>3 DEF MetaInv

\* A command comes: one that is only answered,
LEMMA CommandKeepsMeta ==
    ASSUME MetaInv, AgentTyped', Agent!HandleCommand
    PROVE  MetaInv'
<1> DEFINE t == Agent!Thread("reply", site, 0, FALSE)
<1>0. AgentTyped /\ site \in Sites
  BY DEF MetaInv, AgentTyped
<1>1. UNCHANGED <<outbox, acked, file, stored>> /\ run' # "down" /\ worker' = Append(worker, t)
  BY DEF Agent!HandleCommand, Agent!OnMessage, Agent!agent
<1>t. t \in Threads /\ t.n = 0 /\ t.pc = "reply"
  <2>1. t \in Threads
    BY <1>0, Zero, NewThreads
  <2> QED BY <2>1 DEF Agent!Thread
<1> HIDE DEF t
<1>2. /\ worker'[Len(worker) + 1] = t
      /\ \A v \in Agent!Workers : worker'[v] = worker[v] /\ v \in 1..Len(worker')
      /\ \A v \in 1..Len(worker') : v \in Agent!Workers \/ v = Len(worker) + 1
  BY <1>0, <1>1, <1>t, ThreadStarts
<1> DEFINE f == [v \in 1..Len(worker') |-> v]
<1>3. \A v \in 1..Len(worker') : f[v] = v
  OBVIOUS
<1> HIDE DEF f
<1>4. \A v \in 1..Len(worker') :
          \/ worker'[v].n = 0 /\ worker'[v].pc = "reply"
          \/ /\ f[v] \in Agent!Workers /\ worker'[v].n = worker[f[v]].n /\ worker'[v].to = worker[f[v]].to
             /\ worker'[v].pc = "reply" => worker[f[v]].pc = "reply"
             /\ worker'[v].pc \in {"dump", "open", "write", "replace"} => worker'[v] = worker[f[v]]
  BY <1>2, <1>3, <1>t
<1>5. \A u, v \in 1..Len(worker') : f[u] = f[v] => u = v
  BY <1>3
<1>6. \A i \in DOMAIN outbox' :
          \/ \E j \in DOMAIN outbox : outbox'[i] = outbox[j]
          \/ outbox'[i].n = 0
          \/ \E w \in Agent!Workers : /\ worker[w].pc = "reply" /\ outbox'[i].n = worker[w].n
                                      /\ outbox'[i].site = worker[w].to
  BY <1>1
<1>7. UNCHANGED <<acked, file, stored>> /\ (run' = "down" => worker' = <<>> /\ outbox' = <<>>)
  BY <1>1
<1> QED BY <1>4, <1>5, <1>6, <1>7, MetaQuiet

\* a thread that is to save self.state,
LEMMA OneSaverMore ==
    ASSUME AgentTyped, Counted, AgentTyped', NEW t \in Threads, worker' = Append(worker, t), UNCHANGED <<run, outbox>>,
           run # "down", t.n <= acked'.n, acked.n <= acked'.n, acked'.past <= acked'.n
    PROVE  Counted'
<1>1. /\ worker'[Len(worker) + 1] = t
      /\ \A v \in Agent!Workers : worker'[v] = worker[v]
      /\ \A v \in 1..Len(worker') : v \in Agent!Workers \/ v = Len(worker) + 1
  BY ThreadStarts
<1>2. Agent!Workers' = 1..Len(worker') /\ acked.n \in Nat /\ acked'.n \in Nat
  BY DEF Agent!Workers, AgentTyped, Acked
<1>3. \A w \in Agent!Workers : worker[w].n <= acked'.n
  BY <1>2, WorkersAre DEF Counted
<1>4. \A i \in DOMAIN outbox : outbox[i].n <= acked'.n
  BY <1>2, MessagesAre DEF Counted
<1> QED BY <1>1, <1>2, <1>3, <1>4 DEF Counted

\* which finds the file to itself,
LEMMA SaverComes ==
    ASSUME AgentTyped, Counted, StoreStory, ReplyStory, AgentTyped', NEW t \in Threads,
           worker' = Append(worker, t), UNCHANGED <<run, outbox, file>>, run # "down",
           t.pc = "dump", t.fd = "tmp", t.n <= acked'.n, acked.n <= acked'.n,
           \/ t.n = 0 /\ stored' = stored /\ acked' = acked
           \/ /\ acked.n < t.n /\ t.n = acked'.n /\ stored' = t.to /\ acked'.past = acked.past
              /\ acked'.site = acked.site /\ acked'.later = acked.later \union {t.to},
           NobodyStores
    PROVE  MetaInv'
<1>2. /\ worker'[Len(worker) + 1] = t /\ Len(worker) + 1 \in 1..Len(worker')
      /\ \A v \in Agent!Workers : worker'[v] = worker[v] /\ v \in 1..Len(worker')
      /\ \A v \in 1..Len(worker') : v \in Agent!Workers \/ v = Len(worker) + 1
      /\ Len(worker) + 1 \notin Agent!Workers
  BY ThreadStarts
<1>w. /\ Agent!Workers' = 1..Len(worker') /\ acked.n \in Nat /\ acked.past \in Nat /\ acked'.n \in Nat
      /\ ~ (acked.past < 0) /\ acked'.past = acked.past
  BY DEF Agent!Workers, AgentTyped, Acked
<1>4. Counted'
  <2>1. acked'.past <= acked'.n
    BY <1>w DEF Counted
  <2> QED BY <2>1, OneSaverMore
<1>5. StoreStory'
  <2>1. \A v \in 1..Len(worker') : worker'[v].pc \in {"dump", "open", "write", "replace"} => v = Len(worker) + 1
    BY <1>2 DEF NobodyStores, Storing
  <2>2. acked'.past < t.n => t.n = acked'.n /\ stored' = t.to
    BY <1>w
  <2> QED BY <1>2, <1>w, <2>1, <2>2 DEF StoreStory, Storing
<1>6. \A n, s : n <= acked.n /\ n \in Nat /\ Stored(n, s) =>
          /\ file'.site \in {s} \union acked'.later /\ stored' \in {s} \union acked'.later
          /\ n = acked'.n => file'.site = s /\ stored' = s
  <2>1. CASE t.n = 0 /\ stored' = stored /\ acked' = acked
    BY <2>1 DEF Stored
  <2>2. CASE acked.n < t.n /\ t.n = acked'.n /\ stored' = t.to /\ acked'.later = acked.later \union {t.to}
    <3>1. \A n \in Nat : n <= acked.n => n # acked'.n
      BY <1>w, <2>2
    <3> QED BY <2>2, <3>1 DEF Stored
  <2> QED BY <2>1, <2>2
<1>7. ReplyStory'
  <2>1. \A w \in 1..Len(worker') : worker'[w].pc = "reply" => w \in Agent!Workers /\ worker'[w] = worker[w]
    BY <1>2
  <2>2. \A w \in Agent!Workers : worker[w].pc = "reply" /\ acked.past < worker[w].n =>
            /\ file'.site \in {worker[w].to} \union acked'.later /\ stored' \in {worker[w].to} \union acked'.later
            /\ worker[w].n = acked'.n => file'.site = worker[w].to /\ stored' = worker[w].to
    BY <1>6, WorkersAre DEF ReplyStory, Counted
  <2>3. \A i \in DOMAIN outbox : outbox[i].kind = "reply" /\ acked.past < outbox[i].n =>
            /\ file'.site \in {outbox[i].site} \union acked'.later /\ stored' \in {outbox[i].site} \union acked'.later
            /\ outbox[i].n = acked'.n => file'.site = outbox[i].site /\ stored' = outbox[i].site
    BY <1>6, MessagesAre DEF ReplyStory, Counted
  <2>4. acked'.site # Agent!NoSite => /\ file'.site \in {acked'.site} \union acked'.later
                                      /\ stored' \in {acked'.site} \union acked'.later
    BY DEF ReplyStory
  <2> QED BY <1>w, <2>1, <2>2, <2>3, <2>4 DEF ReplyStory, Stored
<1> QED BY <1>4, <1>5, <1>7 DEF MetaInv

\* or another one at it: that of a set_meta,
LEMMA SetMetaKeeps ==
    ASSUME MetaInv, AgentTyped', NEW s \in Sites, Agent!SetMeta(s)
    PROVE  MetaInv'
<1> DEFINE t == Agent!Thread("dump", s, acked.n + 1, TRUE)
<1>0. AgentTyped /\ Counted /\ StoreStory /\ ReplyStory
  BY DEF MetaInv
<1>n. acked.n \in Nat /\ acked.past \in Nat /\ acked.n + 1 \in Nat /\ DOMAIN acked = {"n", "past", "site", "later"}
  BY <1>0 DEF AgentTyped, Acked
<1>t. t \in Threads /\ t.n = acked.n + 1 /\ t.pc = "dump" /\ t.to = s /\ t.fd = "tmp"
  <2>1. t \in Threads
    BY <1>0, <1>n, NewThreads
  <2> QED BY <2>1 DEF Agent!Thread
<1>1. UNCHANGED <<run, outbox, file>> /\ run # "down" /\ worker' = Append(worker, t) /\ stored' = s
  BY DEF Agent!SetMeta, Agent!OnMessage, Agent!agent
<1> HIDE DEF t
<1>3. acked'.n = acked.n + 1 /\ acked.n < acked'.n /\ acked.n <= acked'.n
  BY <1>n DEF Agent!SetMeta, Agent!Void
<1>5. CASE ~ NobodyStores
  <2>1. Agent!Saving
    BY <1>5 DEF NobodyStores, Storing, Agent!Saving, Agent!Saves
  <2>2. acked' = [n |-> acked.n + 1, past |-> acked.n + 1, site |-> Agent!NoSite, later |-> {}]
    BY <2>1 DEF Agent!SetMeta, Agent!Void
  <2>3. ~ Alone'
    BY <1>n, <2>2 DEF Alone
  <2>4. t.n <= acked'.n /\ acked.n <= acked'.n /\ acked'.past <= acked'.n
    BY <1>n, <1>t, <2>2
  <2>5. Counted'
    BY <1>0, <1>1, <1>t, <2>4, OneSaverMore
  <2> QED BY <2>3, <2>5, NothingPromised
<1>6. CASE NobodyStores
  <2>1. ~ Agent!Saving
    BY <1>6 DEF NobodyStores, Storing, Agent!Saving, Agent!Saves
  <2>2. acked' = [acked EXCEPT !.n = @ + 1, !.later = @ \union {s}]
    BY <2>1 DEF Agent!SetMeta
  <2>3. acked'.past = acked.past /\ acked'.later = acked.later \union {s} /\ acked'.site = acked.site
    BY <1>n, <2>2
  <2>4. t.n <= acked'.n /\ acked.n < t.n /\ t.n = acked'.n
    BY <1>n, <1>t, <1>3
  <2> QED BY <1>0, <1>1, <1>t, <1>3, <1>6, <2>3, <2>4, SaverComes
<1> QED BY <1>5, <1>6

\* and that of a dns_probe.
LEMMA RememberKeeps ==
    ASSUME MetaInv, AgentTyped', Agent!Remember
    PROVE  MetaInv'
<1> DEFINE t == Agent!Thread("dump", site, 0, FALSE)
<1>0. AgentTyped /\ Counted /\ StoreStory /\ ReplyStory /\ site \in Sites
  BY DEF MetaInv, AgentTyped
<1>n. acked.n \in Nat /\ acked.past \in Nat /\ 0 \in Nat /\ 0 <= acked.n /\ acked.n <= acked.n
  BY <1>0 DEF AgentTyped, Acked
<1>t. t \in Threads /\ t.n = 0 /\ t.pc = "dump" /\ t.fd = "tmp"
  <2>1. t \in Threads
    BY <1>0, <1>n, NewThreads
  <2> QED BY <2>1 DEF Agent!Thread
<1>1. UNCHANGED <<run, outbox, file, stored>> /\ run # "down" /\ worker' = Append(worker, t)
  BY DEF Agent!Remember, Agent!OnMessage, Agent!agent
<1> HIDE DEF t
<1>5. CASE ~ NobodyStores
  <2>1. Agent!Saving
    BY <1>5 DEF NobodyStores, Storing, Agent!Saving, Agent!Saves
  <2>2. acked' = [n |-> acked.n, past |-> acked.n, site |-> Agent!NoSite, later |-> {}]
    BY <2>1 DEF Agent!Remember, Agent!Void
  <2>3. ~ Alone'
    BY <1>n, <2>2 DEF Alone
  <2>4. t.n <= acked'.n /\ acked.n <= acked'.n /\ acked'.past <= acked'.n
    BY <1>n, <1>t, <2>2
  <2>5. Counted'
    BY <1>0, <1>1, <1>t, <2>4, OneSaverMore
  <2> QED BY <2>3, <2>5, NothingPromised
<1>6. CASE NobodyStores
  <2>1. ~ Agent!Saving
    BY <1>6 DEF NobodyStores, Storing, Agent!Saving, Agent!Saves
  <2>2. acked' = acked
    BY <2>1 DEF Agent!Remember
  <2> QED BY <1>0, <1>1, <1>n, <1>t, <1>6, <2>2, SaverComes
<1> QED BY <1>5, <1>6

\* A thread whose set_meta is stored goes on or returns.
LEMMA ThreadKeepsMeta ==
    ASSUME MetaInv, AgentTyped', NEW w \in Agent!Workers, worker[w].pc \notin {"dump", "open", "write", "replace"},
           UNCHANGED <<acked, file, stored>>, run' # "down", NEW pc \in {"apply", "move", "bounce"}, NEW s \in Sites,
           \/ worker' = [worker EXCEPT ![w].pc = pc] \/ worker' = [worker EXCEPT ![w].pc = pc, ![w].old = s]
           \/ Agent!Returns(w),
           NEW m \in Message,
           outbox' = outbox \/ outbox' = Append(outbox, m),
           m.n = 0 \/ (worker[w].pc = "reply" /\ m.n = worker[w].n /\ m.site = worker[w].to)
    PROVE  MetaInv'
<1>0. AgentTyped /\ pc \in Places
  BY DEF MetaInv, Places
<1>1. \A i \in DOMAIN outbox' : (\E j \in DOMAIN outbox : outbox'[i] = outbox[j]) \/ outbox'[i] = m
  <2>1. CASE outbox' = outbox
    BY <2>1
  <2>2. CASE outbox' = Append(outbox, m)
    BY <1>0, <2>2, MessageAdded
  <2> QED BY <2>1, <2>2
<1>2. \A i \in DOMAIN outbox' :
          \/ \E j \in DOMAIN outbox : outbox'[i] = outbox[j]
          \/ outbox'[i].n = 0
          \/ \E v \in Agent!Workers : /\ worker[v].pc = "reply" /\ outbox'[i].n = worker[v].n
                                      /\ outbox'[i].site = worker[v].to
  BY <1>1
<1>3. UNCHANGED <<acked, file, stored>> /\ (run' = "down" => worker' = <<>> /\ outbox' = <<>>)
  OBVIOUS
<1>4. CASE worker' = [worker EXCEPT ![w].pc = pc] \/ worker' = [worker EXCEPT ![w].pc = pc, ![w].old = s]
  <2> DEFINE f == [v \in 1..Len(worker') |-> v]
  <2>1. \A v \in 1..Len(worker') : f[v] = v
    OBVIOUS
  <2> HIDE DEF f
  <2>2. /\ Len(worker') = Len(worker) /\ worker'[w].pc = pc /\ worker'[w].to = worker[w].to /\ worker'[w].n = worker[w].n
        /\ \A v \in Agent!Workers : v # w => worker'[v] = worker[v]
    BY <1>0, <1>4, ThreadMoves
  <2>3. Agent!Workers = 1..Len(worker')
    BY <2>2 DEF Agent!Workers
  <2>4. \A v \in 1..Len(worker') :
          \/ worker'[v].n = 0 /\ worker'[v].pc = "reply"
          \/ /\ f[v] \in Agent!Workers /\ worker'[v].n = worker[f[v]].n /\ worker'[v].to = worker[f[v]].to
             /\ worker'[v].pc = "reply" => worker[f[v]].pc = "reply"
             /\ worker'[v].pc \in {"dump", "open", "write", "replace"} => worker'[v] = worker[f[v]]
    BY <2>1, <2>2, <2>3
  <2>5. \A u, v \in 1..Len(worker') : f[u] = f[v] => u = v
    BY <2>1
  <2> QED BY <1>2, <1>3, <2>4, <2>5, MetaQuiet
<1>5. CASE Agent!Returns(w)
  <2> DEFINE f == [v \in 1..Len(worker') |-> Behind(w, v)]
  <2>1. \A v \in 1..Len(worker') : f[v] = Behind(w, v)
    OBVIOUS
  <2> HIDE DEF f
  <2>2. /\ \A v \in 1..Len(worker') : Behind(w, v) \in Agent!Workers /\ worker'[v] = worker[Behind(w, v)]
        /\ \A v, u \in 1..Len(worker') : Behind(w, v) = Behind(w, u) => v = u
    BY <1>0, <1>5, ThreadReturns
  <2>4. \A v \in 1..Len(worker') :
          \/ worker'[v].n = 0 /\ worker'[v].pc = "reply"
          \/ /\ f[v] \in Agent!Workers /\ worker'[v].n = worker[f[v]].n /\ worker'[v].to = worker[f[v]].to
             /\ worker'[v].pc = "reply" => worker[f[v]].pc = "reply"
             /\ worker'[v].pc \in {"dump", "open", "write", "replace"} => worker'[v] = worker[f[v]]
    BY <2>1, <2>2
  <2>5. \A u, v \in 1..Len(worker') : f[u] = f[v] => u = v
    BY <2>1, <2>2
  <2> QED BY <1>2, <1>3, <2>4, <2>5, MetaQuiet
<1> QED BY <1>4, <1>5

\* The answer goes out, then apply_meta() in its steps.
LEMMA MovesKeepMeta ==
    ASSUME MetaInv, AgentTyped', NEW w \in Agent!Workers,
           Agent!Reply(w) \/ Agent!Apply(w) \/ Agent!Retopic(w) \/ Agent!Bounce(w)
    PROVE  MetaInv'
<1>0. AgentTyped /\ site \in Sites /\ worker[w].n \in Nat /\ worker[w].to \in Sites
  BY WorkersAre DEF MetaInv, AgentTyped
<1>m. /\ Agent!Msg(Agent!Online, site) \in Message /\ Agent!Msg(Agent!Offline, site) \in Message
      /\ Agent!Msg(Agent!Online, site).n = 0 /\ Agent!Msg(Agent!Offline, site).n = 0
  BY <1>0, Messages, Zero DEF Agent!Msg
<1>1. CASE Agent!Reply(w)
  <2> DEFINE m == [kind |-> "reply", site |-> worker[w].to, n |-> worker[w].n]
  <2>1. m \in Message /\ m.n = worker[w].n /\ m.site = worker[w].to
    BY <1>0, Messages
  <2>2. /\ worker[w].pc = "reply" /\ run' # "down" /\ UNCHANGED <<acked, file, stored>> /\ outbox' = Append(outbox, m)
        /\ worker' = [worker EXCEPT ![w].pc = "apply"] \/ Agent!Returns(w)
    BY <1>1 DEF Agent!Reply, Agent!At, Agent!Goes, Agent!agent
  <2> HIDE DEF m
  <2> QED BY <1>0, <2>1, <2>2, ThreadKeepsMeta
<1>2. CASE Agent!Apply(w)
  <2>1. /\ worker[w].pc = "apply" /\ run' # "down" /\ UNCHANGED <<acked, file, stored>>
        /\ outbox' = outbox \/ outbox' = Append(outbox, Agent!Msg(Agent!Offline, site))
        /\ worker' = [worker EXCEPT ![w].pc = "move", ![w].old = site]
    BY <1>2 DEF Agent!Apply, Agent!At
  <2> QED BY <1>0, <1>m, <2>1, ThreadKeepsMeta
<1>3. CASE Agent!Retopic(w)
  <2>1. /\ worker[w].pc = "move" /\ run' # "down" /\ UNCHANGED <<acked, file, stored>>
        /\ outbox' = outbox \/ outbox' = Append(outbox, Agent!Msg(Agent!Online, site))
        /\ worker' = [worker EXCEPT ![w].pc = "bounce"] \/ Agent!Returns(w)
    BY <1>3 DEF Agent!Retopic, Agent!At, Agent!Goes
  <2> QED BY <1>0, <1>m, <2>1, ThreadKeepsMeta
<1>4. CASE Agent!Bounce(w)
  <2>1. /\ worker[w].pc = "bounce" /\ run' # "down" /\ UNCHANGED <<acked, file, stored, outbox>> /\ Agent!Returns(w)
    BY <1>4 DEF Agent!Bounce, Agent!At
  <2> QED BY <1>0, <1>m, <2>1, ThreadKeepsMeta
<1> QED BY <1>1, <1>2, <1>3, <1>4

LEMMA MetaStep ==
    ASSUME MetaInv, [Agent!Next]_Agent!vars
    PROVE  MetaInv'
<1>0. AgentTyped
  BY DEF MetaInv
<1>1. AgentTyped'
  BY <1>0, AgentTypes
<1>2. CASE \/ UNCHANGED Agent!vars
           \/ Agent!HostAges \/ Agent!HostLeaves \/ Agent!HostReturns \/ Agent!Heal \/ Agent!Transmit
           \/ Agent!Connect \/ Agent!OnDisconnect \/ \E left \in {"all", "http", "nothing"} : Agent!Drop(left)
  <2>1. UNCHANGED <<run, worker, outbox, acked, file, stored>>
    BY <1>2 DEF Agent!vars, Agent!agent, Agent!broker, Agent!HostAges, Agent!HostLeaves, Agent!HostReturns, Agent!Heal,
       Agent!Transmit, Agent!Connect, Agent!OnDisconnect, Agent!Drop
  <2>2. \A i \in DOMAIN outbox' : (\E j \in DOMAIN outbox : outbox'[i] = outbox[j]) \/ outbox'[i].n = 0
    BY <2>1
  <2> QED BY <1>1, <2>1, <2>2, BoxMoves
<1>3. CASE Agent!Start
  BY <1>1, <1>3, StartKeepsMeta
<1>4. CASE Agent!Deliver
  BY <1>1, <1>4, AnswerKeeps
<1>5. CASE Agent!OnConnect \/ Agent!Shutdown
  BY <1>1, <1>5, StatusKeepsMeta
<1>6. CASE Agent!Ended \/ Agent!Crash
  BY <1>1, <1>6, EndKeepsMeta
<1>7. ASSUME NEW s \in Sites, Agent!SetMeta(s) PROVE MetaInv'
  BY <1>1, <1>7, SetMetaKeeps
<1>8. CASE Agent!HandleCommand
  BY <1>1, <1>8, CommandKeepsMeta
<1>a. CASE Agent!Remember
  BY <1>1, <1>a, RememberKeeps
<1>9. ASSUME NEW w \in Agent!Workers, Agent!Worker(w) PROVE MetaInv'
  BY <1>1, <1>9, SaveKeeps, FailureKeeps, MovesKeepMeta DEF Agent!Worker, Agent!Save
<1> QED BY <1>2, <1>3, <1>4, <1>5, <1>6, <1>7, <1>8, <1>9, <1>a DEF Agent!Next

LEMMA MetaStart ==
    ASSUME Agent!Init
    PROVE  MetaInv
<1>1. /\ run = "up" /\ site = Configured /\ mqttOk = FALSE /\ will = Configured /\ outbox = <<>> /\ worker = <<>>
      /\ file = [site |-> Agent!NoSite, tmp |-> Agent!NoSite] /\ stored = Agent!NoSite /\ session = Agent!NoSession
      /\ retained = [s \in Sites |-> Agent!NoSite]
      /\ acked = [n |-> 0, past |-> 0, site |-> Agent!NoSite, later |-> {}] /\ excused = FALSE
  BY DEF Agent!Init
<1>2. AgentTyped
  BY <1>1, EdgeAssumption, Zero DEF AgentTyped, Agent!Texts, Kept, Acked
<1>3. Agent!Workers = {} /\ DOMAIN outbox = {}
  BY <1>1 DEF Agent!Workers
<1>4. Counted /\ StoreStory /\ ReplyStory
  BY <1>1, <1>3 DEF Counted, StoreStory, ReplyStory
<1> QED BY <1>2, <1>4 DEF MetaInv

\* Once a set_meta is answered its site, or one that came later, is what the agent
\* starts with, whenever it dies, and whatever a dns_probe or another set_meta
\* saves after it or fails to save, as long as no two save at once and its own save
\* did not fail: what is opened first is a file of its own, and os.replace() puts
\* it in place when it is complete: save_state().
THEOREM MetaAlwaysSurvives == Agent!Spec => []MetaSurvives
<1>1. Agent!Init => MetaInv
  BY MetaStart
<1>2. MetaInv /\ [Agent!Next]_Agent!vars => MetaInv'
  BY MetaStep
<1>3. MetaInv => MetaSurvives
  <2> SUFFICES ASSUME MetaInv, acked.site # Agent!NoSite
               PROVE  Agent!LoadState \in {acked.site} \union acked.later
    BY DEF MetaSurvives, Agent!MetaSurvives
  <2>1. acked.site \in Sites /\ acked.later \subseteq Sites
    BY DEF MetaInv, AgentTyped, Acked
  <2>2. file.site \in {acked.site} \union acked.later
    BY DEF MetaInv, ReplyStory
  <2> QED BY <2>1, <2>2 DEF Agent!LoadState
<1> QED BY <1>1, <1>2, <1>3, PTL DEF Agent!Spec

-----------------------------------------------------------------------------
(* The agent: what is left of its types, and its limits.                   *)

HostState == [up : BOOLEAN, lwt : BOOLEAN, heard : BOOLEAN, site : Sites \union {Agent!NoSite}]

FallbackTyped == fails \in 0..Threshold /\ useHttp \in BOOLEAN /\ net \in {"all", "http", "nothing"}

\* Every thread and every set_meta was a move.
Limited == moves \in 0..MaxMoves /\ Len(worker) <= moves /\ acked.n <= moves

\* What the host hears leaves it in a state it has.
LEMMA HostHears ==
    ASSUME AgentTyped, host \in HostState
    PROVE  /\ \A state : \A s \in Sites \union {Agent!NoSite} : Agent!HostGets(state, s) \in HostState
           /\ [host EXCEPT !.heard = TRUE, !.site = site] \in HostState
<1>1. site \in Sites
  BY DEF AgentTyped
<1>2. [host EXCEPT !.heard = TRUE, !.site = site] \in HostState
  BY <1>1 DEF HostState
<1>3. ASSUME NEW state, NEW s \in Sites \union {Agent!NoSite} PROVE Agent!HostGets(state, s) \in HostState
  <2> DEFINE l == (state = Agent!Offline)
             h == IF state = Agent!Online THEN TRUE ELSE host.heard
  <2>1. l \in BOOLEAN /\ h \in BOOLEAN
    BY DEF HostState
  <2>2. Agent!HostGets(state, s) = IF host.up THEN [host EXCEPT !.lwt = l, !.heard = h, !.site = s] ELSE host
    BY DEF Agent!HostGets
  <2> HIDE DEF l, h
  <2>3. [host EXCEPT !.lwt = l, !.heard = h, !.site = s] \in HostState
    BY <2>1 DEF HostState
  <2> QED BY <2>2, <2>3
<1> QED BY <1>2, <1>3

LEMMA HostTypesKept ==
    ASSUME AgentTyped, host \in HostState, [Agent!Next]_Agent!vars
    PROVE  host' \in HostState
<1>1. ASSUME Agent!WillFires PROVE host' \in HostState
  <2>1. host' = Agent!HostGets(Agent!Offline, session.will) /\ session.will \in Sites \union {Agent!NoSite}
    BY <1>1 DEF Agent!WillFires, Agent!Status, AgentTyped, Session
  <2> QED BY <2>1, HostHears
<1>2. CASE Agent!Deliver
  <2>1. CASE host' = host
    BY <2>1
  <2>2. CASE host' # host
    <3>1. outbox # <<>> /\ host' = Agent!HostGets(Head(outbox).kind, Head(outbox).site)
      BY <1>2, <2>2 DEF Agent!Deliver, Agent!Status
    <3>2. Head(outbox) \in Message
      BY <3>1, HeadTailProperties DEF AgentTyped
    <3>3. Head(outbox).site \in Sites
      BY <3>2 DEF Message
    <3> QED BY <3>1, <3>3, HostHears
  <2> QED BY <2>1, <2>2
<1>3. CASE Agent!HostAges \/ Agent!HostLeaves
  <2>1. host' = [host EXCEPT !.heard = FALSE] \/ host' = [host EXCEPT !.up = FALSE]
    BY <1>3 DEF Agent!HostAges, Agent!HostLeaves
  <2> QED BY <2>1 DEF HostState
<1>4. CASE Agent!HostReturns
  <2>1. CASE host' = [host EXCEPT !.up = TRUE]
    BY <2>1 DEF HostState
  <2>2. CASE host' # [host EXCEPT !.up = TRUE]
    <3>1. PICK last \in Sites :
             host' = [up |-> TRUE, lwt |-> retained[last] = Agent!Offline, site |-> last,
                      heard |-> host.heard \/ \E s \in {s \in Sites : retained[s] # Agent!NoSite} : retained[s] = Agent!Online]
      BY <1>4, <2>2 DEF Agent!HostReturns
    <3> DEFINE l == (retained[last] = Agent!Offline)
               h == (host.heard \/ \E s \in {s \in Sites : retained[s] # Agent!NoSite} : retained[s] = Agent!Online)
    <3>2. l \in BOOLEAN /\ h \in BOOLEAN /\ host' = [up |-> TRUE, lwt |-> l, site |-> last, heard |-> h]
      BY <3>1
    <3> HIDE DEF l, h
    <3> QED BY <3>2 DEF HostState
  <2> QED BY <2>1, <2>2
<1>5. CASE Agent!Transmit
  <2>1. host' = host \/ host' = [host EXCEPT !.heard = TRUE, !.site = site]
    BY <1>5 DEF Agent!Transmit, Agent!Reading, Agent!SendHttp
  <2> QED BY <2>1, HostHears
<1>6. CASE \/ UNCHANGED Agent!vars \/ Agent!Connect \/ Agent!OnConnect \/ Agent!OnDisconnect \/ Agent!Heal
           \/ Agent!Shutdown \/ Agent!Ended \/ Agent!Start \/ Agent!Remember \/ Agent!HandleCommand
           \/ \E s \in Sites : Agent!SetMeta(s)
           \/ \E w \in Agent!Workers : Agent!Save(w) \/ Agent!Reply(w) \/ Agent!Apply(w) \/ Agent!Retopic(w)
  <2>1. host' = host
    BY <1>6 DEF Agent!vars, Agent!broker, Agent!Connect, Agent!OnConnect, Agent!OnDisconnect, Agent!Heal, Agent!Shutdown,
       Agent!Ended, Agent!Start, Agent!HandleCommand, Agent!OnMessage, Agent!SetMeta, Agent!Remember, Agent!Save,
       Agent!Dump, Agent!Open, Agent!Write, Agent!Replace, Agent!SaveFails, Agent!Reply, Agent!Apply, Agent!Retopic
  <2> QED BY <2>1
<1>7. CASE Agent!Crash \/ \E left \in {"all", "http", "nothing"} : Agent!Drop(left)
  <2>1. Agent!WillFires \/ host' = host
    BY <1>7 DEF Agent!Crash, Agent!Drop, Agent!broker
  <2> QED BY <1>1, <2>1
<1>8. ASSUME NEW w \in Agent!Workers, Agent!Bounce(w) PROVE host' \in HostState
  <2>1. Agent!WillFires \/ host' = host
    BY <1>8 DEF Agent!Bounce
  <2> QED BY <1>1, <2>1
<1> QED BY <1>2, <1>3, <1>4, <1>5, <1>6, <1>7, <1>8 DEF Agent!Next, Agent!Worker

LEMMA FallbackTypes ==
    ASSUME FallbackTyped, [Agent!Next]_Agent!vars
    PROVE  FallbackTyped'
<1>0. Threshold \in Nat
  BY EdgeAssumption
<1>1. net' = net \/ net' \in {"all", "http", "nothing"}
  BY DEF Agent!Next, Agent!Worker, Agent!vars, Agent!agent, Agent!Deliver, Agent!HostAges, Agent!HostLeaves,
     Agent!HostReturns, Agent!Connect, Agent!OnConnect, Agent!OnDisconnect, Agent!Heal, Agent!Transmit, Agent!Shutdown,
     Agent!Ended, Agent!Crash, Agent!Start, Agent!Drop, Agent!SetMeta, Agent!HandleCommand, Agent!OnMessage,
     Agent!Remember, Agent!Save, Agent!Dump, Agent!Open, Agent!Write, Agent!Replace, Agent!SaveFails, Agent!Reply,
     Agent!Apply, Agent!Retopic, Agent!Bounce
<1>2. CASE Agent!Transmit
  <2>1. fails' = fails \/ (fails < Threshold /\ fails' = fails + 1)
    BY <1>2 DEF Agent!Transmit
  <2>2. fails' \in 0..Threshold
    BY <1>0, <2>1 DEF FallbackTyped
  <2>3. useHttp' = useHttp \/ useHttp' = (useHttp \/ fails' >= Threshold)
    BY <1>2 DEF Agent!Transmit
  <2>4. useHttp' \in BOOLEAN
    BY <2>3 DEF FallbackTyped
  <2> QED BY <1>1, <2>2, <2>4 DEF FallbackTyped
<1>3. CASE Agent!OnConnect \/ Agent!Start
  <2>1. fails' = 0 /\ useHttp' = FALSE
    BY <1>3 DEF Agent!OnConnect, Agent!Start
  <2>2. 0 \in 0..Threshold
    BY <1>0
  <2> QED BY <1>1, <2>1, <2>2 DEF FallbackTyped
<1>4. CASE ~ Agent!Transmit /\ ~ Agent!OnConnect /\ ~ Agent!Start
  <2>1. fails' = fails /\ useHttp' = useHttp
    BY <1>4 DEF Agent!Next, Agent!Worker, Agent!vars, Agent!agent, Agent!Deliver, Agent!HostAges, Agent!HostLeaves,
     Agent!HostReturns, Agent!Connect, Agent!OnDisconnect, Agent!Heal, Agent!Shutdown,
     Agent!Ended, Agent!Crash, Agent!Drop, Agent!SetMeta, Agent!HandleCommand, Agent!OnMessage,
     Agent!Remember, Agent!Save, Agent!Dump, Agent!Open, Agent!Write, Agent!Replace, Agent!SaveFails, Agent!Reply,
     Agent!Apply, Agent!Retopic, Agent!Bounce
  <2> QED BY <1>1, <2>1 DEF FallbackTyped
<1> QED BY <1>2, <1>3, <1>4

\* Threads go on one by one, or return.
LEMMA ThreadsAreFew ==
    ASSUME AgentTyped, NEW w \in Agent!Workers, Agent!Worker(w)
    PROVE  Len(worker') <= Len(worker) /\ UNCHANGED acked
<1>1. UNCHANGED acked
  BY DEF Agent!Worker, Agent!Save, Agent!Dump, Agent!Open, Agent!Write, Agent!Replace, Agent!SaveFails, Agent!Reply,
     Agent!Apply, Agent!Retopic, Agent!Bounce
<1>2. /\ Len(worker) \in Nat /\ site \in Sites
      /\ Agent!NoSite \in Agent!Texts /\ \A t \in Sites \union {Agent!NoSite, Agent!Bare} : t \in Agent!Texts
  BY WorkersAre DEF AgentTyped, Agent!Texts
<1>3. CASE Agent!Returns(w)
  <2>1. Len(worker') = Len(worker) - 1
    BY <1>3, ThreadReturns
  <2> QED BY <1>1, <1>2, <2>1
<1>4. CASE Agent!Replace(w) \/ Agent!SaveFails(w)
  BY <1>1, <1>2, <1>4, ReplaceMoves, SaveGivesUp
<1>6. CASE Agent!Dump(w) \/ Agent!Write(w)
  <2>1. PICK pc \in Places, text \in Agent!Texts : worker' = [worker EXCEPT ![w].pc = pc, ![w].text = text]
    <3>1. CASE Agent!Write(w)
      <4>1. worker' = [worker EXCEPT ![w].pc = "replace", ![w].text = Agent!NoSite]
        BY <3>1 DEF Agent!Write
      <4> QED BY <1>2, <4>1 DEF Places
    <3>2. CASE Agent!Dump(w)
      <4>1. worker' = [worker EXCEPT ![w].pc = "open", ![w].text = Text]
        BY <3>2 DEF Agent!Dump, Text
      <4>2. Text \in Agent!Texts
        BY <1>2 DEF AgentTyped, Text
      <4> QED BY <4>1, <4>2 DEF Places
    <3> QED BY <1>6, <3>1, <3>2
  <2>2. Len(worker') = Len(worker)
    BY <2>1, SaveMoves
  <2> QED BY <1>1, <1>2, <2>2
<1>5. CASE Agent!Open(w) \/ Agent!Reply(w) \/ Agent!Apply(w) \/ Agent!Retopic(w)
  <2>1. CASE ~ Agent!Returns(w)
    <3>1. PICK pc \in Places : worker' = [worker EXCEPT ![w].pc = pc] \/ worker' = [worker EXCEPT ![w].pc = pc, ![w].old = site]
      <4>1. \/ worker' = [worker EXCEPT ![w].pc = "write"]
            \/ worker' = [worker EXCEPT ![w].pc = "apply"] \/ worker' = [worker EXCEPT ![w].pc = "bounce"]
            \/ worker' = [worker EXCEPT ![w].pc = "move", ![w].old = site]
        BY <1>5, <2>1 DEF Agent!Open, Agent!Reply, Agent!Apply, Agent!Retopic, Agent!Goes
      <4> QED BY <4>1 DEF Places
    <3>2. Len(worker') = Len(worker)
      BY <1>2, <3>1, ThreadMoves
    <3> QED BY <1>1, <1>2, <3>2
  <2> QED BY <1>3, <2>1
<1>7. CASE Agent!Bounce(w)
  BY <1>3, <1>7 DEF Agent!Bounce
<1> QED BY <1>4, <1>5, <1>6, <1>7 DEF Agent!Worker, Agent!Save

LEMMA LimitsKept ==
    ASSUME AgentTyped, AgentTyped', Limited, [Agent!Next]_Agent!vars
    PROVE  Limited'
<1>0. /\ Len(worker) \in Nat /\ acked.n \in Nat /\ moves \in Nat /\ moves <= MaxMoves /\ MaxMoves \in Nat
      /\ Len(worker) <= moves /\ acked.n <= moves
  BY WorkersAre, MessagesAre, EdgeAssumption DEF Limited
<1>a. Len(worker') \in Nat /\ acked'.n \in Nat
  BY LenProperties DEF AgentTyped, Acked
<1>1. SUFFICES /\ moves' = moves \/ (moves < MaxMoves /\ moves' = moves + 1)
               /\ Len(worker') <= moves' /\ acked'.n <= moves'
  BY <1>0 DEF Limited
<1>m. moves' = moves \/ (moves < MaxMoves /\ moves' = moves + 1)
  BY DEF Agent!Next, Agent!Worker, Agent!vars, Agent!Deliver, Agent!HostAges, Agent!HostLeaves, Agent!Move, Agent!Still,
     Agent!HostReturns, Agent!Connect, Agent!OnConnect, Agent!OnDisconnect, Agent!Heal, Agent!Transmit, Agent!Shutdown,
     Agent!Ended, Agent!Crash, Agent!Start, Agent!Drop, Agent!SetMeta, Agent!HandleCommand, Agent!OnMessage,
     Agent!Remember, Agent!Save, Agent!Dump, Agent!Open, Agent!Write, Agent!Replace, Agent!SaveFails, Agent!Reply,
     Agent!Apply, Agent!Retopic, Agent!Bounce
<1>2. CASE \/ UNCHANGED Agent!vars \/ Agent!HostAges \/ Agent!HostLeaves \/ Agent!HostReturns
           \/ Agent!Connect \/ Agent!OnConnect \/ Agent!OnDisconnect \/ Agent!Heal \/ Agent!Transmit \/ Agent!Shutdown
           \/ Agent!Start \/ \E left \in {"all", "http", "nothing"} : Agent!Drop(left)
  <2>1. worker' = worker /\ acked' = acked
    BY <1>2 DEF Agent!vars, Agent!HostAges, Agent!HostLeaves, Agent!HostReturns, Agent!Connect, Agent!OnConnect,
       Agent!OnDisconnect, Agent!Heal, Agent!Transmit, Agent!Shutdown, Agent!Start, Agent!Drop
  <2> QED BY <1>0, <1>m, <2>1
<1>3. CASE Agent!Ended \/ Agent!Crash
  <2>1. worker' = <<>> /\ acked' = acked
    BY <1>3 DEF Agent!Ended, Agent!Crash
  <2>2. Len(worker') = 0
    BY <2>1
  <2> QED BY <1>0, <1>m, <2>1, <2>2
<1>4. CASE Agent!Deliver
  <2>1. outbox # <<>> /\ worker' = worker /\ (acked' = acked \/ Agent!Answered(Head(outbox)))
    BY <1>4 DEF Agent!Deliver
  <2>2. Head(outbox) \in Message
    BY <2>1, HeadTailProperties DEF AgentTyped
  <2>3. acked'.n = acked.n
    BY <2>1, <2>2, AckedMoves
  <2> QED BY <1>0, <1>m, <2>1, <2>3
<1>5. ASSUME NEW t \in Threads, worker' = Append(worker, t), moves' = moves + 1,
             acked'.n = acked.n \/ acked'.n = acked.n + 1
      PROVE  Len(worker') <= moves' /\ acked'.n <= moves'
  <2>1. Len(worker') = Len(worker) + 1
    BY <1>5, ThreadStarts
  <2> QED BY <1>0, <1>5, <2>1
<1>6. ASSUME NEW s \in Sites, Agent!SetMeta(s) PROVE Len(worker') <= moves' /\ acked'.n <= moves'
  <2> DEFINE t == Agent!Thread("dump", s, acked.n + 1, TRUE)
  <2>1. t \in Threads
    <3>1. acked.n + 1 \in Nat
      BY <1>0
    <3>2. "dump" \in {"dump", "reply"}
      OBVIOUS
    <3> QED BY <3>1, <3>2, NewThreads
  <2>2. worker' = Append(worker, t) /\ moves' = moves + 1
    BY <1>6 DEF Agent!SetMeta, Agent!OnMessage, Agent!Move
  <2>3. acked'.n = acked.n + 1
    <3>1. DOMAIN acked = {"n", "past", "site", "later"}
      BY DEF AgentTyped, Acked
    <3> QED BY <1>6, <3>1 DEF Agent!SetMeta, Agent!Void
  <2> HIDE DEF t
  <2> QED BY <1>5, <2>1, <2>2, <2>3
<1>7. CASE Agent!Remember \/ Agent!HandleCommand
  <2>1. PICK pc \in {"dump", "reply"} : worker' = Append(worker, Agent!Thread(pc, site, 0, FALSE))
    BY <1>7 DEF Agent!HandleCommand, Agent!Remember, Agent!OnMessage
  <2> DEFINE t == Agent!Thread(pc, site, 0, FALSE)
  <2>2. t \in Threads
    <3>1. site \in Sites
      BY DEF AgentTyped
    <3> QED BY <3>1, Zero, NewThreads
  <2>3. acked'.n = acked.n
    <3>1. CASE Agent!HandleCommand
      BY <3>1 DEF Agent!HandleCommand
    <3>2. CASE Agent!Remember
      <4>1. acked' = [n |-> acked.n, past |-> acked.n, site |-> Agent!NoSite, later |-> {}] \/ acked' = acked
        BY <3>2 DEF Agent!Remember, Agent!Void
      <4> QED BY <4>1
    <3> QED BY <1>7, <3>1, <3>2
  <2>4. worker' = Append(worker, t) /\ moves' = moves + 1
    BY <1>7, <2>1 DEF Agent!HandleCommand, Agent!Remember, Agent!OnMessage, Agent!Move
  <2> HIDE DEF t
  <2>5. acked'.n = acked.n \/ acked'.n = acked.n + 1
    BY <2>3
  <2> QED BY <1>m, <1>5, <2>2, <2>4, <2>5
<1>8. ASSUME NEW w \in Agent!Workers, Agent!Worker(w) PROVE Len(worker') <= moves' /\ acked'.n <= moves'
  <2>1. Len(worker') <= Len(worker) /\ UNCHANGED acked
    BY <1>8, ThreadsAreFew
  <2> QED BY <1>0, <1>a, <1>m, <2>1
<1> QED BY <1>m, <1>2, <1>3, <1>4, <1>6, <1>7, <1>8 DEF Agent!Next

\* The limits need what MetaInv counts: no thread or answer is ahead of the last
\* set_meta that came.
LimitedInv == MetaInv /\ host \in HostState /\ FallbackTyped /\ Limited

LEMMA LimitedHasTypes ==
    ASSUME LimitedInv
    PROVE  Agent!AgentTypeOK
<1>0. AgentTyped /\ Counted /\ FallbackTyped /\ Limited
  BY DEF LimitedInv, MetaInv
<1>1. /\ Len(worker) \in Nat /\ acked.n \in Nat /\ acked.past \in Nat /\ moves \in Nat /\ moves <= MaxMoves
      /\ MaxMoves \in Nat /\ Len(worker) <= moves /\ acked.n <= moves /\ acked.past <= acked.n
  BY <1>0, WorkersAre, MessagesAre, EdgeAssumption DEF Limited, Counted
<1>2. \A n \in Nat : n <= acked.n => n \in 0..MaxMoves
  BY <1>1
<1>3. acked \in [n : 0..MaxMoves, past : 0..MaxMoves, site : Sites \union {Agent!NoSite}, later : SUBSET Sites]
  <2>1. acked.n \in 0..MaxMoves /\ acked.past \in 0..MaxMoves
    BY <1>1, <1>2
  <2> HIDE DEF Agent!NoSite
  <2> QED BY <1>0, <2>1 DEF AgentTyped, Acked
<1>4. outbox \in Seq([kind : {Agent!Online, Agent!Offline, "reply"}, site : Sites, n : 0..MaxMoves])
  <2> DEFINE M == [kind : {Agent!Online, Agent!Offline, "reply"}, site : Sites, n : 0..MaxMoves]
  <2>1. outbox \in [1..Len(outbox) -> Message] /\ Len(outbox) \in Nat
    BY <1>0, LenProperties DEF AgentTyped
  <2>2. \A i \in 1..Len(outbox) : outbox[i] \in M
    <3> SUFFICES ASSUME NEW i \in 1..Len(outbox) PROVE outbox[i] \in M
      OBVIOUS
    <3>1. outbox[i] \in Message
      BY <2>1
    <3>2. outbox[i].n \in Nat /\ outbox[i].n <= acked.n
      BY <1>0, <2>1, <3>1 DEF Message, Counted
    <3>3. outbox[i].n \in 0..MaxMoves
      BY <1>2, <3>2
    <3> QED BY <3>1, <3>3 DEF Message
  <2> HIDE DEF M
  <2>3. outbox \in [1..Len(outbox) -> M]
    BY <2>1, <2>2
  <2>4. outbox \in Seq(M)
    BY <2>1, <2>3
  <2> QED BY <2>4 DEF M
<1>5. worker \in Seq([pc : {"dump", "open", "write", "replace", "reply", "apply", "move", "bounce"}, to : Sites,
                     old : Sites, n : 0..MaxMoves, text : Agent!Texts, fd : {"tmp", "site", "gone"}, after : BOOLEAN])
  <2> DEFINE T == [pc : {"dump", "open", "write", "replace", "reply", "apply", "move", "bounce"}, to : Sites,
                     old : Sites, n : 0..MaxMoves, text : Agent!Texts, fd : {"tmp", "site", "gone"}, after : BOOLEAN]
  <2>1. worker \in [1..Len(worker) -> Threads]
    BY <1>0, LenProperties DEF AgentTyped
  <2>2. \A w \in 1..Len(worker) : worker[w] \in T
    <3> SUFFICES ASSUME NEW w \in 1..Len(worker) PROVE worker[w] \in T
      OBVIOUS
    <3>1. worker[w] \in Threads
      BY <2>1
    <3>2. worker[w].n \in Nat /\ worker[w].n <= acked.n
      BY <1>0, <3>1 DEF Threads, Counted, Agent!Workers
    <3>3. worker[w].n \in 0..MaxMoves
      BY <1>2, <3>2
    <3> QED BY <3>1, <3>3 DEF Threads, Places
  <2> HIDE DEF T
  <2>3. worker \in [1..Len(worker) -> T]
    BY <2>1, <2>2
  <2>4. worker \in Seq(T)
    BY <1>1, <2>3
  <2> QED BY <2>4 DEF T
<1>6. /\ run \in {"up", "stopping", "down"} /\ site \in Sites /\ mqttOk \in BOOLEAN /\ will \in Sites
      /\ file \in [site : Agent!Texts, tmp : Agent!Texts] /\ stored \in Sites \union {Agent!NoSite}
      /\ session \in Session /\ retained \in Kept /\ excused \in BOOLEAN
  BY <1>0 DEF AgentTyped
<1>7. Len(worker) <= MaxMoves /\ moves \in 0..MaxMoves
  BY <1>1
<1>8. host \in HostState
  BY DEF LimitedInv
<1> HIDE DEF Agent!NoSite, Agent!Online, Agent!Offline, Agent!Texts
<1> QED BY <1>0, <1>3, <1>4, <1>5, <1>6, <1>7, <1>8 DEF Agent!AgentTypeOK, FallbackTyped, Session, Kept, HostState

\* The agent, its threads, the broker and the host keep their types; there is no
\* more than one thread for a command, and the tries that transmit() counts stop
\* at the threshold of the fallback.
THEOREM AgentHasTypes == Agent!Spec => []Agent!AgentTypeOK
<1>1. Agent!Init => LimitedInv
  <2> SUFFICES ASSUME Agent!Init PROVE LimitedInv
    OBVIOUS
  <2>1. MetaInv
    BY MetaStart
  <2>2. host \in HostState
    BY DEF Agent!Init, HostState
  <2>3. FallbackTyped
    <3>1. fails = 0 /\ useHttp = FALSE /\ net = "all"
      BY DEF Agent!Init
    <3>2. 0 \in 0..Threshold
      BY EdgeAssumption
    <3> QED BY <3>1, <3>2 DEF FallbackTyped
  <2>4. Limited
    <3>1. moves = 0 /\ Len(worker) = 0 /\ acked.n = 0
      BY DEF Agent!Init
    <3>2. 0 \in 0..MaxMoves /\ 0 <= 0
      BY EdgeAssumption
    <3> QED BY <3>1, <3>2 DEF Limited
  <2> QED BY <2>1, <2>2, <2>3, <2>4 DEF LimitedInv
<1>2. LimitedInv /\ [Agent!Next]_Agent!vars => LimitedInv'
  <2> SUFFICES ASSUME LimitedInv, [Agent!Next]_Agent!vars PROVE LimitedInv'
    OBVIOUS
  <2>1. MetaInv' /\ AgentTyped /\ AgentTyped'
    BY MetaStep DEF LimitedInv, MetaInv
  <2>2. (host \in HostState)' /\ FallbackTyped' /\ Limited'
    BY <2>1, HostTypesKept, FallbackTypes, LimitsKept DEF LimitedInv
  <2> QED BY <2>1, <2>2 DEF LimitedInv
<1>3. LimitedInv => Agent!AgentTypeOK
  BY LimitedHasTypes
<1> QED BY <1>1, <1>2, <1>3, PTL DEF Agent!Spec

-----------------------------------------------------------------------------
(* The board: what is left of its types, and its limits.                   *)

AnyNet == Nets \union {Node!None}
AnyHost == Hosts \union {Node!None}
WorkerPlaces == {"idle", "decide", "wait", "broker", "reach", "scan", "air", "resume", "finish", "free"}
WorkerState == [pc : WorkerPlaces, op : {Node!None, "scan", "test"}, c : Node!Settings, quiet : BOOLEAN, joined : AnyNet]
Radio == [conf : AnyNet, st : {"off", "joining", "up"}, on : AnyNet]
JoinPlaces == {"no", "key", "disconnect", "join"}
JoinPlace == [pc : JoinPlaces, to : AnyNet]
LinkPlaces == {"no", "lock", "stop", "start", "key"}
LinkPlace == [pc : LinkPlaces, to : AnyHost]

\* A restart is only under way when there is one left.
StoreTyped ==
    /\ cfg \in Node!Settings /\ flash \in Node!Settings /\ auto \in BOOLEAN /\ busy \in BOOLEAN
    /\ Len(commands) <= MaxCommands
    /\ boots \in 0..MaxBoots /\ (console = Node!Restarting => boots < MaxBoots)

\* A test goes to the broker with a host.
JobTyped == prov \in WorkerState /\ (prov.pc = "broker" => prov.c.link \in Hosts)

AirTyped ==
    /\ radio \in Radio /\ haveCreds \in BOOLEAN /\ scanning \in BOOLEAN /\ armed \in BOOLEAN /\ newUp \in BOOLEAN
    /\ wifiKey \in AnyNet /\ joining \in [Node!Joiners -> JoinPlace]

LinkTyped ==
    /\ linking \in [Node!Linkers -> LinkPlace] /\ supervisor \in {"idle", "start"}
    /\ linkKey \in AnyHost /\ mqttClient \in AnyHost /\ linkUp \in BOOLEAN

LEMMA SettingsAre ==
    ASSUME NEW s \in Node!Settings
    PROVE  /\ s.wifi \in AnyNet /\ s.link \in Hosts \union {"standalone"}
           /\ ~ Node!Standalone(s) => s.link \in Hosts
BY DEF Node!Settings, AnyNet, Node!Standalone

\* An answer adds no command.
LEMMA AnswerAddsNone ==
    ASSUME NodeTyped, NEW n
    PROVE  Len(Node!Answered(n)) = Len(commands)
<1> DEFINE S == Statuses
           x == IF commands[n] = "asked" THEN "answered" ELSE "answered twice"
<1>1. commands \in Seq(S) /\ x \in S /\ Node!Answered(n) = [commands EXCEPT ![n] = x]
  BY DEF NodeTyped, Statuses, Node!Answered
<1> HIDE DEF S, x
<1>2. DOMAIN commands = 1..Len(commands)
  BY <1>1, LenProperties
<1>3. CASE n \in 1..Len(commands)
  BY <1>1, <1>3, ExceptSeq
<1>4. CASE n \notin 1..Len(commands)
  <2>1. [commands EXCEPT ![n] = x] = commands
    <3>1. commands = [m \in 1..Len(commands) |-> commands[m]]
      BY <1>1, <1>2, LenProperties
    <3> QED BY <1>2, <1>4, <3>1
  <2> QED BY <1>1, <2>1
<1> QED BY <1>3, <1>4

LEMMA StoreTypes ==
    ASSUME ProvInv, StoreTyped, [Node!Next]_Node!vars
    PROVE  StoreTyped'
<1>0. /\ MaxCommands \in Nat /\ MaxBoots \in Nat /\ Len(commands) \in Nat /\ boots \in Nat
      /\ Len(commands) <= MaxCommands /\ NodeTyped
  <2>1. MaxCommands \in Nat /\ MaxBoots \in Nat
    BY EdgeAssumption
  <2>2. NodeTyped
    BY DEF ProvInv
  <2>3. Len(commands) \in Nat
    BY <2>2, LenProperties DEF NodeTyped
  <2>4. boots \in Nat /\ Len(commands) <= MaxCommands
    BY <2>1 DEF StoreTyped
  <2> QED BY <2>1, <2>2, <2>3, <2>4
<1>1. Node!Empty \in Node!Settings
  BY DEF Node!Empty, Node!Settings
<1>2. CASE \/ UNCHANGED Node!vars
           \/ \E t \in Node!Joiners : Node!ConnectWifi(t)
           \/ \E t \in Node!Linkers : Node!StartLink(t)
           \/ Node!Supervise \/ Node!SuperviseStarts
           \/ Node!GotIp \/ Node!Disconnected \/ Node!LostIp \/ Node!OnRetry
           \/ Node!ClientConnects \/ Node!ClientDisconnects
           \/ Node!TakeJob \/ Node!Decide \/ Node!Waited \/ Node!Broker \/ Node!Reached
           \/ Node!ScanStarts \/ Node!ScanEnds \/ Node!ScanResumes
  <2>1. UNCHANGED <<cfg, flash, auto, busy, commands, boots, console>>
    BY <1>2 DEF Node!vars, Node!store, Node!handler, Node!ConnectWifi, Node!StoreKey, Node!Leave, Node!Join,
       Node!StartLink, Node!LockLink, Node!StopClient, Node!StartClient, Node!StoreLinkKey,
       Node!Supervise, Node!SuperviseStarts, Node!GotIp, Node!Disconnected, Node!LostIp, Node!OnRetry,
       Node!ClientConnects, Node!ClientDisconnects, Node!TakeJob, Node!Decide, Node!Waited, Node!Broker, Node!Reached,
       Node!ScanStarts, Node!ScanEnds, Node!ScanResumes
  <2> QED BY <2>1 DEF StoreTyped
<1>3. ASSUME NEW status \in {"asked", "answered"}, Node!Command(status) PROVE Len(commands') <= MaxCommands
  <2>1. commands' = Append(commands, status) /\ Len(commands) < MaxCommands
    BY <1>3 DEF Node!Command
  <2>2. Len(commands') = Len(commands) + 1
    BY <1>0, <2>1, OneMore
  <2> QED BY <1>0, <2>1, <2>2
<1>c. Node!Reading # Node!Restarting
  BY DEF Node!Reading, Node!Restarting
<1>4. CASE Node!Told \/ Node!StartLong("scan") \/ Node!StartLong("test")
  <2>1. /\ UNCHANGED <<cfg, flash, auto, busy, boots>> /\ \E status \in {"asked", "answered"} : Node!Command(status)
        /\ console' = console \/ console'.pc = "start"
    BY <1>4 DEF Node!Told, Node!StartLong, Node!Claim, Node!store
  <2>2. console' = Node!Restarting => console = Node!Restarting
    BY <2>1 DEF Node!Restarting
  <2> QED BY <1>3, <2>1, <2>2 DEF StoreTyped
<1>5. ASSUME NEW f \in Node!Fields, NEW new \in Node!Settings, Node!Set(f, new) \/ Node!SetFails(f, new) PROVE StoreTyped'
  <2>1. /\ UNCHANGED <<auto, busy, boots, console>> /\ Node!Command("answered")
        /\ cfg' \in {cfg, new}
        /\ flash' = new \/ flash' \in [wifi : {flash.wifi, new.wifi}, link : {flash.link, new.link}]
    BY <1>5 DEF Node!Set, Node!SetFails, Node!store
  <2>2. flash' \in Node!Settings
    BY <2>1 DEF StoreTyped, Node!Settings
  <2> QED BY <1>3, <2>1, <2>2 DEF StoreTyped
<1>6. CASE Node!StartJob
  <2>1. /\ UNCHANGED <<cfg, flash, auto, boots>> /\ console.pc = "start" /\ console' = Node!Reading
        /\ busy' = busy \/ busy' = TRUE
        /\ commands' = commands \/ commands' = Node!Answered(Len(commands))
    BY <1>6 DEF Node!StartJob, Node!store
  <2>2. Len(commands') = Len(commands)
    BY <1>0, <2>1, AnswerAddsNone
  <2> QED BY <1>c, <2>1, <2>2 DEF StoreTyped
<1>7. CASE Node!Reboot \/ Node!FactoryReset
  <2>1. /\ UNCHANGED <<auto, busy, boots>> /\ Node!Command("answered") /\ boots < MaxBoots
        /\ cfg' \in {cfg, Node!Empty} /\ flash' \in {flash, Node!Empty}
    BY <1>7 DEF Node!Reboot, Node!FactoryReset, Node!store
  <2> QED BY <1>1, <1>3, <2>1 DEF StoreTyped
<1>8. CASE Node!Restart \/ Node!PowerCut
  <2>1. boots < MaxBoots /\ Node!BootAgain
    BY <1>8 DEF Node!Restart, Node!PowerCut, StoreTyped
  <2>2. /\ boots' = boots + 1 /\ cfg' = flash /\ flash' = flash /\ auto' \in BOOLEAN /\ busy' = FALSE
        /\ console' = Node!Reading
    BY <2>1 DEF Node!BootAgain, Node!Boot
  <2>3. Len(commands') = Len(commands)
    <3>1. commands' = [n \in 1..Len(commands) |-> IF commands[n] = "asked" THEN "cut" ELSE commands[n]]
      BY <2>1 DEF Node!BootAgain
    <3>2. ProvInv'
      BY <2>1, BootKeeps
    <3>3. Len(commands') \in Nat /\ DOMAIN commands' = 1..Len(commands')
      BY <3>2, LenProperties DEF ProvInv, NodeTyped
    <3>4. DOMAIN commands' = 1..Len(commands)
      BY <3>1
    <3>5. \A a, b \in Nat : 1..a = 1..b => a = b
      <4> SUFFICES ASSUME NEW a \in Nat, NEW b \in Nat, 1..a = 1..b PROVE a = b
        OBVIOUS
      <4>1. (a + 1) \notin 1..a /\ (b + 1) \notin 1..b
        OBVIOUS
      <4> QED BY <4>1
    <3> QED BY <1>0, <3>3, <3>4, <3>5
  <2>4. boots' \in 0..MaxBoots
    <3>1. boots + 1 \in 0..MaxBoots
      BY <1>0, <2>1
    <3> QED BY <2>2, <3>1
  <2> QED BY <1>c, <2>2, <2>3, <2>4 DEF StoreTyped
<1>9. CASE Node!Finish \/ Node!FreeBusy
  <2>1. /\ UNCHANGED <<cfg, flash, auto, boots, console>> /\ (busy' = busy \/ busy' = FALSE)
        /\ commands' = commands \/ \E n : commands' = Node!Answered(n)
    BY <1>9 DEF Node!Finish, Node!FreeBusy, Node!store
  <2>2. Len(commands') = Len(commands)
    BY <1>0, <2>1, AnswerAddsNone
  <2> QED BY <2>1, <2>2 DEF StoreTyped
<1> QED BY <1>2, <1>4, <1>5, <1>6, <1>7, <1>8, <1>9
    DEF Node!Next, Node!Console, Node!Worker, Node!NetTask, Node!Joiners, Node!Linkers

LEMMA JobTypes ==
    ASSUME ProvInv, StoreTyped, JobTyped, AirTyped, [Node!Next]_Node!vars
    PROVE  JobTyped'
<1>0. /\ DOMAIN prov = {"pc", "op", "c", "quiet", "joined"} /\ prov.c \in Node!Settings
      /\ jobs \in Seq({"scan", "test"}) /\ prov \in WorkerState
  BY DEF JobTyped, WorkerState, ProvInv, NodeTyped, Longs
<1>1. ASSUME NEW pc \in WorkerPlaces, prov' = [prov EXCEPT !.pc = pc], pc # "broker" PROVE JobTyped'
  <2>1. prov' \in WorkerState /\ prov'.pc = pc
    BY <1>0, <1>1 DEF WorkerState
  <2> QED BY <1>1, <2>1 DEF JobTyped
<1>i. Node!Idle \in WorkerState /\ Node!Idle.pc = "idle"
  BY DEF Node!Idle, Node!Empty, Node!Settings, WorkerState, WorkerPlaces, AnyNet
<1>2. CASE \/ UNCHANGED Node!vars
           \/ \E t \in Node!Joiners : Node!ConnectWifi(t)
           \/ \E t \in Node!Linkers : Node!StartLink(t)
           \/ Node!Supervise \/ Node!SuperviseStarts
           \/ Node!GotIp \/ Node!Disconnected \/ Node!LostIp \/ Node!OnRetry
           \/ Node!ClientConnects \/ Node!ClientDisconnects
           \/ Node!Told \/ Node!StartLong("scan") \/ Node!StartLong("test") \/ Node!StartJob \/ Node!Reboot
           \/ \E f \in Node!Fields, new \in Node!Settings : Node!SetFails(f, new)
  <2>1. prov' = prov
    BY <1>2 DEF Node!vars, Node!ConnectWifi, Node!StoreKey, Node!Leave, Node!Join,
       Node!StartLink, Node!LockLink, Node!StopClient, Node!StartClient, Node!StoreLinkKey,
       Node!Supervise, Node!SuperviseStarts, Node!GotIp, Node!Disconnected, Node!LostIp, Node!OnRetry,
       Node!ClientConnects, Node!ClientDisconnects, Node!Told, Node!StartLong, Node!StartJob, Node!Reboot, Node!SetFails
  <2> QED BY <2>1 DEF JobTyped
<1>3. CASE Node!FactoryReset \/ \E f \in Node!Fields, new \in Node!Settings : Node!Set(f, new)
  <2>1. prov' = [prov EXCEPT !.quiet = FALSE]
    BY <1>3 DEF Node!FactoryReset, Node!Set
  <2>2. prov' \in WorkerState /\ prov'.pc = prov.pc /\ prov'.c = prov.c
    BY <1>0, <2>1 DEF WorkerState
  <2> QED BY <2>2 DEF JobTyped
<1>4. CASE Node!Restart \/ Node!PowerCut \/ Node!FreeBusy
  <2>1. prov' = Node!Idle
    BY <1>4 DEF Node!Restart, Node!PowerCut, Node!BootAgain, Node!FreeBusy
  <2> QED BY <1>i, <2>1 DEF JobTyped
<1>5. CASE Node!TakeJob
  <2> DEFINE q == Node!Calm
  <2>1. /\ jobs # <<>>
        /\ prov' = [pc |-> IF Head(jobs) = "test" THEN "decide" ELSE "scan", op |-> Head(jobs), c |-> cfg,
                    quiet |-> q, joined |-> Node!None]
    BY <1>5 DEF Node!TakeJob
  <2>2. Head(jobs) \in {"scan", "test"}
    <3> DEFINE S == {"scan", "test"}
    <3>1. jobs \in Seq(S) /\ jobs # <<>>
      BY <1>0, <2>1
    <3> HIDE DEF S
    <3>2. Head(jobs) \in S
      BY <3>1, HeadTailProperties
    <3> QED BY <3>2 DEF S
  <2>3. q \in BOOLEAN
    BY DEF Node!Calm, Node!Free
  <2> HIDE DEF q
  <2>4. PICK pc \in {"decide", "scan"} : prov' = [pc |-> pc, op |-> Head(jobs), c |-> cfg, quiet |-> q, joined |-> Node!None]
    BY <2>1
  <2>5. pc \in WorkerPlaces /\ pc # "broker"
    BY DEF WorkerPlaces
  <2>6. cfg \in Node!Settings
    BY DEF StoreTyped
  <2>7. prov' \in WorkerState
    BY <2>2, <2>3, <2>4, <2>5, <2>6 DEF WorkerState, AnyNet
  <2> QED BY <2>4, <2>5, <2>7 DEF JobTyped
<1>6. CASE \/ Node!Decide \/ Node!Broker \/ Node!Reached \/ Node!ScanStarts \/ Node!ScanEnds \/ Node!ScanResumes
           \/ Node!Finish
  <2>1. \/ prov' = [prov EXCEPT !.pc = "wait"] \/ prov' = [prov EXCEPT !.pc = "finish"]
        \/ prov' = [prov EXCEPT !.pc = "reach"] \/ prov' = [prov EXCEPT !.pc = "air"]
        \/ prov' = [prov EXCEPT !.pc = "resume"] \/ prov' = [prov EXCEPT !.pc = "free"]
    BY <1>6 DEF Node!Decide, Node!Broker, Node!Reached, Node!ScanStarts, Node!ScanEnds, Node!ScanResumes,
         Node!Finish, Node!To
  <2> QED BY <1>1, <2>1 DEF WorkerPlaces
<1>7. CASE Node!Waited
  <2>1. \/ prov' = [prov EXCEPT !.pc = "finish"]
        \/ prov' = [prov EXCEPT !.pc = "finish", !.joined = radio.on]
        \/ prov' = [prov EXCEPT !.pc = "broker", !.joined = radio.on] /\ ~ Node!Standalone(prov.c)
    BY <1>7 DEF Node!Waited
  <2>2. radio.on \in AnyNet
    BY DEF AirTyped, Radio
  <2>3. CASE prov' = [prov EXCEPT !.pc = "finish"]
    BY <1>1, <2>3 DEF WorkerPlaces
  <2>4. CASE prov' = [prov EXCEPT !.pc = "finish", !.joined = radio.on]
    <3>1. prov' \in WorkerState /\ prov'.pc = "finish"
      BY <1>0, <2>2, <2>4 DEF WorkerState, WorkerPlaces
    <3> QED BY <3>1 DEF JobTyped
  <2>5. CASE prov' = [prov EXCEPT !.pc = "broker", !.joined = radio.on] /\ ~ Node!Standalone(prov.c)
    <3>1. prov' \in WorkerState /\ prov'.c = prov.c
      BY <1>0, <2>2, <2>5 DEF WorkerState, WorkerPlaces
    <3>2. prov.c.link \in Hosts
      BY <1>0, <2>5, SettingsAre
    <3> QED BY <3>1, <3>2 DEF JobTyped
  <2> QED BY <2>1, <2>3, <2>4, <2>5
<1> QED BY <1>2, <1>3, <1>4, <1>5, <1>6, <1>7
    DEF Node!Next, Node!Console, Node!Worker, Node!NetTask, Node!Joiners, Node!Linkers

LEMMA LinkTypes ==
    ASSUME StoreTyped, JobTyped, LinkTyped, [Node!Next]_Node!vars
    PROVE  LinkTyped'
<1>0. linking \in [Node!Linkers -> LinkPlace] /\ Node!None \in AnyHost /\ Hosts \subseteq AnyHost
  BY DEF LinkTyped, AnyHost
<1>1. ASSUME NEW t \in Node!Linkers, NEW p \in LinkPlace PROVE [linking EXCEPT ![t] = p] \in [Node!Linkers -> LinkPlace]
  BY <1>0
<1>2. ASSUME NEW t \in Node!Linkers, NEW pc \in LinkPlaces
      PROVE  [linking EXCEPT ![t].pc = pc] \in [Node!Linkers -> LinkPlace]
  <2> DEFINE p == [linking[t] EXCEPT !.pc = pc]
  <2>1. p \in LinkPlace
    BY <1>0 DEF LinkPlace
  <2>2. [linking EXCEPT ![t].pc = pc] = [linking EXCEPT ![t] = p]
    BY <1>0
  <2> HIDE DEF p
  <2> QED BY <1>1, <2>1, <2>2
<1>r. Node!AtRest \in LinkPlace
  BY DEF Node!AtRest, LinkPlace, LinkPlaces, AnyHost
<1>3. CASE \/ UNCHANGED Node!vars
           \/ \E t \in Node!Joiners : Node!ConnectWifi(t)
           \/ Node!GotIp \/ Node!Disconnected \/ Node!LostIp \/ Node!OnRetry
           \/ Node!Told \/ Node!StartLong("scan") \/ Node!StartLong("test") \/ Node!StartJob \/ Node!Reboot
           \/ (\E f \in Node!Fields, new \in Node!Settings : Node!Set(f, new) \/ Node!SetFails(f, new))
           \/ Node!FactoryReset
           \/ Node!TakeJob \/ Node!Decide \/ Node!Waited \/ Node!Reached
           \/ Node!ScanStarts \/ Node!ScanEnds \/ Node!ScanResumes \/ Node!Finish \/ Node!FreeBusy
  <2>1. UNCHANGED <<linking, supervisor, linkKey, mqttClient, linkUp>>
    BY <1>3 DEF Node!vars, Node!link, Node!ConnectWifi, Node!StoreKey, Node!Leave, Node!Join,
       Node!GotIp, Node!Disconnected, Node!LostIp, Node!OnRetry, Node!Told, Node!StartLong, Node!StartJob, Node!Reboot,
       Node!Set, Node!SetFails, Node!FactoryReset, Node!TakeJob, Node!Decide, Node!Waited, Node!Reached,
       Node!ScanStarts, Node!ScanEnds, Node!ScanResumes, Node!Finish, Node!FreeBusy
  <2> QED BY <2>1 DEF LinkTyped
<1>4. CASE Node!ClientConnects \/ Node!ClientDisconnects
  <2>1. UNCHANGED <<linking, supervisor, linkKey, mqttClient>> /\ linkUp' \in BOOLEAN
    BY <1>4 DEF Node!ClientConnects, Node!ClientDisconnects
  <2> QED BY <2>1 DEF LinkTyped
<1>5. CASE Node!Supervise
  <2>1. UNCHANGED <<linking, linkKey, mqttClient, linkUp>> /\ supervisor' \in {"idle", "start"}
    BY <1>5 DEF Node!Supervise, Node!link
  <2> QED BY <2>1 DEF LinkTyped
<1>6. CASE Node!SuperviseStarts
  <2>1. /\ UNCHANGED <<linkKey, mqttClient, linkUp>> /\ supervisor' = "idle"
        /\ \/ linking' = linking
           \/ ~ Node!Standalone(cfg) /\ linking' = [linking EXCEPT !["net"] = [pc |-> "lock", to |-> cfg.link]]
    BY <1>6 DEF Node!SuperviseStarts, Node!link
  <2>2. cfg.link \in Hosts \/ Node!Standalone(cfg)
    BY SettingsAre DEF StoreTyped
  <2>3. linking' \in [Node!Linkers -> LinkPlace]
    <3>1. CASE linking' = linking
      BY <1>0, <3>1
    <3>2. CASE linking' # linking
      <4>1. [pc |-> "lock", to |-> cfg.link] \in LinkPlace
        BY <2>1, <2>2, <3>2 DEF LinkPlace, LinkPlaces, AnyHost
      <4> QED BY <1>1, <2>1, <3>2, <4>1 DEF Node!Linkers
    <3> QED BY <3>1, <3>2
  <2> QED BY <2>1, <2>3 DEF LinkTyped
<1>7. CASE Node!Broker
  <2>1. /\ UNCHANGED <<supervisor, linkKey, mqttClient, linkUp>> /\ prov.pc = "broker"
        /\ \/ linking' = linking
           \/ linking' = [linking EXCEPT !["worker"] = [pc |-> "lock", to |-> prov.c.link]]
    BY <1>7 DEF Node!Broker, Node!link
  <2>2. [pc |-> "lock", to |-> prov.c.link] \in LinkPlace
    BY <2>1 DEF LinkPlace, LinkPlaces, AnyHost, JobTyped
  <2>3. linking' \in [Node!Linkers -> LinkPlace]
    BY <1>0, <1>1, <2>1, <2>2 DEF Node!Linkers
  <2> QED BY <2>1, <2>3 DEF LinkTyped
<1>8. ASSUME NEW t \in Node!Linkers, Node!StartLink(t) PROVE LinkTyped'
  <2>0. linking[t].to \in AnyHost
    BY <1>0 DEF LinkPlace
  <2>1. supervisor' = supervisor
    BY <1>8 DEF Node!StartLink, Node!LockLink, Node!StopClient, Node!StartClient, Node!StoreLinkKey
  <2>2. \/ linking' = [linking EXCEPT ![t].pc = "stop"] \/ linking' = [linking EXCEPT ![t].pc = "start"]
        \/ \E started \in AnyHost : linking' = [linking EXCEPT ![t] = [pc |-> "key", to |-> started]]
        \/ linking' = [linking EXCEPT ![t] = Node!AtRest]
    BY <1>0, <1>8, <2>0 DEF Node!StartLink, Node!LockLink, Node!StopClient, Node!StartClient, Node!StoreLinkKey
  <2>a. \A started \in AnyHost : [pc |-> "key", to |-> started] \in LinkPlace
    BY DEF LinkPlace, LinkPlaces
  <2>3. linking' \in [Node!Linkers -> LinkPlace]
    BY <1>1, <1>2, <1>r, <2>2, <2>a DEF LinkPlaces
  <2>4. mqttClient' = mqttClient \/ mqttClient' = Node!None \/ mqttClient' = linking[t].to
    BY <1>8 DEF Node!StartLink, Node!LockLink, Node!StopClient, Node!StartClient, Node!StoreLinkKey, Node!link
  <2>5. (linkKey' = linkKey \/ linkKey' = linking[t].to) /\ (linkUp' = linkUp \/ linkUp' = FALSE)
    BY <1>8 DEF Node!StartLink, Node!LockLink, Node!StopClient, Node!StartClient, Node!StoreLinkKey, Node!link
  <2>6. mqttClient' \in AnyHost /\ linkKey' \in AnyHost /\ linkUp' \in BOOLEAN
    BY <1>0, <2>0, <2>4, <2>5 DEF LinkTyped
  <2> QED BY <2>1, <2>3, <2>6 DEF LinkTyped
<1>9. CASE Node!Restart \/ Node!PowerCut
  <2>1. /\ linking' = [t \in Node!Linkers |-> Node!AtRest] /\ supervisor' = "idle" /\ linkKey' = Node!None
        /\ mqttClient' = Node!None /\ linkUp' = FALSE
    BY <1>9 DEF Node!Restart, Node!PowerCut, Node!BootAgain
  <2>2. linking' \in [Node!Linkers -> LinkPlace]
    BY <1>r, <2>1
  <2> QED BY <1>0, <2>1, <2>2 DEF LinkTyped
<1> QED BY <1>3, <1>4, <1>5, <1>6, <1>7, <1>8, <1>9
    DEF Node!Next, Node!Console, Node!Worker, Node!NetTask, Node!Joiners, Node!Linkers

\* esp_wifi_connect() and esp_wifi_disconnect() leave the driver in a state it has.
LEMMA RadioTypes ==
    ASSUME radio \in Radio, NEW conf \in AnyNet
    PROVE  /\ Node!EspConnect(conf) \in Radio /\ Node!EspDisconnect \in Radio
           /\ [radio EXCEPT !.conf = conf] \in Radio
           /\ [radio EXCEPT !.st = "up"] \in Radio /\ [radio EXCEPT !.st = "joining"] \in Radio
<1>1. [radio EXCEPT !.conf = conf] \in Radio
  BY DEF Radio
<1>2. Node!EspDisconnect \in Radio
  BY DEF Radio, Node!EspDisconnect, AnyNet
<1>3. [conf |-> conf, st |-> "joining", on |-> conf] \in Radio
  BY DEF Radio
<1>4. Node!EspConnect(conf) \in Radio
  BY <1>1, <1>3 DEF Node!EspConnect
<1>5. [radio EXCEPT !.st = "up"] \in Radio /\ [radio EXCEPT !.st = "joining"] \in Radio
  BY DEF Radio
<1> QED BY <1>1, <1>2, <1>4, <1>5

LEMMA AirTypes ==
    ASSUME StoreTyped, JobTyped, AirTyped, [Node!Next]_Node!vars
    PROVE  AirTyped'
<1>0. /\ joining \in [Node!Joiners -> JoinPlace] /\ Node!None \in AnyNet /\ radio \in Radio /\ radio.conf \in AnyNet
      /\ Node!Joiners = {"main", "console", "worker"}
  BY DEF AirTyped, AnyNet, Radio, Node!Joiners
<1>1. ASSUME NEW t \in Node!Joiners, NEW p \in JoinPlace PROVE [joining EXCEPT ![t] = p] \in [Node!Joiners -> JoinPlace]
  BY <1>0
<1>2. ASSUME NEW t \in Node!Joiners, NEW pc \in JoinPlaces
      PROVE  [joining EXCEPT ![t].pc = pc] \in [Node!Joiners -> JoinPlace]
  <2> DEFINE p == [joining[t] EXCEPT !.pc = pc]
  <2>1. p \in JoinPlace
    BY <1>0 DEF JoinPlace
  <2>2. [joining EXCEPT ![t].pc = pc] = [joining EXCEPT ![t] = p]
    BY <1>0
  <2> HIDE DEF p
  <2> QED BY <1>1, <2>1, <2>2
<1>r. Node!AtRest \in JoinPlace
  BY DEF Node!AtRest, JoinPlace, JoinPlaces, AnyNet
<1>k. \A n \in AnyNet : [pc |-> "key", to |-> n] \in JoinPlace
  BY DEF JoinPlace, JoinPlaces
<1>3. CASE \/ UNCHANGED Node!vars
           \/ \E t \in Node!Linkers : Node!StartLink(t)
           \/ Node!SuperviseStarts \/ Node!ClientConnects \/ Node!ClientDisconnects
           \/ Node!Told \/ Node!StartLong("scan") \/ Node!StartLong("test") \/ Node!StartJob \/ Node!Reboot
           \/ (\E f \in Node!Fields, new \in Node!Settings : Node!SetFails(f, new))
           \/ Node!TakeJob \/ Node!Waited \/ Node!Broker \/ Node!Reached \/ Node!Finish \/ Node!FreeBusy
  <2>1. UNCHANGED <<radio, haveCreds, scanning, armed, newUp, wifiKey, joining>>
    BY <1>3 DEF Node!vars, Node!wifi, Node!StartLink, Node!LockLink, Node!StopClient, Node!StartClient, Node!StoreLinkKey,
       Node!SuperviseStarts, Node!ClientConnects, Node!ClientDisconnects, Node!Told, Node!StartLong, Node!StartJob,
       Node!Reboot, Node!SetFails, Node!TakeJob, Node!Waited, Node!Broker, Node!Reached, Node!Finish, Node!FreeBusy
  <2> QED BY <2>1 DEF AirTyped
<1>4. CASE Node!Supervise
  <2>1. UNCHANGED <<radio, haveCreds, scanning, armed, wifiKey, joining>> /\ newUp' = FALSE
    BY <1>4 DEF Node!Supervise
  <2> QED BY <2>1 DEF AirTyped
<1>5. CASE Node!GotIp \/ Node!LostIp
  <2>1. /\ UNCHANGED <<haveCreds, scanning, armed, wifiKey, joining>> /\ (newUp' = newUp \/ newUp' = TRUE)
        /\ radio' = [radio EXCEPT !.st = "up"] \/ radio' = [radio EXCEPT !.st = "joining"]
    BY <1>5 DEF Node!GotIp, Node!LostIp
  <2>2. radio' \in Radio
    BY <1>0, <2>1, RadioTypes
  <2> QED BY <2>1, <2>2 DEF AirTyped
<1>6. CASE Node!Disconnected
  <2>1. /\ UNCHANGED <<haveCreds, scanning, newUp, wifiKey, joining>> /\ radio' = Node!EspDisconnect
        /\ armed' = (armed \/ (haveCreds /\ ~scanning))
    BY <1>6 DEF Node!Disconnected, Node!ScheduleRetry
  <2>2. radio' \in Radio /\ armed' \in BOOLEAN
    BY <1>0, <2>1, RadioTypes
  <2> QED BY <2>1, <2>2 DEF AirTyped
<1>7. CASE Node!OnRetry
  <2>1. /\ UNCHANGED <<haveCreds, scanning, newUp, wifiKey, joining>> /\ armed' = FALSE
        /\ radio' = radio \/ radio' = Node!EspConnect(radio.conf)
    BY <1>7 DEF Node!OnRetry
  <2>2. radio' \in Radio
    BY <1>0, <2>1, RadioTypes
  <2> QED BY <2>1, <2>2 DEF AirTyped
<1>8. ASSUME NEW t \in Node!Joiners, Node!ConnectWifi(t) PROVE AirTyped'
  <2>0. joining[t].to \in AnyNet
    BY <1>0 DEF JoinPlace
  <2>1. UNCHANGED <<scanning, newUp>> /\ (wifiKey' = wifiKey \/ wifiKey' = joining[t].to)
    BY <1>8 DEF Node!ConnectWifi, Node!StoreKey, Node!Leave, Node!Join
  <2>2. (haveCreds' = haveCreds \/ haveCreds' = (joining[t].to # Node!None)) /\ (armed' = armed \/ armed' = FALSE)
    BY <1>8 DEF Node!ConnectWifi, Node!StoreKey, Node!Leave, Node!Join
  <2>3. haveCreds' \in BOOLEAN /\ armed' \in BOOLEAN /\ scanning' \in BOOLEAN /\ newUp' \in BOOLEAN /\ wifiKey' \in AnyNet
    BY <2>0, <2>1, <2>2 DEF AirTyped
  <2>4. \/ joining' = [joining EXCEPT ![t].pc = "disconnect"] \/ joining' = [joining EXCEPT ![t].pc = "join"]
        \/ joining' = [joining EXCEPT ![t] = Node!AtRest]
    BY <1>8 DEF Node!ConnectWifi, Node!StoreKey, Node!Leave, Node!Join, Node!At
  <2>5. joining' \in [Node!Joiners -> JoinPlace]
    BY <1>1, <1>2, <1>r, <2>4 DEF JoinPlaces
  <2>6. \/ radio' = radio \/ radio' = Node!EspDisconnect \/ radio' = [radio EXCEPT !.conf = Node!None]
        \/ radio' = Node!EspConnect(joining[t].to)
    BY <1>8 DEF Node!ConnectWifi, Node!StoreKey, Node!Leave, Node!Join
  <2>7. radio' \in Radio
    BY <1>0, <2>0, <2>6, RadioTypes
  <2> QED BY <2>3, <2>5, <2>7 DEF AirTyped
<1>9. CASE Node!FactoryReset \/ \E f \in Node!Fields, new \in Node!Settings : Node!Set(f, new)
  <2>1. /\ UNCHANGED <<haveCreds, scanning, armed, newUp, wifiKey>>
        /\ radio' = radio \/ radio' = [radio EXCEPT !.conf = Node!None]
        /\ \/ joining' = joining
           \/ \E new \in Node!Settings : joining' = [joining EXCEPT !["console"] = [pc |-> "key", to |-> new.wifi]]
    BY <1>9 DEF Node!FactoryReset, Node!Set, Node!wifi
  <2>2. joining' \in [Node!Joiners -> JoinPlace]
    BY <1>0, <1>1, <1>k, <2>1, SettingsAre
  <2>3. radio' \in Radio
    BY <1>0, <2>1, RadioTypes
  <2> QED BY <2>1, <2>2, <2>3 DEF AirTyped
<1>10. CASE Node!Decide
  <2>1. /\ UNCHANGED <<radio, haveCreds, scanning, armed, newUp, wifiKey>>
        /\ \/ joining' = joining
           \/ joining' = [joining EXCEPT !["worker"] = [pc |-> "key", to |-> prov.c.wifi]]
    BY <1>10 DEF Node!Decide, Node!wifi
  <2>2. prov.c.wifi \in AnyNet
    BY SettingsAre DEF JobTyped, WorkerState
  <2>3. joining' \in [Node!Joiners -> JoinPlace]
    BY <1>0, <1>1, <1>k, <2>1, <2>2
  <2> QED BY <2>1, <2>3 DEF AirTyped
<1>11. CASE Node!ScanStarts \/ Node!ScanEnds \/ Node!ScanResumes
  <2>1. /\ UNCHANGED <<haveCreds, newUp, wifiKey, joining>>
        /\ (armed' = armed \/ armed' = FALSE) /\ (scanning' = scanning \/ scanning' \in BOOLEAN)
        /\ radio' = radio \/ radio' = Node!EspDisconnect \/ radio' = Node!EspConnect(radio.conf)
    BY <1>11 DEF Node!ScanStarts, Node!ScanEnds, Node!ScanResumes, Node!Resume
  <2>2. radio' \in Radio
    BY <1>0, <2>1, RadioTypes
  <2> QED BY <2>1, <2>2 DEF AirTyped
<1>12. CASE Node!Restart \/ Node!PowerCut
  <2>1. /\ joining' = Node!Boot(flash).joining /\ radio' = Node!Off /\ haveCreds' = FALSE /\ scanning' = FALSE
        /\ armed' = FALSE /\ newUp' = FALSE /\ wifiKey' = Node!None
    BY <1>12 DEF Node!Restart, Node!PowerCut, Node!BootAgain
  <2>2. joining' \in [Node!Joiners -> JoinPlace]
    BY <1>r, <1>k, <2>1, SettingsAre DEF StoreTyped, Node!Boot
  <2>3. radio' \in Radio
    BY <2>1 DEF Node!Off, Radio, AnyNet
  <2> QED BY <1>0, <2>1, <2>2, <2>3 DEF AirTyped
<1> QED BY <1>3, <1>4, <1>5, <1>6, <1>7, <1>8, <1>9, <1>10, <1>11, <1>12
    DEF Node!Next, Node!Console, Node!Worker, Node!NetTask, Node!Joiners, Node!Linkers

NodeInv == ProvInv /\ StoreTyped /\ JobTyped /\ AirTyped /\ LinkTyped

LEMMA NodeStart ==
    ASSUME Node!Init
    PROVE  NodeInv
<1>0. /\ flash \in Node!Settings /\ Node!Empty \in Node!Settings /\ Node!None \in AnyNet /\ Node!None \in AnyHost
      /\ flash.wifi \in AnyNet /\ 0 \in 0..MaxBoots /\ 0 <= MaxCommands
  BY SettingsAre, EdgeAssumption DEF Node!Init, Node!Empty, Node!Settings, AnyNet, AnyHost
<1>1. StoreTyped
  <2>1. cfg = flash /\ auto \in BOOLEAN /\ busy = FALSE /\ Len(commands) = 0 /\ boots = 0 /\ console.pc = "idle"
    BY DEF Node!Init, Node!Boot, Node!Reading
  <2>2. console # Node!Restarting
    BY <2>1 DEF Node!Restarting
  <2> QED BY <1>0, <2>1, <2>2 DEF StoreTyped
<1>2. JobTyped
  <2>1. prov = Node!Idle
    BY DEF Node!Init
  <2>2. prov.pc = "idle" /\ prov \in WorkerState
    BY <1>0, <2>1 DEF Node!Idle, WorkerState, WorkerPlaces
  <2> QED BY <2>2 DEF JobTyped
<1>3. AirTyped
  <2>1. /\ joining = [t \in Node!Joiners |-> IF t = "main" /\ ~ Node!Blank(flash) THEN [pc |-> "key", to |-> flash.wifi]
                                             ELSE Node!AtRest]
        /\ radio = Node!Off /\ haveCreds = FALSE /\ scanning = FALSE /\ armed = FALSE /\ newUp = FALSE
        /\ wifiKey = Node!None
    BY DEF Node!Init, Node!Boot
  <2>2. Node!AtRest \in JoinPlace /\ [pc |-> "key", to |-> flash.wifi] \in JoinPlace
    BY <1>0 DEF Node!AtRest, JoinPlace, JoinPlaces
  <2>3. radio \in Radio
    BY <1>0, <2>1 DEF Node!Off, Radio
  <2> QED BY <1>0, <2>1, <2>2, <2>3 DEF AirTyped
<1>4. LinkTyped
  <2>1. /\ linking = [t \in Node!Linkers |-> Node!AtRest] /\ supervisor = "idle"
        /\ linkKey = Node!None /\ mqttClient = Node!None /\ linkUp = FALSE
    BY DEF Node!Init
  <2>2. Node!AtRest \in LinkPlace
    BY <1>0 DEF Node!AtRest, LinkPlace, LinkPlaces
  <2> QED BY <1>0, <2>1, <2>2 DEF LinkTyped
<1> QED BY <1>1, <1>2, <1>3, <1>4, ProvStart DEF NodeInv

LEMMA NodeHasLimits ==
    ASSUME NodeInv
    PROVE  Node!ProvTypeOK
<1>0. NodeTyped /\ StoreTyped /\ JobTyped /\ AirTyped /\ LinkTyped
  BY DEF NodeInv, ProvInv
<1>1. pending \in [op : {Node!None, "scan", "test"}, n : 0..Len(commands)]
  <2>1. Len(commands) \in Nat
    BY <1>0, LenProperties DEF NodeTyped
  <2>2. CASE pending = Node!NoJob
    <3>1. 0 \in 0..Len(commands)
      BY <2>1
    <3> QED BY <2>2, <3>1 DEF Node!NoJob
  <2>3. CASE pending # Node!NoJob
    <3>1. pending \in [op : Longs, n : 1..Len(commands)]
      BY <1>0, <2>3 DEF NodeTyped
    <3>2. 1..Len(commands) \subseteq 0..Len(commands)
      BY <2>1
    <3> QED BY <3>1, <3>2 DEF Longs
  <2> QED BY <2>2, <2>3
<1>2. /\ commands \in Seq({"asked", "answered", "answered twice", "cut"}) /\ jobs \in Seq({"scan", "test"})
      /\ console \in [pc : {"idle", "start", "restart"}, op : {Node!None, "scan", "test"}]
  BY <1>0 DEF NodeTyped, Longs
<1>3. /\ cfg \in Node!Settings /\ flash \in Node!Settings /\ auto \in BOOLEAN /\ busy \in BOOLEAN
      /\ Len(commands) <= MaxCommands /\ boots \in 0..MaxBoots
  BY <1>0 DEF StoreTyped
<1>4. prov \in [pc : {"idle", "decide", "wait", "broker", "reach", "scan", "air", "resume", "finish", "free"},
                op : {Node!None, "scan", "test"}, c : Node!Settings, quiet : BOOLEAN, joined : Nets \union {Node!None}]
  BY <1>0 DEF JobTyped, WorkerState, WorkerPlaces, AnyNet
<1>5. /\ joining \in [Node!Joiners -> [pc : {"no", "key", "disconnect", "join"}, to : Nets \union {Node!None}]]
      /\ radio \in [conf : Nets \union {Node!None}, st : {"off", "joining", "up"}, on : Nets \union {Node!None}]
      /\ wifiKey \in Nets \union {Node!None}
      /\ haveCreds \in BOOLEAN /\ scanning \in BOOLEAN /\ armed \in BOOLEAN /\ newUp \in BOOLEAN
  BY <1>0 DEF AirTyped, Radio, AnyNet, JoinPlace, JoinPlaces
<1>6. /\ linking \in [Node!Linkers -> [pc : {"no", "lock", "stop", "start", "key"}, to : Hosts \union {Node!None}]]
      /\ supervisor \in {"idle", "start"} /\ linkKey \in Hosts \union {Node!None}
      /\ mqttClient \in Hosts \union {Node!None} /\ linkUp \in BOOLEAN
  BY <1>0 DEF LinkTyped, AnyHost, LinkPlace, LinkPlaces
<1> HIDE DEF Node!None, Node!Settings, Node!Joiners, Node!Linkers
<1> QED BY <1>1, <1>2, <1>3, <1>4, <1>5, <1>6 DEF Node!ProvTypeOK

\* The board's tasks keep their types: a test goes to the broker only with a host
\* to connect to, and no restart is under way that goes beyond the bound:
\* startLink(), connectWifi(), runTest() and restartNow().
THEOREM NodeHasTypes == Node!Spec => []Node!ProvTypeOK
<1>1. NodeInv /\ [Node!Next]_Node!vars => NodeInv'
  BY ProvStep, StoreTypes, JobTypes, AirTypes, LinkTypes DEF NodeInv
<1> QED BY <1>1, NodeStart, NodeHasLimits, PTL DEF Node!Spec

-----------------------------------------------------------------------------
(* All of it side by side.                                                 *)

\* The runs look at the calls, the agent and the board together: a behaviour is
\* one of each of them.
LEMMA SideBySide == EdgeSpec => Spec /\ Agent!Spec /\ Node!Spec
<1>1. EdgeInit => Init /\ Agent!Init /\ Node!Init
  BY DEF EdgeInit
<1>2. [EdgeNext]_edgeVars => [Next]_vars
  BY DEF EdgeNext, edgeVars, Asks, Reports, Settles
<1>3. [EdgeNext]_edgeVars => [Agent!Next]_Agent!vars
  BY DEF EdgeNext, edgeVars, Asks, Reports, Settles, agentVars, Agent!vars, Agent!agent, Agent!broker
<1>4. [EdgeNext]_edgeVars => [Node!Next]_Node!vars
  BY DEF EdgeNext, edgeVars, Asks, Reports, Settles, nodeVars, Node!vars, Node!store, Node!handler, Node!wifi, Node!link
<1>5. EdgeSpec => Spec
  BY <1>1, <1>2, PTL DEF EdgeSpec, Spec
<1>6. EdgeSpec => Agent!Spec
  BY <1>1, <1>3, PTL DEF EdgeSpec, Agent!Spec
<1>7. EdgeSpec => Node!Spec
  BY <1>1, <1>4, PTL DEF EdgeSpec, Node!Spec
<1> QED BY <1>5, <1>6, <1>7, PTL

\* What the agent of a Pi and the settings of a board promise holds when both are
\* looked at together, as the runs do.
THEOREM EdgesKeepTheirWord == EdgeSpec => [](PresenceIsTrue /\ MetaSurvives /\ OneAnswer /\ RadioKeepsTrying
                                         /\ LinkKeyTrue)
BY SideBySide, PresenceAlwaysTrue, MetaAlwaysSurvives, CommandsAnsweredOnce, RadioAlwaysTries, LinkKeyStaysTrue, PTL

\* Whichever of them runs keeps its variables in their types, within the limits
\* that are said of its commands, requests, threads and restarts.
THEOREM EdgeTypes == EdgeSpec => []EdgeTypeOK
<1>1. CallsTypeOK /\ Agent!AgentTypeOK /\ Node!ProvTypeOK /\ program \in {"calls", "agent", "node"} => EdgeTypeOK
  BY DEF EdgeTypeOK
<1>2. EdgeInit => program \in {"calls", "agent", "node"}
  BY DEF EdgeInit
<1>3. program \in {"calls", "agent", "node"} /\ [EdgeNext]_edgeVars => (program \in {"calls", "agent", "node"})'
  BY DEF EdgeNext, edgeVars, Asks, Reports, Settles
<1>4. EdgeSpec => [](program \in {"calls", "agent", "node"})
  BY <1>2, <1>3, PTL DEF EdgeSpec
<1> QED BY <1>1, <1>4, SideBySide, CallsTypes, AgentHasTypes, NodeHasTypes, PTL

=============================================================================
