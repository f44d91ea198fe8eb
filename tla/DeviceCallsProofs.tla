-------------------------- MODULE DeviceCallsProofs --------------------------
(***************************************************************************)
(* Proofs about the calls of MCP clients on their way to a board, for any  *)
(* number of lines, requests and faults: the futures that the server keeps *)
(* are those of the calls that wait, a call is answered by the reply to    *)
(* its own command, and a line is asked for twice and answered once.       *)
(***************************************************************************)
EXTENDS DeviceCalls, SequenceTheorems, FiniteSetTheorems, TLAPS

-----------------------------------------------------------------------------
(* The inductive invariant.                                                *)

Request == [line : Nat, kind : Kinds, allowed : BOOLEAN,
            pc : {"new", "waiting", "woken", "logging", "cancelled", "raised", "done", "lost"},
            by : Nat, out : {Nothing, "error", "no reply", "unauthorized", "ok"}]

\* Commands and replies name requests of the server.
Typed ==
    /\ req \in Seq(Request)
    /\ ran \in Seq(Nat) /\ Len(ran) = Len(req)
    /\ wire \in Seq(Requests) /\ inbox \in Seq(Requests)

\* A future is kept under the id of the request that waits for it: what
\* _new_cmd_id() is for.
OwnIds == DOMAIN waiters \subseteq Requests /\ waiters = [d \in DOMAIN waiters |-> d]

\* A reply on its way is one to a command that the board has executed.
RepliesEarned == \A k \in 1..Len(inbox) : ran[inbox[k]] > 0

CallsInv == Typed /\ OwnIds /\ RepliesEarned /\ CallGetsItsReply /\ WaitersExact

-----------------------------------------------------------------------------
(* What the steps do to the requests.                                      *)

\* The requests there are.
LEMMA RequestsAre ==
    ASSUME Typed
    PROVE  /\ Len(req) \in Nat /\ Requests = 1..Len(req) /\ DOMAIN req = Requests
           /\ \A i \in Requests : req[i] \in Request /\ i \in Nat /\ i # 0 /\ ran[i] \in Nat
<1>1. req \in Seq(Request) /\ ran \in Seq(Nat) /\ Len(ran) = Len(req)
  BY DEF Typed
<1>2. Len(req) \in Nat /\ Requests = 1..Len(req) /\ req \in [1..Len(req) -> Request] /\ ran \in [1..Len(req) -> Nat]
  BY <1>1, LenProperties DEF Requests
<1> QED BY <1>2

\* The tail of a queue of requests, and a queue with one request more.
LEMMA QueueMoves ==
    ASSUME NEW S, NEW q \in Seq(S)
    PROVE  /\ q # <<>> => /\ Head(q) \in S /\ Tail(q) \in Seq(S) /\ 1 \in 1..Len(q) /\ Head(q) = q[1]
                          /\ \A k \in 1..Len(Tail(q)) : k + 1 \in 1..Len(q) /\ Tail(q)[k] = q[k + 1]
           /\ \A x \in S : /\ Append(q, x) \in Seq(S) /\ Len(Append(q, x)) = Len(q) + 1 /\ Len(q) \in Nat
                           /\ Append(q, x)[Len(q) + 1] = x
                           /\ \A k \in 1..Len(q) : Append(q, x)[k] = q[k]
<1>1. ASSUME q # <<>>
      PROVE  /\ Head(q) \in S /\ Tail(q) \in Seq(S) /\ 1 \in 1..Len(q) /\ Head(q) = q[1]
             /\ \A k \in 1..Len(Tail(q)) : k + 1 \in 1..Len(q) /\ Tail(q)[k] = q[k + 1]
  <2>1. Len(q) \in Nat /\ Len(q) # 0
    BY <1>1, EmptySeq, LenProperties
  <2>2. Head(q) \in S /\ Tail(q) \in Seq(S) /\ Head(q) = q[1] /\ Len(Tail(q)) = Len(q) - 1
        /\ \A k \in 1..Len(Tail(q)) : Tail(q)[k] = q[k + 1]
    BY <1>1, HeadTailProperties
  <2> QED BY <2>1, <2>2
<1>2. \A x \in S : /\ Append(q, x) \in Seq(S) /\ Len(Append(q, x)) = Len(q) + 1 /\ Len(q) \in Nat
                   /\ Append(q, x)[Len(q) + 1] = x
                   /\ \A k \in 1..Len(q) : Append(q, x)[k] = q[k]
  BY AppendProperties, LenProperties
<1> QED BY <1>1, <1>2

\* A function on 1..n is a sequence; nothing is kept under the ids of nothing.
LEMMA FunctionIsSeq ==
    ASSUME NEW S, NEW n \in Nat, NEW f \in [1..n -> S]
    PROVE  f \in Seq(S) /\ Len(f) = n
OBVIOUS

LEMMA NoEntries == DOMAIN <<>> = {} /\ <<>> = [d \in {} |-> d]
<1>1. DOMAIN <<>> = {}
  OBVIOUS
<1>2. <<>> = [d \in {} |-> d]
  BY <1>1
<1> QED BY <1>1, <1>2

\* One request changes, and with it whose futures are kept.
LEMMA RequestMoves ==
    ASSUME CallsInv, NEW i \in Requests, NEW r \in Request, req' = [req EXCEPT ![i] = r],
           r.by = req[i].by \/ (r.by = i /\ ran[i] > 0),
           NEW D, waiters' = [d \in D |-> d], D \subseteq DOMAIN waiters \union {i},
           i \in D => r.pc \in {"waiting", "cancelled", "raised"},
           r.pc = "waiting" => i \in D,
           \A d \in DOMAIN waiters : d # i => d \in D,
           ran' = ran, wire' \in Seq(Requests), inbox' \in Seq(Requests),
           \A k \in 1..Len(inbox') : ran[inbox'[k]] > 0
    PROVE  CallsInv'
<1>0. Typed /\ OwnIds /\ RepliesEarned /\ CallGetsItsReply /\ WaitersExact
  BY DEF CallsInv
<1>1. /\ Len(req) \in Nat /\ Requests = 1..Len(req)
      /\ \A j \in Requests : req[j] \in Request /\ j \in Nat /\ j # 0
  BY <1>0, RequestsAre
<1>2. /\ req' \in Seq(Request) /\ Len(req') = Len(req) /\ req'[i] = r
      /\ \A j \in Requests : j # i => req'[j] = req[j]
  <2>1. req \in Seq(Request)
    BY <1>0 DEF Typed
  <2> QED BY <1>1, <2>1, ExceptSeq
<1>3. Requests' = Requests
  BY <1>2 DEF Requests
<1>4. Typed'
  <2>1. ran \in Seq(Nat) /\ Len(ran) = Len(req)
    BY <1>0 DEF Typed
  <2> QED BY <1>2, <1>3, <2>1 DEF Typed
<1>5. DOMAIN waiters' = D /\ \A d \in D : waiters'[d] = d
  OBVIOUS
<1>6. OwnIds'
  <2>1. D \subseteq Requests
    BY <1>0 DEF OwnIds
  <2> QED BY <1>3, <1>5, <2>1 DEF OwnIds
<1>7. RepliesEarned'
  BY DEF RepliesEarned
<1>8. CallGetsItsReply'
  <2> SUFFICES ASSUME NEW j \in Requests, req'[j].by # 0 PROVE req'[j].by = j /\ ran[j] > 0
    BY <1>3 DEF CallGetsItsReply
  <2>1. req[j].by # 0 => req[j].by = j /\ ran[j] > 0
    BY <1>0 DEF CallGetsItsReply
  <2> QED BY <1>1, <1>2, <2>1
<1>9. WaitersExact'
  <2>0. \A d \in DOMAIN waiters : d \in Requests /\ waiters[d] = d
    BY <1>0 DEF OwnIds
  <2>1. \A d \in DOMAIN waiters : req[d].pc \in {"waiting", "cancelled", "raised"}
    BY <1>0, <2>0 DEF WaitersExact
  <2>2. \A j \in Requests : req[j].pc = "waiting" => j \in DOMAIN waiters
    BY <1>0, <2>0 DEF WaitersExact
  <2>3. \A d \in D : req'[d].pc \in {"waiting", "cancelled", "raised"}
    BY <1>2, <2>0, <2>1
  <2>4. \A j \in Requests : req'[j].pc = "waiting" => j \in D
    BY <1>2, <2>2
  <2>5. D = {waiters'[d] : d \in DOMAIN waiters'}
    BY <1>5
  <2> QED BY <1>3, <1>5, <2>3, <2>4, <2>5 DEF WaitersExact
<1> QED BY <1>4, <1>6, <1>7, <1>8, <1>9 DEF CallsInv

\* A step that leaves the requests alone; the board may execute commands.
LEMMA OthersMove ==
    ASSUME CallsInv, UNCHANGED <<req, waiters>>, wire' \in Seq(Requests), inbox' \in Seq(Requests),
           ran' \in Seq(Nat), Len(ran') = Len(ran), \A i \in Requests : ran'[i] >= ran[i],
           \A k \in 1..Len(inbox') : ran'[inbox'[k]] > 0
    PROVE  CallsInv'
<1>0. Typed /\ OwnIds /\ RepliesEarned /\ CallGetsItsReply /\ WaitersExact
  BY DEF CallsInv
<1>1. Requests' = Requests /\ \A i \in Requests : ran[i] \in Nat
  BY <1>0, RequestsAre DEF Requests
<1>2. Typed'
  BY <1>0, <1>1 DEF Typed
<1>3. OwnIds' /\ RepliesEarned' /\ WaitersExact'
  BY <1>0, <1>1 DEF OwnIds, RepliesEarned, WaitersExact
<1>4. CallGetsItsReply'
  <2>1. \A i \in Requests : ran'[i] \in Nat
    <3>1. ran' \in [1..Len(ran') -> Nat] /\ Requests = 1..Len(req)
      BY LenProperties DEF Requests
    <3> QED BY <1>0, <3>1 DEF Typed
  <2> QED BY <1>0, <1>1, <2>1 DEF CallGetsItsReply
<1> QED BY <1>2, <1>3, <1>4 DEF CallsInv

\* A request comes in.
LEMMA RequestArrives ==
    ASSUME CallsInv, NEW n \in Nat, NEW k \in Kinds, NEW admin \in BOOLEAN, NewRequest(n, k, admin),
           UNCHANGED <<waiters, wire, inbox>>
    PROVE  CallsInv'
<1> DEFINE r == [line |-> n, kind |-> k, allowed |-> admin \/ ~NeedsAdmin(k), pc |-> "new", by |-> 0, out |-> Nothing]
<1>0. Typed /\ OwnIds /\ RepliesEarned /\ CallGetsItsReply /\ WaitersExact
  BY DEF CallsInv
<1>1. /\ Len(req) \in Nat /\ Requests = 1..Len(req)
      /\ \A j \in Requests : req[j] \in Request /\ j \in Nat /\ j # 0
  BY <1>0, RequestsAre
<1>2. r \in Request /\ r.pc = "new" /\ r.by = 0 /\ req' = Append(req, r) /\ ran' = Append(ran, 0)
  BY DEF Request, NewRequest, Nothing
<1> HIDE DEF r
<1>3. /\ req' \in Seq(Request) /\ Len(req') = Len(req) + 1 /\ req'[Len(req) + 1] = r
      /\ \A j \in Requests : req'[j] = req[j]
      /\ ran' \in Seq(Nat) /\ Len(ran') = Len(req')
      /\ \A j \in Requests : ran'[j] = ran[j]
  <2>1. req \in Seq(Request) /\ ran \in Seq(Nat) /\ Len(ran) = Len(req) /\ 0 \in Nat
    BY <1>0 DEF Typed
  <2>2. /\ req' \in Seq(Request) /\ Len(req') = Len(req) + 1 /\ req'[Len(req) + 1] = r
        /\ \A j \in 1..Len(req) : req'[j] = req[j]
    BY <1>2, <2>1, QueueMoves
  <2>3. /\ ran' \in Seq(Nat) /\ Len(ran') = Len(ran) + 1
        /\ \A j \in 1..Len(ran) : ran'[j] = ran[j]
    BY <1>2, <2>1, QueueMoves
  <2> QED BY <1>1, <2>1, <2>2, <2>3
<1>4. Requests \subseteq Requests' /\ \A j \in Requests' : j \in Requests \/ j = Len(req) + 1
  BY <1>1, <1>3 DEF Requests
<1>5. Typed'
  <2>1. wire \in Seq(Requests') /\ inbox \in Seq(Requests')
    BY <1>0, <1>4, SeqMonotonic DEF Typed
  <2> QED BY <1>3, <2>1 DEF Typed
<1>6. OwnIds'
  BY <1>0, <1>4 DEF OwnIds
<1>7. RepliesEarned'
  <2>1. \A j \in 1..Len(inbox) : inbox[j] \in Requests
    BY <1>0, ElementOfSeq DEF Typed
  <2> QED BY <1>0, <1>3, <2>1 DEF RepliesEarned
<1>8. CallGetsItsReply'
  <2> SUFFICES ASSUME NEW j \in Requests', req'[j].by # 0 PROVE req'[j].by = j /\ ran'[j] > 0
    BY DEF CallGetsItsReply
  <2>1. j \in Requests
    BY <1>2, <1>3, <1>4
  <2> QED BY <1>0, <1>3, <2>1 DEF CallGetsItsReply
<1>9. WaitersExact'
  <2>1. \A d \in DOMAIN waiters : waiters[d] \in Requests
    BY <1>0 DEF OwnIds
  <2>2. \A d \in DOMAIN waiters : req'[waiters[d]].pc \in {"waiting", "cancelled", "raised"}
    BY <1>0, <1>3, <2>1 DEF WaitersExact
  <2>3. \A j \in Requests' : req'[j].pc = "waiting" => j \in {waiters[d] : d \in DOMAIN waiters}
    <3> SUFFICES ASSUME NEW j \in Requests', req'[j].pc = "waiting" PROVE j \in {waiters[d] : d \in DOMAIN waiters}
      OBVIOUS
    <3>1. j \in Requests
      BY <1>2, <1>3, <1>4
    <3> QED BY <1>0, <1>3, <3>1 DEF WaitersExact
  <2> QED BY <2>2, <2>3 DEF WaitersExact
<1> QED BY <1>5, <1>6, <1>7, <1>8, <1>9 DEF CallsInv

\* What Done() makes of a request.
LEMMA DoneMoves ==
    ASSUME Typed, NEW i \in Requests, NEW out \in {Nothing, "error", "no reply", "unauthorized", "ok"}, Done(i, out)
    PROVE  \E r \in Request : req' = [req EXCEPT ![i] = r] /\ r.pc = "done" /\ r.by = req[i].by
<1>1. req[i] \in Request /\ i \in DOMAIN req
  BY RequestsAre
<1>2. CASE req[i].line = 0
  <2> DEFINE r == [req[i] EXCEPT !.pc = "done", !.kind = "query", !.allowed = TRUE, !.out = Nothing]
  <2>1. r \in Request /\ r.pc = "done" /\ r.by = req[i].by
    BY <1>1 DEF Request, Kinds, Nothing
  <2>2. req' = [req EXCEPT ![i] = r]
    BY <1>1, <1>2 DEF Done
  <2> QED BY <2>1, <2>2
<1>3. CASE req[i].line # 0
  <2> DEFINE r == [req[i] EXCEPT !.pc = "done", !.out = out]
  <2>1. r \in Request /\ r.pc = "done" /\ r.by = req[i].by
    BY <1>1 DEF Request
  <2>2. req' = [req EXCEPT ![i] = r]
    BY <1>1, <1>3 DEF Done
  <2> QED BY <2>1, <2>2
<1> QED BY <1>2, <1>3

\* A request is answered; if it waited, its future is taken out.
LEMMA AnswerKeepsInv ==
    ASSUME CallsInv, NEW i \in Requests, NEW out \in {Nothing, "error", "no reply", "unauthorized", "ok"}, Done(i, out),
           waiters' = Without(i) \/ (waiters' = waiters /\ req[i].pc \notin {"waiting", "cancelled", "raised"}),
           ran' = ran, wire' \in Seq(Requests), inbox' = inbox
    PROVE  CallsInv'
<1>0. Typed /\ OwnIds /\ RepliesEarned /\ WaitersExact
  BY DEF CallsInv
<1>1. PICK r \in Request : req' = [req EXCEPT ![i] = r] /\ r.pc = "done" /\ r.by = req[i].by
  BY <1>0, DoneMoves
<1>2. \A d \in DOMAIN waiters : waiters[d] = d
  BY <1>0 DEF OwnIds
<1> DEFINE D == DOMAIN waiters \ {i}
<1>3. waiters' = [d \in D |-> d]
  <2>1. CASE waiters' = Without(i)
    <3>1. waiters' = [j \in D |-> waiters[j]]
      BY <2>1 DEF Without
    <3>2. \A j \in D : waiters[j] = j
      BY <1>2
    <3> HIDE DEF D
    <3> QED BY <3>1, <3>2
  <2>2. CASE waiters' = waiters /\ req[i].pc \notin {"waiting", "cancelled", "raised"}
    <3>1. i \notin DOMAIN waiters
      BY <1>0, <1>2, <2>2 DEF WaitersExact
    <3>2. D = DOMAIN waiters
      BY <3>1
    <3> QED BY <1>0, <2>2, <3>2 DEF OwnIds
  <2> QED BY <2>1, <2>2
<1>4. i \notin D /\ D \subseteq DOMAIN waiters \union {i} /\ \A d \in DOMAIN waiters : d # i => d \in D
  OBVIOUS
<1>5. inbox' \in Seq(Requests) /\ \A k \in 1..Len(inbox') : ran[inbox'[k]] > 0
  BY <1>0 DEF Typed, RepliesEarned
<1> HIDE DEF D
<1> QED BY <1>1, <1>3, <1>4, <1>5, RequestMoves

-----------------------------------------------------------------------------
(* Every step.                                                             *)

\* The steps of the server for a request that end with an answer, and those on
\* the way there.
LEMMA ServerKeepsInv ==
    ASSUME CallsInv, NEW i \in Requests, Cancel(i) \/ LogFails(i) \/ Server(i)
    PROVE  CallsInv'
<1>0. /\ Typed /\ OwnIds /\ RepliesEarned /\ WaitersExact
      /\ req[i] \in Request /\ i \in Nat /\ i # 0
      /\ wire \in Seq(Requests) /\ inbox \in Seq(Requests) /\ \A k \in 1..Len(inbox) : ran[inbox[k]] > 0
      /\ waiters = [d \in DOMAIN waiters |-> d]
      /\ \A d \in DOMAIN waiters : req[d].pc \in {"waiting", "cancelled", "raised"}
      /\ req[i].pc = "waiting" => i \in DOMAIN waiters
      /\ i \in DOMAIN waiters => req[i].pc \in {"waiting", "cancelled", "raised"}
  <2>1. Typed /\ OwnIds /\ RepliesEarned /\ WaitersExact
    BY DEF CallsInv
  <2>2. \A d \in DOMAIN waiters : waiters[d] = d
    BY <2>1 DEF OwnIds
  <2>3. /\ \A d \in DOMAIN waiters : req[d].pc \in {"waiting", "cancelled", "raised"}
        /\ req[i].pc = "waiting" => i \in DOMAIN waiters
    BY <2>1, <2>2 DEF WaitersExact
  <2>4. req[i] \in Request /\ i \in Nat /\ i # 0
    BY <2>1, RequestsAre
  <2>5. wire \in Seq(Requests) /\ inbox \in Seq(Requests) /\ \A k \in 1..Len(inbox) : ran[inbox[k]] > 0
    BY <2>1 DEF Typed, RepliesEarned
  <2>6. waiters = [d \in DOMAIN waiters |-> d]
    BY <2>1 DEF OwnIds
  <2> QED BY <2>1, <2>3, <2>4, <2>5, <2>6
<1>1. ASSUME NEW out \in {Nothing, "error", "no reply", "unauthorized", "ok"}, Answered(i, out),
             req[i].pc \notin {"waiting", "cancelled", "raised"}
      PROVE  CallsInv'
  BY <1>0, <1>1, AnswerKeepsInv DEF Answered, mqtt
<1>2. CASE \/ Unauthorized(i) \/ ListTools(i) \/ ReadResource(i) \/ BadArguments(i) \/ Query(i) \/ Refuse(i)
           \/ Resume(i)
  <2>1. req[i].pc \in {"new", "woken"}
    BY <1>2 DEF Unauthorized, ListTools, ReadResource, BadArguments, Query, Refuse, Resume, Admitted, New
  <2>2. \E out \in {"unauthorized", "ok", "error"} : Answered(i, out)
    BY <1>2 DEF Unauthorized, ListTools, ReadResource, BadArguments, Query, Refuse, Resume, Outcomes
  <2> QED BY <1>1, <2>1, <2>2
<1>3. CASE Logged(i) \/ LogFails(i)
  <2>1. req[i].pc = "logging" /\ (Answered(i, req[i].out) \/ Answered(i, "error"))
    BY <1>3 DEF Logged, LogFails
  <2>2. req[i].out \in {Nothing, "error", "no reply", "unauthorized", "ok"}
    BY <1>0 DEF Request
  <2> QED BY <1>1, <2>1, <2>2
<1>4. CASE CallRefused(i)
  <2>1. wire' = wire /\ Done(i, "error") /\ UNCHANGED <<waiters, ran, inbox>> /\ req[i].pc = "new"
    BY <1>4 DEF CallRefused, NotPublished, Admitted, New
  <2> QED BY <1>0, <2>1, AnswerKeepsInv
<1>5. CASE Timeout(i)
  <2>1. waiters' = Without(i) /\ Done(i, "no reply") /\ UNCHANGED <<wire, ran, inbox>>
    BY <1>5 DEF Timeout, NewCmdId, mqtt
  <2> QED BY <1>0, <2>1, AnswerKeepsInv
<1>6. ASSUME Published(i) \/ NotPublished PROVE wire' \in Seq(Requests)
  BY <1>0, <1>6, QueueMoves DEF Published, NotPublished
<1>7. CASE Call(i)
  <2> DEFINE r == [req[i] EXCEPT !.pc = "waiting"]
             D == DOMAIN waiters \union {i}
  <2>1. r \in Request /\ r.pc = "waiting" /\ r.by = req[i].by
    BY <1>0 DEF Request
  <2>2. req' = [req EXCEPT ![i] = r] /\ ran' = ran /\ inbox' = inbox
    BY <1>0, <1>7, RequestsAre DEF Call
  <2>3. wire' \in Seq(Requests)
    BY <1>6, <1>7 DEF Call
  <2>4. waiters' = [d \in D |-> d]
    <3>1. waiters' = [j \in D |-> IF j = i THEN i ELSE waiters[j]]
      BY <1>7 DEF Call, Register, NewCmdId
    <3>2. \A j \in D : (IF j = i THEN i ELSE waiters[j]) = j
      BY <1>0
    <3> HIDE DEF D
    <3> QED BY <3>1, <3>2
  <2>5. i \in D /\ D \subseteq DOMAIN waiters \union {i} /\ \A d \in DOMAIN waiters : d # i => d \in D
    OBVIOUS
  <2> HIDE DEF D, r
  <2> QED BY <1>0, <2>1, <2>2, <2>3, <2>4, <2>5, RequestMoves
<1>8. CASE Command(i)
  <2>1. PICK out \in {"ok", "error"} : req' = [req EXCEPT ![i].pc = "logging", ![i].out = out]
    BY <1>8 DEF Command
  <2> DEFINE r == [req[i] EXCEPT !.pc = "logging", !.out = out]
             D == DOMAIN waiters
  <2>2. r \in Request /\ r.pc = "logging" /\ r.by = req[i].by
    BY <1>0 DEF Request
  <2>3. req' = [req EXCEPT ![i] = r]
    BY <1>0, <2>1, RequestsAre
  <2>4. wire' \in Seq(Requests) /\ UNCHANGED <<waiters, ran, inbox>> /\ req[i].pc = "new"
    BY <1>6, <1>8 DEF Command, Admitted, New
  <2>5. i \notin D /\ D \subseteq DOMAIN waiters \union {i} /\ (\A d \in DOMAIN waiters : d # i => d \in D)
        /\ waiters' = [d \in D |-> d]
    BY <1>0, <2>4
  <2> HIDE DEF D, r
  <2> QED BY <1>0, <2>2, <2>3, <2>4, <2>5, RequestMoves
<1>9. CASE Cancel(i)
  <2> DEFINE r == [req[i] EXCEPT !.pc = "cancelled"]
             D == DOMAIN waiters
  <2>2. r \in Request /\ r.pc = "cancelled" /\ r.by = req[i].by
    BY <1>0 DEF Request
  <2>3. req' = [req EXCEPT ![i] = r] /\ UNCHANGED <<waiters, ran, inbox, wire>> /\ req[i].pc = "waiting"
    BY <1>0, <1>9, RequestsAre DEF Cancel, mqtt
  <2>5. D \subseteq DOMAIN waiters \union {i} /\ (\A d \in DOMAIN waiters : d # i => d \in D)
        /\ waiters' = [d \in D |-> d]
    BY <1>0, <2>3
  <2> HIDE DEF D, r
  <2> QED BY <1>0, <2>2, <2>3, <2>5, RequestMoves
<1>10. CASE CallRaises(i)
  <2> DEFINE r == [req[i] EXCEPT !.pc = "raised", !.out = "error"]
             D == DOMAIN waiters \union {i}
  <2>1. r \in Request /\ r.pc = "raised" /\ r.by = req[i].by
    BY <1>0 DEF Request
  <2>2. req' = [req EXCEPT ![i] = r] /\ UNCHANGED <<ran, inbox, wire>>
    BY <1>0, <1>10, RequestsAre DEF CallRaises, mqtt
  <2>4. waiters' = [d \in D |-> d]
    <3>1. waiters' = [j \in D |-> IF j = i THEN i ELSE waiters[j]]
      BY <1>10 DEF CallRaises, Register, NewCmdId
    <3>2. \A j \in D : (IF j = i THEN i ELSE waiters[j]) = j
      BY <1>0
    <3> HIDE DEF D
    <3> QED BY <3>1, <3>2
  <2>5. D \subseteq DOMAIN waiters \union {i} /\ \A d \in DOMAIN waiters : d # i => d \in D
    OBVIOUS
  <2> HIDE DEF D, r
  <2> QED BY <1>0, <2>1, <2>2, <2>4, <2>5, RequestMoves
<1> QED BY <1>2, <1>3, <1>4, <1>5, <1>7, <1>8, <1>9, <1>10 DEF Server

\* A reply comes in: it wakes the call that its own command was published for.
LEMMA HandleKeepsInv ==
    ASSUME CallsInv, Handle
    PROVE  CallsInv'
<1>0. /\ Typed /\ OwnIds /\ RepliesEarned /\ WaitersExact
  BY DEF CallsInv
<1>1. /\ inbox # <<>> /\ inbox' = Tail(inbox) /\ wire' = wire /\ ran' = ran
  BY DEF Handle, RecordResult, BadPayload
<1> DEFINE m == Head(inbox)
<1>2. /\ m \in Requests /\ ran[m] > 0 /\ inbox' \in Seq(Requests)
      /\ \A k \in 1..Len(inbox') : ran[inbox'[k]] > 0
  <2>1. /\ m \in Requests /\ Tail(inbox) \in Seq(Requests) /\ 1 \in 1..Len(inbox) /\ m = inbox[1]
        /\ \A k \in 1..Len(Tail(inbox)) : k + 1 \in 1..Len(inbox) /\ Tail(inbox)[k] = inbox[k + 1]
    BY <1>0, <1>1, QueueMoves DEF Typed
  <2> QED BY <1>0, <1>1, <2>1 DEF RepliesEarned
<1>3. CASE UNCHANGED <<req, waiters>>
  <2>1. ran \in Seq(Nat) /\ wire \in Seq(Requests) /\ \A i \in Requests : ran[i] \in Nat
    BY <1>0, RequestsAre DEF Typed
  <2> QED BY <1>1, <1>2, <1>3, <2>1, OthersMove
<1>4. CASE RecordResult /\ m \in DOMAIN waiters
  <2> DEFINE D == DOMAIN waiters \ {m}
             r == IF req[m].pc = "waiting" THEN [req[m] EXCEPT !.pc = "woken", !.by = m] ELSE req[m]
  <2>1. /\ waiters' = Without(m)
        /\ req' = IF req[m].pc = "waiting" THEN [req EXCEPT ![m].pc = "woken", ![m].by = m] ELSE req
    <3>1. waiters[m] = m
      BY <1>0, <1>4 DEF OwnIds
    <3> QED BY <1>4, <3>1 DEF RecordResult, NewCmdId
  <2> HIDE DEF m
  <2>2. req[m] \in Request /\ m \in DOMAIN req /\ m \in Nat /\ req \in Seq(Request)
    BY <1>0, <1>2, RequestsAre DEF Typed
  <2>3. r \in Request /\ r.pc # "waiting" /\ (r.by = req[m].by \/ (r.by = m /\ ran[m] > 0))
    <3>1. CASE req[m].pc = "waiting"
      BY <1>2, <2>2, <3>1 DEF Request
    <3>2. CASE req[m].pc # "waiting"
      BY <2>2, <3>2
    <3> QED BY <3>1, <3>2
  <2>4. req' = [req EXCEPT ![m] = r]
    <3>1. CASE req[m].pc = "waiting"
      BY <2>1, <2>2, <3>1
    <3>2. CASE req[m].pc # "waiting"
      BY <2>1, <2>2, <3>2
    <3> QED BY <3>1, <3>2
  <2>5. waiters' = [d \in D |-> d]
    <3>1. waiters' = [j \in D |-> waiters[j]]
      BY <2>1 DEF Without
    <3>2. \A j \in D : waiters[j] = j
      BY <1>0 DEF OwnIds
    <3> HIDE DEF D
    <3> QED BY <3>1, <3>2
  <2>6. m \notin D /\ D \subseteq DOMAIN waiters \union {m} /\ \A d \in DOMAIN waiters : d # m => d \in D
    OBVIOUS
  <2>7. wire' \in Seq(Requests)
    BY <1>0, <1>1 DEF Typed
  <2> HIDE DEF D, r
  <2> QED BY <1>1, <1>2, <2>3, <2>4, <2>5, <2>6, <2>7, RequestMoves
<1> QED BY <1>3, <1>4 DEF Handle, RecordResult, BadPayload, NewCmdId

\* The board and the broker.
LEMMA BoardKeepsInv ==
    ASSUME CallsInv, Execute \/ Redeliver \/ CommandLost
    PROVE  CallsInv'
<1> DEFINE m == Head(wire)
<1>0. Typed /\ RepliesEarned
  BY DEF CallsInv
<1>1. /\ wire # <<>> /\ UNCHANGED <<req, waiters>>
      /\ m \in Requests /\ Tail(wire) \in Seq(Requests) /\ wire' \in {wire, Tail(wire)}
      /\ wire' \in Seq(Requests)
  <2>1. wire # <<>> /\ UNCHANGED <<req, waiters>> /\ wire' \in {wire, Tail(wire)} /\ wire \in Seq(Requests)
    BY <1>0 DEF Execute, Redeliver, CommandLost, Typed
  <2> QED BY <2>1, QueueMoves
<1>2. /\ ran \in Seq(Nat) /\ m \in 1..Len(ran) /\ ran[m] \in Nat /\ inbox \in Seq(Requests) /\ Requests = 1..Len(ran)
      /\ \A j \in 1..Len(ran) : ran[j] \in Nat
      /\ \A k \in 1..Len(inbox) : inbox[k] \in Requests /\ ran[inbox[k]] > 0
  <2>1. /\ ran \in Seq(Nat) /\ inbox \in Seq(Requests) /\ Len(ran) = Len(req) /\ Requests = 1..Len(req)
        /\ \A i \in Requests : ran[i] \in Nat
    BY <1>0, RequestsAre DEF Typed
  <2>2. \A k \in 1..Len(inbox) : inbox[k] \in Requests /\ ran[inbox[k]] > 0
    BY <1>0, <2>1, ElementOfSeq DEF RepliesEarned
  <2> QED BY <1>1, <2>1, <2>2
<1> HIDE DEF m
<1>3. CASE CommandLost
  <2>1. ran' = ran /\ inbox' = inbox
    BY <1>3 DEF CommandLost
  <2> QED BY <1>1, <1>2, <2>1, OthersMove
<1>4. CASE Execute \/ Redeliver
  <2>1. /\ ran' = [ran EXCEPT ![m] = ran[m] + 1]
        /\ inbox' = inbox \/ inbox' = Append(inbox, m)
    BY <1>4 DEF Execute, Redeliver, m
  <2>2. /\ ran' \in Seq(Nat) /\ Len(ran') = Len(ran) /\ ran'[m] = ran[m] + 1
        /\ \A j \in 1..Len(ran) : j # m => ran'[j] = ran[j]
    BY <1>2, <2>1, ExceptSeq
  <2>3. ASSUME NEW j \in 1..Len(ran) PROVE ran'[j] >= ran[j] /\ (ran[j] > 0 => ran'[j] > 0)
    <3>1. CASE j = m
      <4>1. ran[m] \in Nat /\ ran'[m] = ran[m] + 1
        BY <1>2, <2>2
      <4> QED BY <3>1, <4>1
    <3>2. CASE j # m
      <4>1. ran[j] \in Nat /\ ran'[j] = ran[j]
        BY <1>2, <2>2, <3>2
      <4> QED BY <4>1
    <3> QED BY <3>1, <3>2
  <2>4. ran'[m] > 0
    BY <1>2, <2>2
  <2>5. inbox' \in Seq(Requests) /\ \A k \in 1..Len(inbox') : ran'[inbox'[k]] > 0
    <3>1. CASE inbox' = inbox
      BY <1>2, <2>3, <3>1
    <3>2. CASE inbox' = Append(inbox, m)
      <4>1. /\ inbox' \in Seq(Requests) /\ Len(inbox') = Len(inbox) + 1 /\ inbox'[Len(inbox) + 1] = m /\ Len(inbox) \in Nat
            /\ \A k \in 1..Len(inbox) : inbox'[k] = inbox[k]
        BY <1>1, <1>2, <3>2, QueueMoves
      <4>2. \A k \in 1..Len(inbox') : k \in 1..Len(inbox) \/ k = Len(inbox) + 1
        BY <4>1
      <4> QED BY <1>2, <2>3, <2>4, <4>1, <4>2
    <3> QED BY <2>1, <3>1, <3>2
  <2> QED BY <1>1, <1>2, <2>2, <2>3, <2>5, OthersMove
<1> QED BY <1>3, <1>4

\* The server ends: nobody waits any more.
LEMMA EndKeepsInv ==
    ASSUME CallsInv, ServerEnds
    PROVE  CallsInv'
<1>0. Typed /\ CallGetsItsReply
  BY DEF CallsInv
<1>1. /\ Len(req) \in Nat /\ Requests = 1..Len(req) /\ \A i \in Requests : req[i] \in Request
      /\ ran \in Seq(Nat) /\ Len(ran) = Len(req) /\ wire \in Seq(Requests)
  BY <1>0, RequestsAre DEF Typed
<1>2. /\ waiters' = <<>> /\ inbox' = <<>> /\ ran' = ran /\ wire' = wire
      /\ req' = [i \in Requests |-> IF Open(i) THEN [req[i] EXCEPT !.pc = "lost", !.out = Nothing, !.by = 0] ELSE req[i]]
  BY DEF ServerEnds, mqtt
<1>3. ASSUME NEW i \in Requests
      PROVE  /\ req'[i] \in Request /\ req'[i].pc # "waiting"
             /\ req'[i].by = req[i].by \/ req'[i].by = 0
  <2>1. CASE Open(i)
    <3>1. req'[i] = [req[i] EXCEPT !.pc = "lost", !.out = Nothing, !.by = 0] /\ req[i] \in Request
      BY <1>1, <1>2, <2>1
    <3>2. /\ req'[i] = [line |-> req[i].line, kind |-> req[i].kind, allowed |-> req[i].allowed,
                         pc |-> "lost", by |-> 0, out |-> Nothing]
          /\ req[i].line \in Nat /\ req[i].kind \in Kinds /\ req[i].allowed \in BOOLEAN
      BY <3>1 DEF Request
    <3> HIDE DEF Kinds
    <3> QED BY <3>2 DEF Request, Nothing
  <2>2. CASE ~ Open(i)
    BY <1>1, <1>2, <2>2 DEF Open
  <2> QED BY <2>1, <2>2
<1>4. req' \in Seq(Request) /\ Len(req') = Len(req)
  <2>1. req' \in [1..Len(req) -> Request]
    BY <1>1, <1>2, <1>3
  <2> QED BY <1>1, <2>1, FunctionIsSeq
<1>5. Requests' = Requests
  BY <1>4 DEF Requests
<1>6. DOMAIN waiters' = {} /\ Len(inbox') = 0 /\ inbox' \in Seq(Requests)
  <2>1. <<>> \in Seq(Requests) /\ Len(<<>>) = 0 /\ DOMAIN <<>> = {}
    BY EmptySeq, NoEntries
  <2> QED BY <1>2, <2>1
<1>7. Typed'
  BY <1>1, <1>2, <1>4, <1>5, <1>6 DEF Typed
<1>8. OwnIds' /\ RepliesEarned'
  <2>1. waiters' = [d \in DOMAIN waiters' |-> d]
    BY <1>2, <1>6, NoEntries
  <2> QED BY <1>6, <2>1 DEF OwnIds, RepliesEarned
<1>9. CallGetsItsReply'
  BY <1>0, <1>2, <1>3, <1>5 DEF CallGetsItsReply
<1>10. WaitersExact'
  BY <1>3, <1>5, <1>6 DEF WaitersExact
<1> QED BY <1>7, <1>8, <1>9, <1>10 DEF CallsInv

\* A proxy that is neither idle nor at its end works on a line, which asks for
\* something.
AtTheLine ==
    /\ line \in Seq(Asked)
    /\ proxy \in [pc : {"idle", "first", "asked", "again", "asked again", "ended"}, req : Nat]
    /\ proxy.pc \notin {"idle", "ended"} => line # <<>> /\ line[Len(line)].kind \in Kinds

\* It does so before and after every step.
LEMMA StepKeepsLine ==
    ASSUME AtTheLine, Typed, [Next]_vars
    PROVE  AtTheLine'
<1>1. CASE \E k \in LineKinds, id \in Ids : Line(k, id)
  <2>1. PICK k \in LineKinds, id \in Ids : Line(k, id)
    BY <1>1
  <2> DEFINE x == [kind |-> k, id |-> id]
  <2>2. line \in Seq(Asked) /\ x \in Asked /\ line' = Append(line, x) /\ x.kind = k
    BY <2>1, CallsAssumption DEF AtTheLine, Line, Asked
  <2> HIDE DEF x
  <2>3. line' \in Seq(Asked) /\ Len(line') = Len(line) + 1 /\ Len(line) \in Nat /\ line'[Len(line) + 1] = x
    BY <2>2, QueueMoves
  <2>4. line' # <<>>
    BY <2>3, EmptySeq
  <2>5. PICK pc \in {"idle", "first", "ended"} : proxy' = [pc |-> pc, req |-> 0] /\ (pc = "first" => k \in Kinds)
    BY <2>1 DEF Line
  <2>6. /\ proxy' \in [pc : {"idle", "first", "asked", "again", "asked again", "ended"}, req : Nat]
        /\ proxy'.pc = pc
    BY <2>5
  <2>7. pc = "first" => line'[Len(line')].kind \in Kinds
    BY <2>2, <2>3, <2>5
  <2> QED BY <2>3, <2>4, <2>5, <2>6, <2>7 DEF AtTheLine
<1>2. CASE Forward
  <2>1. Len(req) + 1 \in Nat
    BY RequestsAre
  <2>2. line' = line /\ proxy' = [pc |-> IF proxy.pc = "first" THEN "asked" ELSE "asked again", req |-> Len(req) + 1]
        /\ proxy.pc \in {"first", "again"}
    BY <1>2 DEF Forward
  <2> QED BY <2>1, <2>2 DEF AtTheLine
<1>3. CASE TryAgain
  BY <1>3 DEF TryAgain, AtTheLine
<1>4. CASE Relay \/ FromManifest \/ Unreachable
  <2>1. line' = line /\ proxy' = [pc |-> "idle", req |-> 0]
    BY <1>4 DEF Relay, FromManifest, Unreachable, Reply
  <2>2. proxy' \in [pc : {"idle", "first", "asked", "again", "asked again", "ended"}, req : Nat] /\ proxy'.pc = "idle"
    BY <2>1
  <2> QED BY <2>1, <2>2 DEF AtTheLine
<1>5. CASE UNCHANGED <<line, proxy>>
  BY <1>5 DEF AtTheLine
<1>6. ASSUME NEW k, NEW admin, ApiRead(k) \/ McpRpc(k, admin) \/ DeviceMcp(k, admin) \/ DeviceCommand(k, admin)
      PROVE  UNCHANGED <<line, proxy>>
  BY <1>6 DEF ApiRead, McpRpc, DeviceMcp, DeviceCommand, Direct, client
<1>7. ASSUME NEW i, Cancel(i) \/ LogFails(i) \/ Server(i) PROVE UNCHANGED <<line, proxy>>
  BY <1>7 DEF Cancel, LogFails, Server, Unauthorized, BadArguments, ListTools, ReadResource, Query, Refuse, Call,
              CallRefused, CallRaises, Command, Logged, Resume, Timeout, Answered, client
<1>8. CASE Handle \/ Execute \/ Redeliver \/ CommandLost \/ BridgeDown \/ BridgeUp \/ ServerEnds \/ UNCHANGED vars
  BY <1>5, <1>8 DEF Handle, RecordResult, BadPayload, Execute, Redeliver, CommandLost, BridgeDown, BridgeUp,
                    ServerEnds, vars, client
<1> QED BY <1>1, <1>2, <1>3, <1>4, <1>5, <1>6, <1>7, <1>8 DEF Next

\* Nobody has asked anything yet.
LEMMA InitHasCallsInv == Init => CallsInv /\ AtTheLine
<1> SUFFICES ASSUME Init PROVE CallsInv /\ AtTheLine
  OBVIOUS
<1>1. req = <<>> /\ ran = <<>> /\ wire = <<>> /\ inbox = <<>> /\ waiters = <<>>
  BY DEF Init
<1>2. Requests = {} /\ DOMAIN waiters = {}
  BY <1>1 DEF Requests
<1>3. Typed /\ OwnIds /\ RepliesEarned
  <2>1. <<>> \in Seq(Request) /\ <<>> \in Seq(Nat) /\ <<>> \in Seq(Requests) /\ Len(<<>>) = 0
    BY EmptySeq
  <2>2. waiters = [d \in DOMAIN waiters |-> d]
    BY <1>1, <1>2, NoEntries
  <2> QED BY <1>1, <1>2, <2>1, <2>2 DEF Typed, OwnIds, RepliesEarned
<1>4. CallGetsItsReply /\ WaitersExact
  BY <1>2 DEF CallGetsItsReply, WaitersExact
<1>5. AtTheLine
  BY EmptySeq DEF Init, AtTheLine
<1> QED BY <1>3, <1>4, <1>5 DEF CallsInv

\* Every step keeps the invariant.
LEMMA StepKeepsCallsInv ==
    ASSUME CallsInv, AtTheLine, [Next]_vars
    PROVE  CallsInv'
<1>0. Typed /\ RepliesEarned /\ \A i \in Requests : ran[i] \in Nat
  BY RequestsAre DEF CallsInv
<1>1. CASE UNCHANGED <<req, waiters, wire, ran, inbox>>
  BY <1>0, <1>1, OthersMove DEF Typed, RepliesEarned
<1>2. CASE \/ \E k \in LineKinds, id \in Ids : Line(k, id)
           \/ Relay \/ FromManifest \/ TryAgain \/ Unreachable \/ BridgeDown \/ BridgeUp \/ UNCHANGED vars
  BY <1>1, <1>2 DEF Line, Relay, FromManifest, TryAgain, Unreachable, BridgeDown, BridgeUp, vars, mqtt, client
<1>3. ASSUME NEW k \in Kinds, NEW admin \in BOOLEAN, Direct(k, admin) PROVE CallsInv'
  BY <1>3, RequestArrives DEF Direct
<1>4. ASSUME NEW k \in OtherKinds, ApiRead(k) PROVE CallsInv'
  BY <1>3, <1>4, CallsAssumption DEF ApiRead
<1>5. ASSUME NEW k \in OtherKinds, NEW admin \in BOOLEAN, McpRpc(k, admin) \/ DeviceMcp(k, admin) \/ DeviceCommand(k, admin)
      PROVE  CallsInv'
  BY <1>3, <1>5, CallsAssumption DEF McpRpc, DeviceMcp, DeviceCommand
<1>6. CASE Forward
  <2>1. Len(line) \in Nat /\ line[Len(line)].kind \in Kinds /\ NewRequest(Len(line), line[Len(line)].kind, TRUE)
        /\ UNCHANGED <<waiters, wire, inbox>>
    <3>1. line \in Seq(Asked) /\ line[Len(line)].kind \in Kinds
      BY <1>6 DEF Forward, AtTheLine
    <3>2. Len(line) \in Nat
      BY <3>1, LenProperties
    <3>3. line[Len(line)].kind \in Kinds
      BY <3>1
    <3> QED BY <1>6, <3>2, <3>3 DEF Forward
  <2> QED BY <2>1, RequestArrives
<1>7. CASE (\E i \in Requests : Cancel(i) \/ LogFails(i) \/ Server(i)) \/ Handle
  BY <1>7, ServerKeepsInv, HandleKeepsInv
<1>8. CASE Execute \/ Redeliver \/ CommandLost \/ ServerEnds
  BY <1>8, BoardKeepsInv, EndKeepsInv
<1> QED BY <1>2, <1>4, <1>5, <1>6, <1>7, <1>8 DEF Next

-----------------------------------------------------------------------------
(* The limits.                                                             *)

\* The requests go on, none of them is new again and none changes its line.
Stands ==
    /\ Len(req') = Len(req)
    /\ \A i \in Requests : req'[i].line = req[i].line /\ (req'[i].pc = "new" => req[i].pc = "new")

LEMMA OneStands ==
    ASSUME Typed, NEW i \in Requests, NEW r, req' = [req EXCEPT ![i] = r], r.line = req[i].line, r.pc # "new"
    PROVE  Stands /\ req'[i].pc # "new"
<1>1. Requests = 1..Len(req) /\ DOMAIN req = 1..Len(req) /\ Len(req) \in Nat
  BY RequestsAre
<1>2. DOMAIN req' = 1..Len(req) /\ req'[i] = r /\ \A j \in Requests : j # i => req'[j] = req[j]
  BY <1>1
<1>3. Len(req') = Len(req)
  <2> DEFINE T == {req'[j] : j \in 1..Len(req)}
  <2>1. req' = [j \in 1..Len(req) |-> req'[j]] /\ \A j \in 1..Len(req) : req'[j] \in T
    BY <1>1, <1>2
  <2> HIDE DEF T
  <2>2. req' \in [1..Len(req) -> T]
    BY <2>1
  <2> QED BY <1>1, <2>2, FunctionIsSeq
<1> QED BY <1>2, <1>3 DEF Stands

\* So do those that the server works on.
LEMMA ServerStands ==
    ASSUME CallsInv, NEW i \in Requests, Cancel(i) \/ LogFails(i) \/ Server(i)
    PROVE  Stands /\ req'[i].pc # "new"
<1>0. Typed /\ req[i] \in Request /\ DOMAIN req = Requests
  BY RequestsAre DEF CallsInv
<1>1. ASSUME NEW out, Done(i, out) PROVE Stands /\ req'[i].pc # "new"
  <2>1. CASE req[i].line = 0
    <3> DEFINE r == [req[i] EXCEPT !.pc = "done", !.kind = "query", !.allowed = TRUE, !.out = Nothing]
    <3>1. req' = [req EXCEPT ![i] = r] /\ r.line = req[i].line /\ r.pc = "done"
      BY <1>0, <1>1, <2>1 DEF Done, Request
    <3> HIDE DEF r
    <3> QED BY <1>0, <3>1, OneStands
  <2>2. CASE req[i].line # 0
    <3> DEFINE r == [req[i] EXCEPT !.pc = "done", !.out = out]
    <3>1. req' = [req EXCEPT ![i] = r] /\ r.line = req[i].line /\ r.pc = "done"
      BY <1>0, <1>1, <2>2 DEF Done, Request
    <3> HIDE DEF r
    <3> QED BY <1>0, <3>1, OneStands
  <2> QED BY <2>1, <2>2
<1>2. ASSUME NEW pc \in {"waiting", "cancelled"}, req' = [req EXCEPT ![i].pc = pc] PROVE Stands /\ req'[i].pc # "new"
  <2> DEFINE r == [req[i] EXCEPT !.pc = pc]
  <2>1. req' = [req EXCEPT ![i] = r] /\ r.line = req[i].line /\ r.pc # "new"
    BY <1>0, <1>2 DEF Request
  <2> HIDE DEF r
  <2> QED BY <1>0, <2>1, OneStands
<1>3. CASE Command(i) \/ CallRaises(i)
  <2>1. PICK pc \in {"logging", "raised"}, out \in {"ok", "error"} : req' = [req EXCEPT ![i].pc = pc, ![i].out = out]
    BY <1>3 DEF Command, CallRaises
  <2> DEFINE r == [req[i] EXCEPT !.pc = pc, !.out = out]
  <2>2. req' = [req EXCEPT ![i] = r] /\ r.line = req[i].line /\ r.pc # "new"
    BY <1>0, <2>1 DEF Request
  <2> HIDE DEF r
  <2> QED BY <1>0, <2>2, OneStands
<1>4. CASE Cancel(i) \/ Call(i)
  BY <1>2, <1>4 DEF Cancel, Call
<1>5. CASE \/ Unauthorized(i) \/ ListTools(i) \/ ReadResource(i) \/ BadArguments(i) \/ Query(i) \/ Refuse(i)
           \/ Resume(i) \/ Logged(i) \/ LogFails(i) \/ CallRefused(i) \/ Timeout(i)
  <2>1. \E out : Done(i, out)
    BY <1>5 DEF Unauthorized, ListTools, ReadResource, BadArguments, Query, Refuse, Resume, Logged, LogFails,
                CallRefused, Timeout, Answered
  <2> QED BY <1>1, <2>1
<1> QED BY <1>3, <1>4, <1>5 DEF Server

\* A reply wakes a call, and the end of the server leaves none open.
LEMMA OthersStand ==
    ASSUME CallsInv, Handle \/ ServerEnds
    PROVE  Stands
<1>0. Typed /\ OwnIds /\ DOMAIN req = Requests /\ \A i \in Requests : req[i] \in Request
  BY RequestsAre DEF CallsInv
<1>1. CASE req' = req
  BY <1>1 DEF Stands
<1>2. CASE RecordResult /\ req' # req
  <2>1. PICK i \in Requests : req' = [req EXCEPT ![i].pc = "woken", ![i].by = Head(inbox)]
    <3>1. Head(inbox) \in DOMAIN waiters
      BY <1>2 DEF RecordResult, NewCmdId
    <3>2. waiters[Head(inbox)] \in Requests
      BY <1>0, <3>1 DEF OwnIds
    <3> QED BY <1>2, <3>1, <3>2 DEF RecordResult, NewCmdId
  <2> DEFINE r == [req[i] EXCEPT !.pc = "woken", !.by = Head(inbox)]
  <2>2. req' = [req EXCEPT ![i] = r] /\ r.line = req[i].line /\ r.pc # "new"
    <3>1. req[i] \in Request
      BY <1>0
    <3> QED BY <1>0, <2>1, <3>1 DEF Request
  <2> HIDE DEF r
  <2> QED BY <1>0, <2>2, OneStands
<1>3. CASE ServerEnds
  <2>1. req' = [i \in Requests |-> IF Open(i) THEN [req[i] EXCEPT !.pc = "lost", !.out = Nothing, !.by = 0] ELSE req[i]]
    BY <1>3 DEF ServerEnds
  <2>2. ASSUME NEW i \in Requests
        PROVE  req'[i].line = req[i].line /\ (req'[i].pc = "new" => req[i].pc = "new")
    <3>1. req[i] \in Request
      BY <1>0
    <3> QED BY <2>1, <3>1 DEF Request
  <2>3. Len(req') = Len(req)
    <3> DEFINE T == {req'[j] : j \in 1..Len(req)}
    <3>1. Requests = 1..Len(req) /\ Len(req) \in Nat
      BY <1>0, RequestsAre
    <3>2. DOMAIN req' = 1..Len(req) /\ req' = [j \in 1..Len(req) |-> req'[j]] /\ \A j \in 1..Len(req) : req'[j] \in T
      BY <2>1, <3>1
    <3> HIDE DEF T
    <3>3. req' \in [1..Len(req) -> T]
      BY <3>2
    <3> QED BY <3>1, <3>3, FunctionIsSeq
  <2> QED BY <2>2, <2>3 DEF Stands
<1> QED BY <1>1, <1>2, <1>3 DEF Handle, BadPayload

\* A command is on its way once, and the board executes it twice at most: once
\* for the delivery, and once more if QoS 1 repeats that.
CommandsOnce ==
    /\ \A k, l \in 1..Len(wire) : wire[k] = wire[l] => k = l
    /\ \A k \in 1..Len(wire) : ran[wire[k]] <= 1 /\ req[wire[k]].pc # "new"
    /\ \A i \in Requests : ran[i] <= 2 /\ (req[i].pc = "new" => ran[i] = 0)

\* The requests go on; so does what was published.
LEMMA OnceQuiet ==
    ASSUME CallsInv, CommandsOnce, Stands, UNCHANGED <<wire, ran>>
    PROVE  CommandsOnce'
<1>1. Requests' = Requests /\ \A k \in 1..Len(wire) : wire[k] \in Requests
  BY ElementOfSeq DEF CallsInv, Typed, Stands, Requests
<1> QED BY <1>1 DEF CommandsOnce, Stands

\* A command is published: its request was new.
LEMMA PublishOnce ==
    ASSUME CallsInv, CommandsOnce, Stands, ran' = ran, NEW i \in Requests, req[i].pc = "new", req'[i].pc # "new",
           wire' = Append(wire, i)
    PROVE  CommandsOnce'
<1>0. Typed /\ wire \in Seq(Requests)
  BY DEF CallsInv, Typed
<1>1. /\ Len(wire') = Len(wire) + 1 /\ Len(wire) \in Nat /\ wire'[Len(wire) + 1] = i
      /\ \A k \in 1..Len(wire) : wire'[k] = wire[k] /\ wire[k] \in Requests
  BY <1>0, QueueMoves, ElementOfSeq
<1>2. \A k \in 1..Len(wire') : k \in 1..Len(wire) \/ k = Len(wire) + 1
  BY <1>1
<1>3. Requests' = Requests
  BY DEF Stands, Requests
<1>4. \A k \in 1..Len(wire) : wire[k] # i
  BY DEF CommandsOnce
<1>5. \A k, l \in 1..Len(wire') : wire'[k] = wire'[l] => k = l
  BY <1>1, <1>2, <1>4 DEF CommandsOnce
<1>6. ran[i] = 0
  BY DEF CommandsOnce
<1>7. \A k \in 1..Len(wire') : ran'[wire'[k]] <= 1 /\ req'[wire'[k]].pc # "new"
  <2> SUFFICES ASSUME NEW k \in 1..Len(wire') PROVE ran[wire'[k]] <= 1 /\ req'[wire'[k]].pc # "new"
    OBVIOUS
  <2>1. CASE k \in 1..Len(wire)
    BY <1>1, <2>1 DEF CommandsOnce, Stands
  <2>2. CASE k = Len(wire) + 1
    BY <1>1, <1>6, <2>2
  <2> QED BY <1>2, <2>1, <2>2
<1>8. \A j \in Requests' : ran'[j] <= 2 /\ (req'[j].pc = "new" => ran'[j] = 0)
  BY <1>3 DEF CommandsOnce, Stands
<1> QED BY <1>5, <1>7, <1>8 DEF CommandsOnce

\* The board takes a command from the wire, or is given it twice.
LEMMA BoardOnce ==
    ASSUME CallsInv, CommandsOnce, Execute \/ Redeliver \/ CommandLost
    PROVE  CommandsOnce'
<1> DEFINE m == Head(wire)
<1>0. Typed /\ wire \in Seq(Requests) /\ wire # <<>> /\ req' = req /\ wire' \in {wire, Tail(wire)}
  BY DEF CallsInv, Typed, Execute, Redeliver, CommandLost
<1>1. /\ m \in Requests /\ 1 \in 1..Len(wire) /\ m = wire[1] /\ Requests' = Requests
      /\ \A k \in 1..Len(Tail(wire)) : k + 1 \in 1..Len(wire) /\ Tail(wire)[k] = wire[k + 1]
      /\ Len(wire) \in Nat
      /\ \A k \in 1..Len(wire) : wire[k] \in Requests /\ k \in Nat
  BY <1>0, QueueMoves, ElementOfSeq, LenProperties DEF Requests
<1>2. /\ ran \in Seq(Nat) /\ Requests = 1..Len(ran) /\ \A i \in Requests : ran[i] \in Nat
      /\ ran[m] <= 1
  <2>1. ran[wire[1]] <= 1
    BY <1>1 DEF CommandsOnce
  <2> QED BY <1>0, <1>1, <2>1, RequestsAre DEF Typed
<1> HIDE DEF m
<1>3. CASE wire' = Tail(wire) /\ ran' = ran
  <2>1. Tail(wire) \in Seq(Requests) /\ \A k \in 1..Len(Tail(wire)) : k \in Nat
    BY <1>0, QueueMoves
  <2>2. \A k, l \in 1..Len(wire') : wire'[k] = wire'[l] => k = l
    <3> SUFFICES ASSUME NEW k \in 1..Len(Tail(wire)), NEW l \in 1..Len(Tail(wire)), Tail(wire)[k] = Tail(wire)[l]
                 PROVE  k = l
      BY <1>3
    <3>1. k + 1 = l + 1
      BY <1>1 DEF CommandsOnce
    <3> QED BY <2>1, <3>1
  <2>3. \A k \in 1..Len(wire') : ran'[wire'[k]] <= 1 /\ req'[wire'[k]].pc # "new"
    BY <1>0, <1>1, <1>3 DEF CommandsOnce
  <2> QED BY <1>0, <1>1, <1>3, <2>2, <2>3 DEF CommandsOnce
<1>4. CASE Execute \/ Redeliver
  <2>1. ran' = [ran EXCEPT ![m] = ran[m] + 1]
    BY <1>4 DEF Execute, Redeliver, m
  <2>2. ran'[m] = ran[m] + 1 /\ \A j \in Requests : j # m => ran'[j] = ran[j]
    BY <1>1, <1>2, <2>1, ExceptSeq
  <2>3. req[m].pc # "new"
    BY <1>1 DEF CommandsOnce
  <2>4. \A j \in Requests : ran'[j] <= 2 /\ (req'[j].pc = "new" => ran'[j] = 0)
    <3> SUFFICES ASSUME NEW j \in Requests PROVE ran'[j] <= 2 /\ (req[j].pc = "new" => ran'[j] = 0)
      BY <1>0
    <3>1. CASE j = m
      BY <1>1, <1>2, <2>2, <2>3, <3>1
    <3>2. CASE j # m
      BY <2>2, <3>2 DEF CommandsOnce
    <3> QED BY <3>1, <3>2
  <2>5. CASE Execute
    <3>1. wire' = Tail(wire) /\ Tail(wire) \in Seq(Requests) /\ \A k \in 1..Len(Tail(wire)) : k \in Nat
      BY <1>0, <2>5, QueueMoves DEF Execute
    <3>2. \A k \in 1..Len(Tail(wire)) : wire[k + 1] # m
      <4> SUFFICES ASSUME NEW k \in 1..Len(Tail(wire)), wire[k + 1] = wire[1] PROVE FALSE
        BY <1>1
      <4>1. k + 1 = 1 /\ k \in Nat /\ k # 0
        BY <1>1, <3>1 DEF CommandsOnce
      <4> QED BY <4>1
    <3>3. \A k, l \in 1..Len(wire') : wire'[k] = wire'[l] => k = l
      <4> SUFFICES ASSUME NEW k \in 1..Len(Tail(wire)), NEW l \in 1..Len(Tail(wire)), Tail(wire)[k] = Tail(wire)[l]
                   PROVE  k = l
        BY <3>1
      <4>1. k + 1 = l + 1
        BY <1>1 DEF CommandsOnce
      <4> QED BY <3>1, <4>1
    <3>4. \A k \in 1..Len(wire') : ran'[wire'[k]] <= 1 /\ req'[wire'[k]].pc # "new"
      BY <1>0, <1>1, <2>2, <3>1, <3>2 DEF CommandsOnce
    <3> QED BY <1>1, <2>4, <3>3, <3>4 DEF CommandsOnce
  <2>6. CASE Redeliver
    <3>1. wire' = wire /\ ran[m] = 0
      BY <2>6 DEF Redeliver, m
    <3>2. \A k \in 1..Len(wire) : ran'[wire[k]] <= 1 /\ req'[wire[k]].pc # "new"
      <4> SUFFICES ASSUME NEW k \in 1..Len(wire) PROVE ran'[wire[k]] <= 1 /\ req[wire[k]].pc # "new"
        BY <1>0
      <4>1. ran[wire[k]] <= 1 /\ req[wire[k]].pc # "new" /\ wire[k] \in Requests
        BY <1>1 DEF CommandsOnce
      <4>2. wire[k] = m => ran'[wire[k]] = 1
        BY <2>2, <3>1
      <4>3. wire[k] # m => ran'[wire[k]] = ran[wire[k]]
        BY <2>2, <4>1
      <4> QED BY <4>1, <4>2, <4>3
    <3> QED BY <1>1, <2>4, <3>1, <3>2 DEF CommandsOnce
  <2> QED BY <1>4, <2>5, <2>6
<1>5. CASE CommandLost
  BY <1>3, <1>5 DEF CommandLost
<1> QED BY <1>4, <1>5

\* A new request was not published.
LEMMA ArrivalOnce ==
    ASSUME CallsInv, CommandsOnce, NEW n, NEW k \in Kinds, NEW admin, NewRequest(n, k, admin), wire' = wire
    PROVE  CommandsOnce'
<1> DEFINE r == [line |-> n, kind |-> k, allowed |-> admin \/ ~NeedsAdmin(k), pc |-> "new", by |-> 0, out |-> Nothing]
           S == {req[i] : i \in Requests} \union {r}
<1>1. Typed /\ wire \in Seq(Requests) /\ Requests = 1..Len(req) /\ ran \in Seq(Nat) /\ Len(ran) = Len(req) /\ Len(req) \in Nat
  BY RequestsAre DEF CallsInv, Typed
<1>2. req' = Append(req, r) /\ ran' = Append(ran, 0)
  BY DEF NewRequest
<1>3. req \in Seq(S) /\ r \in S
  <2>1. req \in [1..Len(req) -> S]
    <3>1. req = [i \in 1..Len(req) |-> req[i]]
      BY <1>1, LenProperties DEF Typed
    <3> QED BY <1>1, <3>1
  <2> HIDE DEF S
  <2>2. req \in Seq(S)
    BY <1>1, <2>1, FunctionIsSeq
  <2> QED BY <2>2 DEF S
<1> HIDE DEF r, S
<1>4. /\ Len(req') = Len(req) + 1 /\ \A i \in Requests : req'[i] = req[i] /\ ran'[i] = ran[i]
      /\ ran'[Len(req) + 1] = 0
  BY <1>1, <1>2, <1>3, QueueMoves
<1>5. \A i \in Requests' : i \in Requests \/ i = Len(req) + 1
  BY <1>1, <1>4 DEF Requests
<1>6. \A l \in 1..Len(wire) : wire[l] \in Requests
  BY <1>1, ElementOfSeq
<1>7. \A i \in Requests' : ran'[i] <= 2 /\ (req'[i].pc = "new" => ran'[i] = 0)
  <2> SUFFICES ASSUME NEW i \in Requests' PROVE ran'[i] <= 2 /\ (req'[i].pc = "new" => ran'[i] = 0)
    OBVIOUS
  <2>1. CASE i \in Requests
    BY <1>4, <2>1 DEF CommandsOnce
  <2>2. CASE i = Len(req) + 1
    BY <1>4, <2>2
  <2> QED BY <1>5, <2>1, <2>2
<1> QED BY <1>4, <1>6, <1>7 DEF CommandsOnce

\* What a step does to the queues and the requests.
LEMMA StepKeepsOnce ==
    ASSUME CallsInv, AtTheLine, CommandsOnce, [Next]_vars
    PROVE  CommandsOnce'
<1>0. Typed
  BY DEF CallsInv
<1>1. CASE UNCHANGED <<req, wire, ran>>
  BY <1>1, OnceQuiet DEF Stands
<1>2. CASE \/ \E k \in LineKinds, id \in Ids : Line(k, id)
           \/ Relay \/ FromManifest \/ TryAgain \/ Unreachable \/ BridgeDown \/ BridgeUp \/ UNCHANGED vars
  BY <1>1, <1>2 DEF Line, Relay, FromManifest, TryAgain, Unreachable, BridgeDown, BridgeUp, vars, mqtt, client
<1>3. ASSUME NEW k \in Kinds, NEW admin, Direct(k, admin) PROVE CommandsOnce'
  BY <1>3, ArrivalOnce DEF Direct
<1>4. ASSUME NEW k \in OtherKinds, ApiRead(k) PROVE CommandsOnce'
  BY <1>3, <1>4, CallsAssumption DEF ApiRead
<1>5. ASSUME NEW k \in OtherKinds, NEW admin \in BOOLEAN, McpRpc(k, admin) \/ DeviceMcp(k, admin) \/ DeviceCommand(k, admin)
      PROVE  CommandsOnce'
  BY <1>3, <1>5, CallsAssumption DEF McpRpc, DeviceMcp, DeviceCommand
<1>6. CASE Forward
  <2>1. line[Len(line)].kind \in Kinds /\ NewRequest(Len(line), line[Len(line)].kind, TRUE) /\ wire' = wire
    <3>1. line \in Seq(Asked) /\ line[Len(line)].kind \in Kinds
      BY <1>6 DEF Forward, AtTheLine
    <3>2. Len(line) \in Nat
      BY <3>1, LenProperties
    <3>3. line[Len(line)].kind \in Kinds
      BY <3>1
    <3> QED BY <1>6, <3>3 DEF Forward
  <2> QED BY <2>1, ArrivalOnce
<1>7. ASSUME NEW i \in Requests, Cancel(i) \/ LogFails(i) \/ Server(i) PROVE CommandsOnce'
  <2>1. Stands /\ req'[i].pc # "new" /\ ran' = ran
    BY <1>7, ServerStands DEF Cancel, LogFails, Server, Unauthorized, BadArguments, ListTools, ReadResource, Query,
       Refuse, Call, CallRefused, CallRaises, Command, Logged, Resume, Timeout, Answered, mqtt
  <2>2. wire' = wire \/ (wire' = Append(wire, i) /\ req[i].pc = "new")
    BY <1>7 DEF Cancel, LogFails, Server, Unauthorized, BadArguments, ListTools, ReadResource, Query,
       Refuse, Call, CallRefused, CallRaises, Command, Logged, Resume, Timeout, Answered, mqtt, Published, NotPublished, Admitted, New
  <2> QED BY <2>1, <2>2, OnceQuiet, PublishOnce
<1>8. CASE Handle \/ ServerEnds
  BY <1>8, OthersStand, OnceQuiet DEF Handle, RecordResult, BadPayload, ServerEnds
<1>9. CASE Execute \/ Redeliver \/ CommandLost
  BY <1>9, BoardOnce
<1> QED BY <1>2, <1>4, <1>5, <1>6, <1>7, <1>8, <1>9 DEF Next

Answers == {Nothing, Silent, "error", "no reply", "unauthorized", "ok"}
Standings == {"idle", "first", "asked", "again", "asked again", "ended"}

\* The requests of the others, and how many of its own the proxy may still make:
\* two for each line.
Others == {i \in Requests : req[i].line = 0}
Own == {i \in Requests : req[i].line # 0}
ToCome == IF proxy.pc = "first" THEN 2 ELSE IF proxy.pc \in {"asked", "again"} THEN 1 ELSE 0

\* One answer a line, and two requests for each at most.
ClientStory ==
    /\ up \in BOOLEAN /\ connected \in BOOLEAN /\ tried \in BOOLEAN /\ faults \in 0..MaxFaults
    /\ line \in Seq(Asked) /\ Len(line) <= MaxLines
    /\ answer \in Seq(Answers) /\ Len(answer) = Len(line)
    /\ proxy \in [pc : Standings, req : Nat] /\ proxy.req <= Len(req)
    /\ proxy.pc = "idle" => proxy.req = 0
    /\ proxy.pc # "idle" => Len(line) # 0
    /\ \A i \in Requests : req[i].line <= Len(line)
    /\ Cardinality(Others) <= MaxOther
    /\ Cardinality(Own) + ToCome <= 2 * Len(line)

\* What is unlike the proxy.
LEMMA OtherScalars ==
    ASSUME ClientStory, [Next]_vars
    PROVE  up' \in BOOLEAN /\ connected' \in BOOLEAN /\ tried' \in BOOLEAN /\ faults' \in 0..MaxFaults
<1>0. up \in BOOLEAN /\ connected \in BOOLEAN /\ tried \in BOOLEAN /\ faults \in 0..MaxFaults /\ MaxFaults \in Nat
  BY CallsAssumption DEF ClientStory
<1>1. ASSUME NEW kind, Fault(kind) PROVE faults' \in 0..MaxFaults
  BY <1>0, <1>1 DEF Fault
<1>2. CASE UNCHANGED vars
  BY <1>0, <1>2 DEF vars, client, mqtt
<1>3. ASSUME Autostart PROVE up' \in BOOLEAN /\ tried' \in BOOLEAN
  BY <1>0, <1>3 DEF Autostart, BackendUp
<1>4. CASE \E k \in LineKinds, id \in Ids : Line(k, id)
  BY <1>0, <1>3, <1>4 DEF Line, Fine
<1>5. CASE TryAgain
  BY <1>0, <1>1, <1>3, <1>5 DEF TryAgain, NoAnswer, Fine
<1>6. CASE Forward \/ Relay \/ FromManifest \/ Unreachable
  BY <1>0, <1>1, <1>6 DEF Forward, Relay, FromManifest, Unreachable, NoAnswer, Fine
<1>7. ASSUME NEW k, NEW admin, ApiRead(k) \/ McpRpc(k, admin) \/ DeviceMcp(k, admin) \/ DeviceCommand(k, admin)
      PROVE  UNCHANGED <<up, connected, tried, faults>>
  BY <1>7 DEF ApiRead, McpRpc, DeviceMcp, DeviceCommand, Direct, client
<1>8. ASSUME NEW i, Cancel(i) \/ LogFails(i) \/ Server(i)
      PROVE UNCHANGED <<up, connected, tried>> /\ faults' \in 0..MaxFaults
  BY <1>0, <1>1, <1>8 DEF Cancel, LogFails, Server, Unauthorized, BadArguments, ListTools, ReadResource, Query,
     Refuse, Call, CallRefused, CallRaises, Command, Logged, Resume, Timeout, Answered, Published, NotPublished, Fine, client
<1>9. CASE Handle \/ Execute \/ Redeliver \/ CommandLost \/ BridgeDown \/ BridgeUp \/ ServerEnds
  BY <1>0, <1>1, <1>9 DEF Handle, RecordResult, BadPayload, Execute, Redeliver, CommandLost, BridgeDown, BridgeUp,
     ServerEnds, Fine, client
<1> QED BY <1>0, <1>2, <1>4, <1>5, <1>6, <1>7, <1>8, <1>9 DEF Next

\* The requests and the proxy.
LEMMA CountsKept ==
    ASSUME CallsInv, Stands
    PROVE  Requests' = Requests /\ Others' = Others /\ Own' = Own
<1>1. Requests' = Requests
  BY DEF Stands, Requests
<1> QED BY <1>1 DEF Stands, Others, Own

LEMMA CountsFinite ==
    ASSUME CallsInv
    PROVE  /\ Cardinality(Others) \in Nat /\ Cardinality(Own) \in Nat /\ IsFiniteSet(Others) /\ IsFiniteSet(Own)
           /\ Len(req) = Cardinality(Others) + Cardinality(Own)
<1>1. Len(req) \in Nat /\ Requests = 1..Len(req)
  BY RequestsAre DEF CallsInv
<1>2. IsFiniteSet(1..Len(req)) /\ Cardinality(1..Len(req)) = Len(req)
  <2>1. 1 \in Int /\ Len(req) \in Int
    BY <1>1
  <2>2. IsFiniteSet(1..Len(req)) /\ Cardinality(1..Len(req)) = IF 1 > Len(req) THEN 0 ELSE Len(req) - 1 + 1
    BY <2>1, FS_Interval
  <2> QED BY <1>1, <2>2
<1>3. Others \in SUBSET Requests /\ Own \in SUBSET Requests /\ Requests = Others \union Own /\ Others \cap Own = {}
  BY DEF Others, Own
<1>4. IsFiniteSet(Others) /\ IsFiniteSet(Own)
  BY <1>1, <1>2, <1>3, FS_Subset
<1>5. Cardinality(Others) \in Nat /\ Cardinality(Own) \in Nat
  BY <1>4, FS_CardinalityType
<1>6. Cardinality(Requests) = Cardinality(Others) + Cardinality(Own) - Cardinality({})
  BY <1>3, <1>4, FS_Union
<1>7. Cardinality({}) = 0
  BY FS_EmptySet
<1> QED BY <1>1, <1>2, <1>4, <1>5, <1>6, <1>7

\* A step that leaves the proxy and its lines alone.
LEMMA ClientQuiet ==
    ASSUME CallsInv, ClientStory, [Next]_vars, Stands, UNCHANGED <<line, answer, proxy>>
    PROVE  ClientStory'
<1>1. Requests' = Requests /\ Others' = Others /\ Own' = Own /\ Len(req') = Len(req)
  BY CountsKept DEF Stands
<1>2. up' \in BOOLEAN /\ connected' \in BOOLEAN /\ tried' \in BOOLEAN /\ faults' \in 0..MaxFaults
  BY OtherScalars
<1>3. \A i \in Requests' : req'[i].line <= Len(line')
  BY <1>1 DEF ClientStory, Stands
<1>4. ToCome' = ToCome
  BY DEF ToCome
<1> QED BY <1>1, <1>2, <1>3, <1>4 DEF ClientStory

\* One request more.
LEMMA CountsGrow ==
    ASSUME CallsInv, NEW n \in Nat, NEW k \in Kinds, NEW admin, NewRequest(n, k, admin)
    PROVE  /\ Len(req') = Len(req) + 1
           /\ \A i \in Requests' : (i \in Requests /\ req'[i] = req[i]) \/ (i = Len(req) + 1 /\ req'[i].line = n)
           /\ n = 0 => Cardinality(Others') = Cardinality(Others) + 1 /\ Own' = Own
           /\ n # 0 => Cardinality(Own') = Cardinality(Own) + 1 /\ Others' = Others
<1> DEFINE r == [line |-> n, kind |-> k, allowed |-> admin \/ ~NeedsAdmin(k), pc |-> "new", by |-> 0, out |-> Nothing]
           S == {req[i] : i \in Requests} \union {r}
           x == Len(req) + 1
<1>1. Typed /\ Requests = 1..Len(req) /\ Len(req) \in Nat
  BY RequestsAre DEF CallsInv
<1>2. req' = Append(req, r)
  BY DEF NewRequest
<1>3. req \in Seq(S) /\ r \in S
  <2>1. req \in [1..Len(req) -> S]
    <3>1. req = [i \in 1..Len(req) |-> req[i]]
      BY <1>1, LenProperties DEF Typed
    <3> QED BY <1>1, <3>1
  <2> HIDE DEF S
  <2>2. req \in Seq(S)
    BY <1>1, <2>1, FunctionIsSeq
  <2> QED BY <2>2 DEF S
<1>4. r.line = n
  OBVIOUS
<1> HIDE DEF r, S
<1>5. Len(req') = Len(req) + 1 /\ req'[x] = r /\ \A i \in Requests : req'[i] = req[i]
  BY <1>1, <1>2, <1>3, QueueMoves
<1>6. x \notin Requests /\ Requests' = Requests \union {x}
  BY <1>1, <1>5 DEF Requests
<1> HIDE DEF x
<1>7. n = 0 => Others' = Others \union {x} /\ Own' = Own
  BY <1>4, <1>5, <1>6 DEF Others, Own
<1>8. n # 0 => Own' = Own \union {x} /\ Others' = Others
  BY <1>4, <1>5, <1>6 DEF Others, Own
<1>9. x \notin Others /\ x \notin Own
  BY <1>6 DEF Others, Own
<1>10. /\ Cardinality(Others \union {x}) = Cardinality(Others) + 1
       /\ Cardinality(Own \union {x}) = Cardinality(Own) + 1
  BY <1>9, CountsFinite, FS_AddElement
<1>11. \A i \in Requests' : (i \in Requests /\ req'[i] = req[i]) \/ (i = x /\ req'[i].line = n)
  BY <1>4, <1>5, <1>6
<1> QED BY <1>5, <1>7, <1>8, <1>10, <1>11 DEF x

\* The client writes a line, and the proxy has two tries for it.
LEMMA LineTypes ==
    ASSUME CallsInv, ClientStory, [Next]_vars, NEW k \in LineKinds, NEW id \in Ids, Line(k, id)
    PROVE  ClientStory'
<1> DEFINE x == [kind |-> k, id |-> id]
<1>1. /\ line' = Append(line, x) /\ Len(line) < MaxLines /\ req' = req /\ x \in Asked
      /\ \E a \in {"ok", Nothing} : answer' = Append(answer, a)
      /\ \E pc \in {"idle", "first", "ended"} : proxy' = [pc |-> pc, req |-> 0]
      /\ proxy.pc = "idle"
  BY CallsAssumption DEF Line, Asked, Written
<1> HIDE DEF x
<1>2. Stands /\ Requests' = Requests /\ Others' = Others /\ Own' = Own /\ Len(req') = Len(req) /\ Len(req) \in Nat
  BY <1>1, CountsKept, RequestsAre DEF Stands, CallsInv
<1>3. line' \in Seq(Asked) /\ Len(line') = Len(line) + 1 /\ Len(line) \in Nat /\ Len(line') <= MaxLines
  <2>1. line \in Seq(Asked)
    BY DEF ClientStory
  <2>2. line' \in Seq(Asked) /\ Len(line') = Len(line) + 1 /\ Len(line) \in Nat
    BY <1>1, <2>1, QueueMoves
  <2> QED BY <1>1, <2>2, CallsAssumption
<1>4. answer' \in Seq(Answers) /\ Len(answer') = Len(answer) + 1
  <2>1. \A a \in {"ok", Nothing} : a \in Answers
    BY DEF Answers
  <2>2. answer \in Seq(Answers)
    BY DEF ClientStory
  <2> QED BY <1>1, <2>1, <2>2, QueueMoves
<1>5. proxy' \in [pc : Standings, req : Nat] /\ proxy'.req = 0 /\ proxy'.pc \in {"idle", "first", "ended"}
  <2>1. PICK pc \in {"idle", "first", "ended"} : proxy' = [pc |-> pc, req |-> 0]
    BY <1>1
  <2>2. pc \in Standings
    BY DEF Standings
  <2> QED BY <2>1, <2>2
<1>6. \A i \in Requests' : req'[i].line <= Len(line')
  <2> SUFFICES ASSUME NEW i \in Requests PROVE req[i].line <= Len(line')
    BY <1>1, <1>2
  <2>1. req[i].line <= Len(line) /\ req[i].line \in Nat
    BY RequestsAre DEF ClientStory, CallsInv, Request
  <2> QED BY <1>3, <2>1
<1>7. Cardinality(Own') + ToCome' <= 2 * Len(line')
  <2>1. Cardinality(Own) \in Nat /\ Cardinality(Own) + 0 <= 2 * Len(line)
    BY <1>1, CountsFinite DEF ClientStory, ToCome
  <2>2. ToCome' \in {0, 2}
    BY <1>5 DEF ToCome
  <2>3. Cardinality(Own') = Cardinality(Own)
    BY <1>2
  <2> QED BY <1>3, <2>1, <2>2, <2>3
<1>8. up' \in BOOLEAN /\ connected' \in BOOLEAN /\ tried' \in BOOLEAN /\ faults' \in 0..MaxFaults
  BY OtherScalars
<1>9. Len(line') # 0 /\ proxy'.req <= Len(req') /\ Len(answer') = Len(line')
  BY <1>2, <1>3, <1>4, <1>5 DEF ClientStory
<1>10. Cardinality(Others') <= MaxOther
  BY <1>2 DEF ClientStory
<1> QED BY <1>3, <1>4, <1>5, <1>6, <1>7, <1>8, <1>9, <1>10 DEF ClientStory

\* A try reaches the server.
LEMMA ForwardTypes ==
    ASSUME CallsInv, ClientStory, AtTheLine, [Next]_vars, Forward
    PROVE  ClientStory'
<1>1. NewRequest(Len(line), line[Len(line)].kind, TRUE)
  BY DEF Forward
<1>0. /\ proxy.pc \in {"first", "again"} /\ line' = line /\ answer' = answer
      /\ proxy' = [pc |-> IF proxy.pc = "first" THEN "asked" ELSE "asked again", req |-> Len(req) + 1]
  BY DEF Forward
<1>2. line \in Seq(Asked) /\ Len(line) \in Nat /\ Len(line) # 0 /\ line[Len(line)].kind \in Kinds
  <2>1. line \in Seq(Asked) /\ Len(line) # 0
    BY <1>0 DEF ClientStory
  <2>2. Len(line) \in Nat
    BY <2>1, LenProperties
  <2>3. line[Len(line)].kind \in Kinds
    BY <1>0 DEF AtTheLine
  <2> QED BY <2>1, <2>2, <2>3
<1>3. /\ Len(req') = Len(req) + 1 /\ Len(req) \in Nat
      /\ \A i \in Requests' : (i \in Requests /\ req'[i] = req[i]) \/ (i = Len(req) + 1 /\ req'[i].line = Len(line))
      /\ Cardinality(Own') = Cardinality(Own) + 1 /\ Others' = Others
  BY <1>1, <1>2, CountsGrow, RequestsAre DEF CallsInv
<1>4. \A i \in Requests' : req'[i].line <= Len(line')
  <2> SUFFICES ASSUME NEW i \in Requests' PROVE req'[i].line <= Len(line)
    BY <1>0
  <2>1. i \in Requests => req[i].line <= Len(line)
    BY DEF ClientStory
  <2>2. (i \in Requests /\ req'[i] = req[i]) \/ req'[i].line = Len(line)
    BY <1>3
  <2> QED BY <1>2, <2>1, <2>2
<1>5. /\ proxy' \in [pc : Standings, req : Nat] /\ proxy'.req = Len(req) + 1
      /\ (proxy.pc = "first" /\ proxy'.pc = "asked") \/ (proxy.pc = "again" /\ proxy'.pc = "asked again")
  <2>2. Len(req) + 1 \in Nat
    <3>1. Len(req) \in Nat
      BY RequestsAre DEF CallsInv
    <3> QED BY <3>1
  <2>1. PICK pc \in {"asked", "asked again"} : proxy' = [pc |-> pc, req |-> Len(req) + 1]
    BY <1>0
  <2>0. pc \in Standings
    BY DEF Standings
  <2>3. proxy' \in [pc : Standings, req : Nat] /\ proxy'.req = Len(req) + 1
    BY <2>0, <2>1, <2>2
  <2>4. proxy.pc = "first" => proxy'.pc = "asked"
    BY <1>0
  <2>5. proxy.pc = "again" => proxy'.pc = "asked again"
    BY <1>0
  <2> QED BY <1>0, <2>3, <2>4, <2>5
<1>6. Cardinality(Own') + ToCome' <= 2 * Len(line')
  <2>1. Cardinality(Own) \in Nat /\ Cardinality(Own) + ToCome <= 2 * Len(line)
    BY CountsFinite DEF ClientStory
  <2>2. (ToCome = 2 /\ ToCome' = 1) \/ (ToCome = 1 /\ ToCome' = 0)
    BY <1>5 DEF ToCome
  <2>3. Cardinality(Own') = Cardinality(Own) + 1 /\ Len(line') = Len(line)
    BY <1>0, <1>3
  <2> QED BY <1>2, <2>1, <2>2, <2>3
<1>7. up' \in BOOLEAN /\ connected' \in BOOLEAN /\ tried' \in BOOLEAN /\ faults' \in 0..MaxFaults
  BY OtherScalars
<1>8. proxy'.req <= Len(req')
  <2>1. proxy'.req = Len(req) + 1 /\ Len(req') = Len(req) + 1
    BY <1>3, <1>5
  <2> QED BY <1>3, <2>1
<1>9. Cardinality(Others') <= MaxOther
  BY <1>3 DEF ClientStory
<1> QED BY <1>0, <1>2, <1>4, <1>5, <1>6, <1>7, <1>8, <1>9 DEF ClientStory

\* Others ask as long as they may.
LEMMA DirectTypes ==
    ASSUME CallsInv, ClientStory, [Next]_vars, NEW k \in Kinds, NEW admin, Direct(k, admin)
    PROVE  ClientStory'
<1>1. NewRequest(0, k, admin) /\ UNCHANGED <<line, answer, proxy>> /\ Cardinality(Others) < MaxOther
  BY DEF Direct, client, Others
<1>2. /\ Len(req') = Len(req) + 1 /\ Len(req) \in Nat
      /\ \A i \in Requests' : (i \in Requests /\ req'[i] = req[i]) \/ (i = Len(req) + 1 /\ req'[i].line = 0)
      /\ Cardinality(Others') = Cardinality(Others) + 1 /\ Own' = Own
  BY <1>1, CountsGrow, RequestsAre DEF CallsInv
<1>3. Len(line) \in Nat
  BY LenProperties DEF ClientStory
<1>4. \A i \in Requests' : req'[i].line <= Len(line')
  BY <1>1, <1>2, <1>3 DEF ClientStory
<1>5. Cardinality(Others') <= MaxOther
  <2>1. Cardinality(Others) \in Nat /\ MaxOther \in Nat
    BY CountsFinite, CallsAssumption
  <2> QED BY <1>1, <1>2, <2>1
<1>6. proxy'.req <= Len(req')
  BY <1>1, <1>2 DEF ClientStory
<1>7. up' \in BOOLEAN /\ connected' \in BOOLEAN /\ tried' \in BOOLEAN /\ faults' \in 0..MaxFaults
  BY OtherScalars
<1>8. Cardinality(Own') + ToCome' <= 2 * Len(line')
  BY <1>1, <1>2 DEF ClientStory, ToCome
<1> QED BY <1>1, <1>4, <1>5, <1>6, <1>7, <1>8 DEF ClientStory

\* The proxy answers a line, or goes on with it.
LEMMA ProxyTypes ==
    ASSUME CallsInv, ClientStory, [Next]_vars, Relay \/ FromManifest \/ TryAgain \/ Unreachable
    PROVE  ClientStory'
<1>1. req' = req /\ line' = line
  BY DEF Relay, FromManifest, TryAgain, Unreachable, Reply
<1>2. Stands /\ Requests' = Requests /\ Others' = Others /\ Own' = Own /\ Len(req') = Len(req) /\ Len(req) \in Nat
  BY <1>1, CountsKept, RequestsAre DEF Stands, CallsInv
<1>3. up' \in BOOLEAN /\ connected' \in BOOLEAN /\ tried' \in BOOLEAN /\ faults' \in 0..MaxFaults
  BY OtherScalars
<1>4. Cardinality(Own) \in Nat /\ Len(line) \in Nat
  BY CountsFinite, LenProperties DEF ClientStory
<1>5. /\ proxy' \in [pc : Standings, req : Nat] /\ proxy'.req = 0 /\ (proxy'.pc # "idle" => Len(line) # 0)
      /\ Cardinality(Own') + ToCome' <= 2 * Len(line')
  <2>1. CASE TryAgain
    <3>1. proxy' = [pc |-> "again", req |-> 0] /\ proxy.pc \in {"first", "asked"}
      BY <2>1 DEF TryAgain
    <3>2. proxy' \in [pc : Standings, req : Nat] /\ proxy'.req = 0 /\ proxy'.pc = "again"
      BY <3>1 DEF Standings
    <3>3. ToCome' = 1 /\ ToCome \in {1, 2}
      BY <3>1, <3>2 DEF ToCome
    <3> QED BY <1>1, <1>2, <1>4, <3>1, <3>2, <3>3 DEF ClientStory
  <2>2. CASE ~ TryAgain
    <3>1. proxy' = [pc |-> "idle", req |-> 0]
      BY <2>2 DEF Relay, FromManifest, Unreachable, Reply
    <3>2. proxy' \in [pc : Standings, req : Nat] /\ proxy'.req = 0 /\ proxy'.pc = "idle"
      BY <3>1 DEF Standings
    <3>3. ToCome' = 0 /\ ToCome \in {0, 1, 2}
      BY <3>2 DEF ToCome
    <3>4. Cardinality(Own) + ToCome <= 2 * Len(line)
      BY DEF ClientStory
    <3> QED BY <1>1, <1>2, <1>4, <3>2, <3>3, <3>4
  <2> QED BY <2>1, <2>2
<1>6. answer' \in Seq(Answers) /\ Len(answer') = Len(line')
  <2>1. CASE answer' = answer
    BY <1>1, <2>1 DEF ClientStory
  <2>2. CASE answer' # answer
    <3>0. \A a \in Answers : Written(line[Len(line)].id, a) \in Answers
      BY DEF Answers, Written
    <3>1. PICK a \in Answers : answer' = [answer EXCEPT ![Len(line)] = a]
      <4>1. CASE Relay
        <5>1. proxy.req \in 1..Len(req)
          BY <1>2, <4>1 DEF Relay, ClientStory
        <5>2. req[proxy.req] \in Request
          BY <5>1, RequestsAre DEF CallsInv
        <5>3. req[proxy.req].out \in Answers
          BY <5>2 DEF Request, Answers
        <5> QED BY <3>0, <4>1, <5>3 DEF Relay, Reply
      <4>2. CASE FromManifest \/ Unreachable
        <5>1. Silent \in Answers /\ "ok" \in Answers
          BY DEF Answers
        <5> QED BY <3>0, <4>2, <5>1 DEF FromManifest, Unreachable, Reply
      <4> QED BY <2>2, <4>1, <4>2 DEF TryAgain
    <3>2. answer \in Seq(Answers) /\ Len(answer) = Len(line) /\ Len(answer) \in Nat
      BY LenProperties DEF ClientStory
    <3>3. proxy.pc # "idle"
      BY DEF ClientStory, Relay, FromManifest, Unreachable, TryAgain, NoAnswer
    <3>4. Len(line) \in 1..Len(answer)
      BY <1>4, <3>2, <3>3 DEF ClientStory
    <3>5. answer' \in Seq(Answers) /\ Len(answer') = Len(answer)
      BY <3>1, <3>2, <3>4, ExceptSeq
    <3> QED BY <1>1, <3>2, <3>5
  <2> QED BY <2>1, <2>2
<1>7. \A i \in Requests' : req'[i].line <= Len(line')
  BY <1>1, <1>2 DEF ClientStory
<1>8. proxy'.req <= Len(req') /\ Cardinality(Others') <= MaxOther
  BY <1>2, <1>5 DEF ClientStory
<1> QED BY <1>1, <1>3, <1>5, <1>6, <1>7, <1>8 DEF ClientStory

LEMMA StepKeepsClient ==
    ASSUME CallsInv, ClientStory, AtTheLine, [Next]_vars
    PROVE  ClientStory'
<1>1. CASE UNCHANGED <<req, line, answer, proxy>>
  <2>1. Stands
    BY <1>1 DEF Stands
  <2> QED BY <1>1, <2>1, ClientQuiet
<1>2. CASE BridgeDown \/ BridgeUp \/ Execute \/ Redeliver \/ CommandLost \/ BadPayload \/ UNCHANGED vars
  BY <1>1, <1>2 DEF BridgeDown, BridgeUp, Execute, Redeliver, CommandLost, BadPayload, vars, client
<1>3. CASE RecordResult \/ ServerEnds
  <2>1. Stands /\ UNCHANGED <<line, answer, proxy>>
    BY <1>3, OthersStand DEF Handle, RecordResult, ServerEnds, client
  <2> QED BY <2>1, ClientQuiet
<1>4. ASSUME NEW i \in Requests, Cancel(i) \/ LogFails(i) \/ Server(i) PROVE ClientStory'
  <2>1. UNCHANGED <<line, answer, proxy>>
    BY <1>4 DEF Cancel, LogFails, Server, Unauthorized, BadArguments, ListTools, ReadResource, Query, Refuse, Call,
                CallRefused, CallRaises, Command, Logged, Resume, Timeout, Answered, client
  <2>2. Stands
    BY <1>4, ServerStands
  <2> QED BY <2>1, <2>2, ClientQuiet
<1>5. ASSUME NEW k \in OtherKinds, ApiRead(k) PROVE ClientStory'
  BY <1>5, DirectTypes, CallsAssumption DEF ApiRead
<1>6. ASSUME NEW k \in OtherKinds, NEW admin \in BOOLEAN, McpRpc(k, admin) \/ DeviceMcp(k, admin) \/ DeviceCommand(k, admin)
      PROVE  ClientStory'
  BY <1>6, DirectTypes, CallsAssumption DEF McpRpc, DeviceMcp, DeviceCommand
<1>7. CASE (\E k \in LineKinds, id \in Ids : Line(k, id)) \/ Forward \/ Relay \/ FromManifest \/ TryAgain \/ Unreachable
  BY <1>7, LineTypes, ForwardTypes, ProxyTypes
<1> QED BY <1>2, <1>3, <1>4, <1>5, <1>6, <1>7 DEF Next, Handle

\* Nobody has asked anything, and nothing was published.
LEMMA InitHasStory == Init => ClientStory /\ CommandsOnce
<1> SUFFICES ASSUME Init PROVE ClientStory /\ CommandsOnce
  OBVIOUS
<1>1. /\ req = <<>> /\ wire = <<>> /\ ran = <<>> /\ line = <<>> /\ answer = <<>> /\ Len(<<>>) = 0 /\ 1..0 = {}
      /\ proxy = [pc |-> "idle", req |-> 0]
      /\ MaxLines \in Nat /\ MaxOther \in Nat /\ MaxFaults \in Nat
  BY CallsAssumption DEF Init
<1>2. Requests = {} /\ Others = {} /\ Own = {}
  BY <1>1 DEF Requests, Others, Own
<1>3. Cardinality(Others) = 0 /\ Cardinality(Own) = 0
  BY <1>2, FS_EmptySet
<1>4. proxy \in [pc : Standings, req : Nat] /\ proxy.pc = "idle" /\ proxy.req = 0 /\ ToCome = 0
  BY <1>1 DEF Standings, ToCome
<1>5. CommandsOnce
  BY <1>1, <1>2 DEF CommandsOnce
<1>6. line \in Seq(Asked) /\ answer \in Seq(Answers)
  BY <1>1, EmptySeq
<1>7. up \in BOOLEAN /\ connected \in BOOLEAN /\ tried \in BOOLEAN /\ faults \in 0..MaxFaults
  <2>1. up \in BOOLEAN /\ connected = up /\ tried = FALSE /\ faults = 0
    BY DEF Init
  <2>2. connected \in BOOLEAN /\ tried \in BOOLEAN
    BY <2>1, Zenon
  <2>3. faults \in 0..MaxFaults
    BY <1>1, <2>1
  <2> QED BY <2>1, <2>2, <2>3
<1>8. Cardinality(Own) + ToCome <= 2 * Len(line) /\ Cardinality(Others) <= MaxOther
  BY <1>1, <1>3, <1>4
<1>9. Len(line) <= MaxLines /\ Len(answer) = Len(line) /\ proxy.req <= Len(req)
  BY <1>1, <1>4
<1> QED BY <1>2, <1>4, <1>5, <1>6, <1>7, <1>8, <1>9 DEF ClientStory

\* What the limits are, of all that was said.
LEMMA StoryHasTypes ==
    ASSUME CallsInv, ClientStory, CommandsOnce
    PROVE  CallsTypeOK
<1>1. Typed /\ OwnIds /\ CallGetsItsReply
  BY DEF CallsInv
<1>2. /\ Len(req) \in Nat /\ Requests = 1..Len(req) /\ DOMAIN req = Requests
      /\ \A i \in Requests : req[i] \in Request /\ ran[i] \in Nat
  BY <1>1, RequestsAre
<1>3. Len(req) <= 2 * MaxLines + MaxOther
  <2>1. /\ Cardinality(Others) \in Nat /\ Cardinality(Own) \in Nat /\ Len(req) = Cardinality(Others) + Cardinality(Own)
        /\ Cardinality(Others) <= MaxOther /\ Cardinality(Own) + ToCome <= 2 * Len(line)
    BY CountsFinite DEF ClientStory
  <2>2. ToCome \in {0, 1, 2} /\ Len(line) \in Nat /\ Len(line) <= MaxLines /\ MaxLines \in Nat /\ MaxOther \in Nat
    BY LenProperties, CallsAssumption DEF ClientStory, ToCome
  <2> QED BY <2>1, <2>2
<1>4. answer \in [Lines -> {Nothing, Silent, "error", "no reply", "unauthorized", "ok"}]
  <2>1. answer \in Seq(Answers) /\ Len(answer) = Len(line)
    BY DEF ClientStory
  <2>2. answer \in [1..Len(answer) -> Answers]
    BY <2>1, LenProperties
  <2> QED BY <2>1, <2>2 DEF Lines, Answers
<1>5. proxy \in [pc : {"idle", "first", "asked", "again", "asked again", "ended"}, req : 0..Len(req)]
  <2>1. proxy \in [pc : Standings, req : Nat] /\ proxy.req <= Len(req)
    BY DEF ClientStory
  <2>2. proxy.req \in 0..Len(req)
    BY <1>2, <2>1
  <2> QED BY <2>1, <2>2 DEF Standings
<1>6. ASSUME NEW i \in Requests
      PROVE  /\ req[i].line \in {0} \union Lines /\ req[i].kind \in Kinds /\ req[i].allowed \in BOOLEAN
             /\ req[i].pc \in {"new", "waiting", "woken", "logging", "cancelled", "raised", "done", "lost"}
             /\ req[i].by \in {0} \union Requests
             /\ req[i].out \in {Nothing, "error", "no reply", "unauthorized", "ok"}
  <2>1. req[i] \in Request
    BY <1>2
  <2>2. /\ req[i].line \in Nat /\ req[i].kind \in Kinds /\ req[i].allowed \in BOOLEAN
        /\ req[i].pc \in {"new", "waiting", "woken", "logging", "cancelled", "raised", "done", "lost"}
        /\ req[i].out \in {Nothing, "error", "no reply", "unauthorized", "ok"}
    BY <2>1 DEF Request
  <2>3. req[i].line <= Len(line) /\ Len(line) \in Nat
    BY LenProperties DEF ClientStory
  <2>4. req[i].line \in {0} \union Lines
    <3>0. \A a, b \in Nat : a <= b => a = 0 \/ a \in 1..b
      OBVIOUS
    <3>1. req[i].line = 0 \/ req[i].line \in 1..Len(line)
      BY <2>2, <2>3, <3>0
    <3> QED BY <3>1 DEF Lines
  <2>5. req[i].by \in {0} \union Requests
    BY <1>1 DEF CallGetsItsReply
  <2> QED BY <2>2, <2>4, <2>5
<1>7. ran \in [Requests -> 0..2]
  <2>1. ran \in Seq(Nat) /\ Len(ran) = Len(req)
    BY <1>1 DEF Typed
  <2>2. ran = [i \in Requests |-> ran[i]]
    BY <1>2, <2>1, LenProperties
  <2>3. \A i \in Requests : ran[i] \in 0..2
    BY <1>2 DEF CommandsOnce
  <2> QED BY <2>2, <2>3
<1>8. wire \in Seq(Requests) /\ inbox \in Seq(Requests)
  BY <1>1 DEF Typed
<1>9. DOMAIN waiters \subseteq Requests /\ \A d \in DOMAIN waiters : waiters[d] \in Requests
  BY <1>1 DEF OwnIds
<1> QED BY <1>3, <1>4, <1>5, <1>6, <1>7, <1>8, <1>9 DEF CallsTypeOK, ClientStory

-----------------------------------------------------------------------------
(* The theorems.                                                           *)

\* Commands, replies and futures name requests; every future is kept under the
\* id of its own request, and every reply is to a command that was executed:
\* _new_cmd_id() and _waiters of FleetRegistry, _handle() of the bridge.
THEOREM CallsInvAlways == Spec => []CallsInv
<1>1. CallsInv /\ AtTheLine /\ [Next]_vars => CallsInv' /\ AtTheLine'
  BY StepKeepsCallsInv, StepKeepsLine DEF CallsInv
<1> QED BY <1>1, InitHasCallsInv, PTL DEF Spec

\* A request that is answered by the board is answered by the reply to its own
\* command: call_device() and record_cmd_result().
THEOREM OwnReplyAnswers == Spec => []CallGetsItsReply
<1>1. CallsInv => CallGetsItsReply
  BY DEF CallsInv
<1> QED BY <1>1, CallsInvAlways, PTL

\* A timeout, a reply and a refused publish leave no future behind, and no call
\* waits without one: what is kept is the futures of the calls that wait, of
\* callers cancelled while they wait, whose entry stays until the reply to it
\* comes, and of those whose publish raised, whose entry stays for good.
\* call_device() and record_cmd_result().
THEOREM WaitersAreExact == Spec => []WaitersExact
<1>1. CallsInv => WaitersExact
  BY DEF CallsInv
<1> QED BY <1>1, CallsInvAlways, PTL

\* The proxy makes two requests for a line at most, each line has its one answer,
\* and the board executes a command once, or twice where the broker repeats it:
\* handle() of the proxy, publish_command(), call_device() and send_command().
THEOREM CallsTypes == Spec => []CallsTypeOK
<1>1. Init => CallsInv /\ AtTheLine /\ ClientStory /\ CommandsOnce
  BY InitHasCallsInv, InitHasStory
<1>2. CallsInv /\ AtTheLine /\ ClientStory /\ CommandsOnce /\ [Next]_vars => (CallsInv /\ AtTheLine /\ ClientStory /\ CommandsOnce)'
  <2>1. CallsInv => Typed
    BY DEF CallsInv
  <2> QED BY <2>1, StepKeepsCallsInv, StepKeepsLine, StepKeepsClient, StepKeepsOnce
<1>3. CallsInv /\ AtTheLine /\ ClientStory /\ CommandsOnce => CallsTypeOK
  BY StoryHasTypes
<1> QED BY <1>1, <1>2, <1>3, PTL DEF Spec

=============================================================================
