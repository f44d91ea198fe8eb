---------------------------- MODULE DeviceCalls ----------------------------
(***************************************************************************)
(* A call on its way to a board and back: the stdio proxy of an MCP client *)
(* (mcp_stdio_proxy.py) forwards a line to the fleet server, tries again   *)
(* when there is no answer, and answers for itself in the end; other       *)
(* clients ask the server over HTTP.  The server checks the request, then  *)
(* call_device() publishes it under an id of its own and waits, with a     *)
(* limit, for the future that the bridge resolves when the reply comes in  *)
(* on cmd/result; send_command() does not wait.                            *)
(*                                                                         *)
(* A command is the number of the request it was published for.  The       *)
(* board and the broker are outside of this repository's server: a command *)
(* or a reply may be lost, a command may be delivered twice.  A definition *)
(* that is called a deviation is an operation with a mistake in it, to be  *)
(* put in the place of the one that follows it.                            *)
(***************************************************************************)
EXTENDS Integers, Sequences, FiniteSets

CONSTANTS
    LineKinds,  \* what the client of the proxy writes
    Ids,        \* and with which ids
    OtherKinds, \* what others ask for over HTTP
    MaxLines,   \* bound of the model: lines of the client of the proxy
    MaxOther,   \* bound of the model: requests of others over HTTP
    Trouble,    \* bound of the model: what may go wrong: "slow", "server", "store", "board", "broker", "cancel", "twice"
    MaxFaults   \* bound of the model: and how often

VARIABLES
    up,         \* the server runs
    connected,  \* MqttBridge.connected
    line,       \* the lines main() has read: what they ask for, and with what id
    answer,     \* what the client was answered
    proxy,      \* where the proxy is, with which request
    tried,      \* _autostart_tried
    req,        \* the requests at the server, with their line, 0 for the others
    waiters,    \* _waiters: the request whose future each id stands for
    wire,       \* commands on their way to the board
    ran,        \* how often the board has executed the command of each request
    inbox,      \* replies on their way to _handle()
    faults      \* what has gone wrong so far

vars == <<up, connected, line, answer, proxy, tried, req, waiters, wire, ran, inbox, faults>>
client == <<line, answer, proxy, tried>>
mqtt == <<wire, ran, inbox>>

\* What is asked for: a call of a tool of the board that reads, or writes, a
\* command, a tool or a resource that reads the registry or the store, the list
\* of tools; initialize and ping the proxy answers itself.
Calls == {"read", "write"}
Kinds == Calls \union {"command", "query", "resource", "manifest", "initialize", "ping"}
NeedsAdmin(k) == k \in {"command", "write"}

\* A line may also be a notification, no JSON at all, or JSON that handle() cannot
\* do with: no object, as a batch is none, or an object whose method is no string.
Lineish == Kinds \union {"notification", "noise", "malformed"}
Asked == [kind : Lineish, id : {"given", "null", "none"}]

ASSUME CallsAssumption ==
    /\ LineKinds \subseteq Lineish /\ OtherKinds \subseteq Kinds
    /\ Ids \subseteq {"given", "null", "none"}
    /\ MaxLines \in Nat /\ MaxOther \in Nat /\ MaxFaults \in Nat

Nothing == "none"
Silent == "unreachable"
Lines == 1..Len(line)
Requests == 1..Len(req)
Fine == UNCHANGED faults
Fault(kind) == kind \in Trouble /\ faults < MaxFaults /\ faults' = faults + 1
Open(i) == req[i].pc \in {"new", "waiting", "woken", "logging"}

CallsTypeOK ==
    /\ up \in BOOLEAN /\ connected \in BOOLEAN /\ tried \in BOOLEAN
    /\ line \in Seq(Asked) /\ Len(line) <= MaxLines
    /\ answer \in [Lines -> {Nothing, Silent, "error", "no reply", "unauthorized", "ok"}]
    /\ proxy \in [pc : {"idle", "first", "asked", "again", "asked again", "ended"}, req : 0..Len(req)]
    /\ Len(req) <= 2 * MaxLines + MaxOther
    /\ \A i \in Requests :
        /\ req[i].line \in {0} \union Lines /\ req[i].kind \in Kinds /\ req[i].allowed \in BOOLEAN
        /\ req[i].pc \in {"new", "waiting", "woken", "logging", "cancelled", "raised", "done", "lost"}
        /\ req[i].by \in {0} \union Requests
        /\ req[i].out \in {Nothing, "error", "no reply", "unauthorized", "ok"}
    /\ DOMAIN waiters \subseteq Requests /\ \A d \in DOMAIN waiters : waiters[d] \in Requests
    /\ wire \in Seq(Requests) /\ ran \in [Requests -> 0..2]
    /\ inbox \in Seq(Requests) /\ faults \in 0..MaxFaults

Init ==
    /\ up \in BOOLEAN /\ connected = up
    /\ line = <<>> /\ answer = <<>>
    /\ proxy = [pc |-> "idle", req |-> 0] /\ tried = FALSE
    /\ req = <<>> /\ waiters = <<>>
    /\ wire = <<>> /\ ran = <<>> /\ inbox = <<>> /\ faults = 0

-----------------------------------------------------------------------------
(* The proxy.  One line after the other.                                   *)

NewRequest(n, k, admin) ==
    /\ req' = Append(req, [line |-> n, kind |-> k, allowed |-> admin \/ ~NeedsAdmin(k), pc |-> "new", by |-> 0, out |-> Nothing])
    /\ ran' = Append(ran, 0)

\* What main() writes: nothing, unless there is an id.
Written(id, a) == IF id = "given" THEN a ELSE Nothing

Reply(a) ==
    /\ answer' = [answer EXCEPT ![Len(line)] = Written(line[Len(line)].id, a)]
    /\ proxy' = [pc |-> "idle", req |-> 0]

\* backend_up()
BackendUp == up

\* try_autostart(), once; it waits until the server is up, or gives up.
Autostart ==
    /\ tried' = TRUE
    /\ up' \in {up, BackendUp \/ ~tried}

\* Nothing is done about a line that is not JSON, nor about a notification, which
\* is what any request without an id is taken for, except initialize.
Ignored(k, id) == k \in {"notification", "noise"} \/ (id = "none" /\ k # "initialize")

\* main() reads a line.  What handle() cannot do with raises, and the proxy ends.
Line(k, id) ==
    LET Reads(a, pc) == answer' = Append(answer, a) /\ proxy' = [pc |-> pc, req |-> 0] IN
    /\ proxy.pc = "idle" /\ Len(line) < MaxLines
    /\ line' = Append(line, [kind |-> k, id |-> id])
    /\ \/ k = "malformed" /\ Reads(Nothing, "ended")
       \/ k # "malformed" /\ Ignored(k, id) /\ Reads(Nothing, "idle")
       \/ k \in {"initialize", "ping"} /\ ~Ignored(k, id) /\ Reads(Written(id, "ok"), "idle")
       \/ k \in Kinds \ {"initialize", "ping"} /\ ~Ignored(k, id) /\ Reads(Nothing, "first")
    /\ IF k = "initialize" THEN Autostart ELSE UNCHANGED <<up, tried>>
    /\ UNCHANGED <<connected, req, waiters, mqtt>> /\ Fine

\* forward(), with the token of the administrator; handle() of the server has it.
Forward ==
    /\ up /\ proxy.pc \in {"first", "again"}
    /\ NewRequest(Len(line), line[Len(line)].kind, TRUE)
    /\ proxy' = [pc |-> IF proxy.pc = "first" THEN "asked" ELSE "asked again", req |-> Len(req) + 1]
    /\ UNCHANGED <<up, connected, line, answer, tried, waiters, wire, inbox, faults>>

Relay ==
    /\ proxy.req # 0 /\ req[proxy.req].pc \in {"done", "raised"}
    /\ Reply(req[proxy.req].out)
    /\ UNCHANGED <<up, connected, line, tried, req, waiters, mqtt>> /\ Fine

\* Nobody listens, the connection breaks, or there is no answer within TIMEOUT.
NoAnswer ==
    \/ proxy.pc \in {"first", "again"} /\ ~up /\ Fine
    \/ proxy.req # 0 /\ req[proxy.req].pc = "lost" /\ Fine
    \/ proxy.req # 0 /\ Open(proxy.req) /\ Fault("slow")

\* The list of tools is known here as well.
FromManifest ==
    /\ NoAnswer /\ line[Len(line)].kind = "manifest"
    /\ Reply("ok")
    /\ UNCHANGED <<up, connected, line, tried, req, waiters, mqtt>>

\* Anything else is tried a second time, after try_autostart().
TryAgain ==
    /\ NoAnswer /\ line[Len(line)].kind # "manifest"
    /\ proxy.pc \in {"first", "asked"}
    /\ proxy' = [pc |-> "again", req |-> 0]
    /\ Autostart
    /\ UNCHANGED <<connected, line, answer, req, waiters, mqtt>>

\* Deviation: what fails twice is given up without a word.
GiveUpSilently ==
    /\ NoAnswer /\ line[Len(line)].kind # "manifest"
    /\ proxy.pc \in {"again", "asked again"}
    /\ proxy' = [pc |-> "idle", req |-> 0]
    /\ UNCHANGED <<up, connected, line, answer, tried, req, waiters, mqtt>>

\* The second time it is an error that tells how to start the server.
Unreachable ==
    /\ NoAnswer /\ line[Len(line)].kind # "manifest"
    /\ proxy.pc \in {"again", "asked again"}
    /\ Reply(Silent)
    /\ UNCHANGED <<up, connected, line, tried, req, waiters, mqtt>>

-----------------------------------------------------------------------------
(* The server.                                                             *)

Direct(k, admin) ==
    /\ up /\ Cardinality({i \in Requests : req[i].line = 0}) < MaxOther
    /\ NewRequest(0, k, admin)
    /\ UNCHANGED <<up, connected, client, waiters, wire, inbox, faults>>

\* The doors of other clients: MCP over HTTP, the MCP server of one board, a
\* command without MCP, and what the dashboard reads.
McpRpc(k, admin) == Direct(k, admin)
DeviceMcp(k, admin) == k \in Calls /\ Direct(k, admin)
DeviceCommand(k, admin) == k = "command" /\ Direct(k, admin)
ApiRead(k) == k = "query" /\ Direct(k, FALSE)

\* The answer is kept for the proxy; of another client nothing is kept.
Done(i, out) ==
    req' = [req EXCEPT ![i] = IF @.line = 0
                              THEN [@ EXCEPT !.pc = "done", !.kind = "query", !.allowed = TRUE, !.out = Nothing]
                              ELSE [@ EXCEPT !.pc = "done", !.out = out]]
New(i) == up /\ req[i].pc = "new"

\* Deviation: two commands of the same millisecond have the same id.
TimeOnly(i) == 1

\* _new_cmd_id(): the time and a counter.
NewCmdId(i) == i

Answered(i, out) ==
    /\ Done(i, out)
    /\ UNCHANGED <<up, connected, client, waiters, mqtt>>

Unauthorized(i) == New(i) /\ ~req[i].allowed /\ Answered(i, "unauthorized") /\ Fine

ListTools(i) == New(i) /\ req[i].kind = "manifest" /\ Answered(i, "ok") /\ Fine

\* read_resource(), which may not know the resource.
ReadResource(i) == New(i) /\ req[i].kind = "resource" /\ (\E out \in {"ok", "error"} : Answered(i, out)) /\ Fine

\* What execute() gets to, or the handler of another door.
Admitted(i) == New(i) /\ req[i].kind \in Calls \union {"command", "query"} /\ req[i].allowed

\* validate_args(), or the body is not what it should be.
BadArguments(i) == Admitted(i) /\ Answered(i, "error") /\ Fine

\* execute() asks the registry or the store, which may fail or know nothing.
Query(i) == Admitted(i) /\ req[i].kind = "query" /\ (\E out \in {"ok", "error"} : Answered(i, out)) /\ Fine

\* The board is not known; call_device() also finds out that it sleeps or has
\* long been gone.
Refuse(i) == Admitted(i) /\ req[i].kind # "query" /\ Fault("board") /\ Answered(i, "error")

\* publish_command(): on its way, or refused.
Published(i) == connected /\ wire' = Append(wire, i) /\ Fine
NotPublished == UNCHANGED wire /\ ((~connected /\ Fine) \/ Fault("broker"))

\* The future is there before the command is published.
Register(i) ==
    LET d == NewCmdId(i) IN
    waiters' = [j \in DOMAIN waiters \union {d} |-> IF j = d THEN i ELSE waiters[j]]

\* call_device() up to the wait for the reply.
Call(i) ==
    /\ Admitted(i) /\ req[i].kind \in Calls
    /\ Published(i)
    /\ Register(i)
    /\ req' = [req EXCEPT ![i].pc = "waiting"]
    /\ UNCHANGED <<up, connected, client, ran, inbox>>

\* It takes its entry out again.
CallRefused(i) ==
    /\ Admitted(i) /\ req[i].kind \in Calls
    /\ NotPublished
    /\ Done(i, "error")
    /\ UNCHANGED <<up, connected, client, waiters, ran, inbox>>

\* publish() of the client raises: so does call_device(), its entry stays.
CallRaises(i) ==
    /\ Admitted(i) /\ req[i].kind \in Calls
    /\ connected /\ Fault("broker")
    /\ Register(i)
    /\ req' = [req EXCEPT ![i].pc = "raised", ![i].out = "error"]
    /\ UNCHANGED <<up, connected, client, mqtt>>

\* send_command() publishes if it can, and awaits the log of commands.
Command(i) ==
    /\ Admitted(i) /\ req[i].kind = "command"
    /\ \/ Published(i) /\ req' = [req EXCEPT ![i].pc = "logging", ![i].out = "ok"]
       \/ NotPublished /\ req' = [req EXCEPT ![i].pc = "logging", ![i].out = "error"]
    /\ UNCHANGED <<up, connected, client, waiters, ran, inbox>>

Logged(i) == up /\ req[i].pc = "logging" /\ Answered(i, req[i].out) /\ Fine

\* The log fails: the caller is told so of a command that is on its way.
LogFails(i) == up /\ req[i].pc = "logging" /\ Answered(i, "error") /\ Fault("store")

Without(d) == [j \in DOMAIN waiters \ {d} |-> waiters[j]]

\* _handle() of the bridge drops what is no object with a device_id.
BadPayload ==
    /\ Fault("board")
    /\ up /\ inbox # <<>>
    /\ inbox' = Tail(inbox)
    /\ UNCHANGED <<up, connected, client, req, waiters, wire, ran>>

\* The next message is a result: record_cmd_result().
RecordResult ==
    LET m == Head(inbox)
        d == NewCmdId(m)
        i == waiters[d] IN
    /\ up /\ inbox # <<>>
    /\ inbox' = Tail(inbox)
    /\ IF d \in DOMAIN waiters
       THEN /\ waiters' = Without(d)
            /\ req' = IF req[i].pc = "waiting"
                      THEN [req EXCEPT ![i].pc = "woken", ![i].by = m]
                      ELSE req
       ELSE UNCHANGED <<waiters, req>>
    /\ UNCHANGED <<up, connected, client, wire, ran>> /\ Fine

\* _handle(), called by the loop.
Handle == RecordResult \/ BadPayload

\* execute() makes a result of the reply: the board may have sent an error.
Outcomes == {"ok", "error"}

\* call_device() goes on with the reply.
Resume(i) == up /\ req[i].pc = "woken" /\ (\E out \in Outcomes : Answered(i, out)) /\ Fine

\* Deviation: the entry stays.
TimeoutKeepsWaiter(i) ==
    /\ up /\ req[i].pc \in {"waiting", "woken"}
    /\ Done(i, "no reply")
    /\ UNCHANGED <<up, connected, client, waiters, mqtt>> /\ Fine

\* wait_for() runs out; a reply that has just come in may be lost to it.
Timeout(i) ==
    /\ up /\ req[i].pc \in {"waiting", "woken"}
    /\ waiters' = Without(NewCmdId(i))
    /\ Done(i, "no reply")
    /\ UNCHANGED <<up, connected, client, mqtt>> /\ Fine

\* A caller inside of the server, the network watch, is stopped while it waits.
Cancel(i) ==
    /\ Fault("cancel")
    /\ up /\ req[i].pc = "waiting" /\ req[i].line = 0
    /\ req' = [req EXCEPT ![i].pc = "cancelled"]
    /\ UNCHANGED <<up, connected, client, waiters, mqtt>>

Server(i) ==
    \/ Unauthorized(i) \/ BadArguments(i) \/ ListTools(i) \/ ReadResource(i) \/ Query(i)
    \/ Refuse(i) \/ Call(i) \/ CallRefused(i) \/ CallRaises(i) \/ Command(i) \/ Logged(i) \/ Resume(i) \/ Timeout(i)

-----------------------------------------------------------------------------
(* The broker, the board, and the ends of things.                          *)

\* The board executes a command and replies.
Execute ==
    /\ wire # <<>>
    /\ ran' = [ran EXCEPT ![Head(wire)] = @ + 1]
    /\ wire' = Tail(wire)
    /\ inbox' = IF connected THEN Append(inbox, Head(wire)) ELSE inbox
    /\ UNCHANGED <<up, connected, client, req, waiters>> /\ Fine

\* QoS 1: it is delivered once more.
Redeliver ==
    /\ Fault("twice")
    /\ wire # <<>> /\ ran[Head(wire)] = 0
    /\ ran' = [ran EXCEPT ![Head(wire)] = @ + 1]
    /\ inbox' = IF connected THEN Append(inbox, Head(wire)) ELSE inbox
    /\ UNCHANGED <<up, connected, client, req, waiters, wire>>

\* The board is away.
CommandLost ==
    /\ Fault("board")
    /\ wire # <<>> /\ wire' = Tail(wire)
    /\ UNCHANGED <<up, connected, client, req, waiters, ran, inbox>>

BridgeDown ==
    /\ Fault("broker")
    /\ connected /\ connected' = FALSE
    /\ UNCHANGED <<up, client, req, waiters, mqtt>>

BridgeUp ==
    /\ up /\ ~connected /\ connected' = TRUE
    /\ UNCHANGED <<up, client, req, waiters, mqtt>> /\ Fine

\* The server ends, the futures with it.
ServerEnds ==
    /\ Fault("server")
    /\ up /\ up' = FALSE /\ connected' = FALSE
    /\ req' = [i \in Requests |-> IF Open(i) THEN [req[i] EXCEPT !.pc = "lost", !.out = Nothing, !.by = 0] ELSE req[i]]
    /\ waiters' = <<>> /\ inbox' = <<>>
    /\ UNCHANGED <<client, wire, ran>>

Next ==
    \/ \E k \in LineKinds, id \in Ids : Line(k, id)
    \/ \E k \in OtherKinds : ApiRead(k)
    \/ \E k \in OtherKinds, admin \in BOOLEAN : McpRpc(k, admin) \/ DeviceMcp(k, admin) \/ DeviceCommand(k, admin)
    \/ Forward \/ Relay \/ FromManifest \/ TryAgain \/ Unreachable
    \/ \E i \in Requests : Cancel(i) \/ LogFails(i) \/ Server(i)
    \/ Handle
    \/ Execute \/ Redeliver \/ CommandLost \/ BridgeDown \/ BridgeUp \/ ServerEnds

Spec == Init /\ [][Next]_vars

\* The proxy and the loop of the server run, and every wait has its limit.  A
\* request takes a few steps, so that it is enough if one of them goes on.
Fairness ==
    /\ WF_vars(Forward \/ Relay \/ FromManifest \/ TryAgain \/ Unreachable)
    /\ WF_vars(\E i \in Requests : Server(i))

FairSpec == Spec /\ Fairness

-----------------------------------------------------------------------------
(* What callers may rely on.                                               *)

\* A request that is answered by the board is answered by the reply to its own
\* command, which the board has executed, whatever replies come late, twice, or
\* for calls given up: _new_cmd_id(), call_device() and record_cmd_result().
CallGetsItsReply ==
    \A i \in Requests : req[i].by # 0 => req[i].by = i /\ ran[i] > 0

\* The futures that are kept are those of the calls that wait, of cancelled ones
\* until their reply comes, and of those whose publish raised: a timeout, a reply
\* and a refused publish leave none behind, and a call that waits has its own.
\* call_device() and record_cmd_result(), _waiters of FleetRegistry.
WaitersExact ==
    /\ \A d \in DOMAIN waiters : req[waiters[d]].pc \in {"waiting", "cancelled", "raised"}
    /\ \A i \in Requests : req[i].pc = "waiting" => i \in {waiters[d] : d \in DOMAIN waiters}

\* What is to be answered: a request with an id.
ToAnswer(asked) == asked.kind \in Kinds /\ asked.id = "given"

\* Every line with a request that has an id gets an answer, with the server dead,
\* slow, or dying while it works on it: handle() and main() of mcp_stdio_proxy.py.
EveryLineAnswered ==
    \A n \in 1..MaxLines : (n \in Lines /\ ToAnswer(line[n])) ~> (n \in Lines /\ answer[n] # Nothing)

\* "The backend accepted nothing within TIMEOUT", the comment of the retry in
\* handle() of mcp_stdio_proxy.py: what is asked again has not been accepted, so
\* that the board does not execute a line of the client for two requests.
CarriedOutOnce ==
    \A i, j \in Requests : req[i].line = req[j].line /\ req[i].line # 0 /\ i # j => ran[i] = 0 \/ ran[j] = 0

=============================================================================
