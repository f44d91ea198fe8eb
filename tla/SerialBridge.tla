---------------------------- MODULE SerialBridge ----------------------------
(***************************************************************************)
(* The serial bridge of the lab: one pump() per USB port, which opens the  *)
(* port and learns from the readings which board is at the other end, and  *)
(* two threads that write to the boards by way of what the pumps learned:  *)
(* that of the MQTT client, which relays commands, and that of a DNSQ.     *)
(*                                                                         *)
(* A handle is numbered when it is opened and belongs to the board that    *)
(* was plugged in then; once the board is pulled out, every use of it      *)
(* raises.  What the lines say is left out, and so is what a line that is  *)
(* forwarded (TLM to the fleet host, RES to the broker) leads to there.    *)
(***************************************************************************)
EXTENDS Naturals, Sequences

CONSTANTS
    Boards,    \* the boards with no network of their own
    Ports,     \* the serial ports of the host
    MaxMoves   \* bound of the model: how often boards are plugged in and out

VARIABLES
    at,      \* the port where a board is plugged in, or "none"
    wire,    \* the board at the other end of each handle, or "gone"
    pump,    \* the thread of each port: where it is, its handle, and the board of its TLM
    portOf,  \* PORT_OF: a handle, or 0
    hand,    \* per writing thread: the boards it has yet to write to, and the handle it looked up
    moves

vars == <<at, wire, pump, portOf, hand, moves>>

Writers == {"relay", "dnsq"}
NoWork == [pc |-> "idle", todo |-> {}, s |-> 0]

BridgeTypeOK ==
    /\ at \in [Boards -> Ports \union {"none"}]
    /\ wire \in Seq(Boards \union {"gone"})
    /\ pump \in [Ports -> [pc : {"off", "open", "read", "learn"}, s : 0..Len(wire), did : Boards \union {"none"}]]
    /\ portOf \in [Boards -> 0..Len(wire)]
    /\ hand \in [Writers -> [pc : {"idle", "look", "write", "ended"}, todo : SUBSET Boards, s : 0..Len(wire)]]
    /\ moves \in Nat

Init ==
    /\ at \in [Boards -> Ports \union {"none"}]
    /\ \A a, b \in Boards : a # b /\ at[a] = at[b] => at[a] = "none"
    /\ wire = <<>>
    /\ pump = [p \in Ports |-> [pc |-> "off", s |-> 0, did |-> "none"]]
    /\ portOf = [b \in Boards |-> 0]
    /\ hand = [w \in Writers |-> NoWork]
    /\ moves = 0

Used(p) == \E b \in Boards : at[b] = p
Known == {b \in Boards : portOf[b] # 0}

-----------------------------------------------------------------------------
(* What people do with the boards.                                         *)

Plug(b, p) ==
    /\ moves < MaxMoves /\ moves' = moves + 1
    /\ at[b] = "none" /\ ~Used(p)
    /\ at' = [at EXCEPT ![b] = p]
    /\ UNCHANGED <<wire, pump, portOf, hand>>

Unplug(b) ==
    /\ moves < MaxMoves /\ moves' = moves + 1
    /\ at[b] # "none"
    /\ at' = [at EXCEPT ![b] = "none"]
    /\ wire' = [s \in DOMAIN wire |-> IF wire[s] = b THEN "gone" ELSE wire[s]]
    /\ UNCHANGED <<pump, portOf, hand>>

-----------------------------------------------------------------------------
(* main() and pump().                                                      *)

Closed == [pc |-> "open", s |-> 0, did |-> "none"]

\* main() starts one pump for a port where discover() sees a board, and never
\* stops it.
Discover(p) ==
    /\ pump[p].pc = "off" /\ Used(p)
    /\ pump' = [pump EXCEPT ![p] = Closed]
    /\ UNCHANGED <<at, wire, portOf, hand, moves>>

\* Opening a port where there is no board fails, and is tried again.
Open(p) ==
    \E b \in Boards :
        /\ pump[p].pc = "open" /\ at[b] = p
        /\ wire' = Append(wire, b)
        /\ pump' = [pump EXCEPT ![p] = [pc |-> "read", s |-> Len(wire'), did |-> "none"]]
        /\ UNCHANGED <<at, portOf, hand, moves>>

Reads(p) == pump[p].pc = "read" /\ wire[pump[p].s] # "gone"

\* The line is in the hands of the pump while the labels are read from disk.
ReadTlm(p) ==
    /\ Reads(p)
    /\ pump' = [pump EXCEPT ![p] = [pc |-> "learn", s |-> @.s, did |-> wire[@.s]]]
    /\ UNCHANGED <<at, wire, portOf, hand, moves>>

\* Deviation: an entry of the table stays what it is.
LearnOnce(did, s) == [portOf EXCEPT ![did] = IF @ = 0 THEN s ELSE @]

Learnt(did, s) == [portOf EXCEPT ![did] = s]

\* The table is written, and the reading posted: a POST that fails is a log line.
Learn(p) ==
    /\ pump[p].pc = "learn"
    /\ portOf' = Learnt(pump[p].did, pump[p].s)
    /\ pump' = [pump EXCEPT ![p] = [pc |-> "read", s |-> @.s, did |-> "none"]]
    /\ UNCHANGED <<at, wire, hand, moves>>

\* A DNSQ starts a thread of its own for the board that the table has for this
\* handle; one at a time here.  Without an entry nothing will be written.
ReadDnsq(p) ==
    /\ Reads(p) /\ hand["dnsq"].pc = "idle"
    /\ hand' = [hand EXCEPT !["dnsq"] =
           [pc |-> "look", todo |-> {b \in Boards : portOf[b] = pump[p].s}, s |-> 0]]
    /\ UNCHANGED <<at, wire, pump, portOf, moves>>

\* readline() raises; the port is opened again after five seconds, and what the
\* table says of the handle stays.
Fails(p) ==
    /\ pump[p].pc = "read" /\ ~Reads(p)
    /\ pump' = [pump EXCEPT ![p] = Closed]
    /\ UNCHANGED <<at, wire, portOf, hand, moves>>

-----------------------------------------------------------------------------
(* on_message() and handle_dnsq(), which write with serial_write().        *)

\* A command for one board, or for every board in the table.
OnMessage(targets) ==
    /\ hand["relay"].pc = "idle"
    /\ hand' = [hand EXCEPT !["relay"] = [pc |-> "look", todo |-> targets, s |-> 0]]
    /\ UNCHANGED <<at, wire, pump, portOf, moves>>

\* serial_write() up to its lock, for the boards in any order; a board without
\* an entry is passed over.
LookUp(w) ==
    /\ hand[w].pc = "look"
    /\ IF hand[w].todo \intersect Known = {}
       THEN hand' = [hand EXCEPT ![w] = NoWork]
       ELSE \E b \in hand[w].todo \intersect Known :
                hand' = [hand EXCEPT ![w] = [pc |-> "write", todo |-> @.todo \ {b}, s |-> portOf[b]]]
    /\ UNCHANGED <<at, wire, pump, portOf, moves>>

\* A write to a handle that is dead raises: the thread of a DNSQ ends with it,
\* which is the end of that one query.
DnsqRaises == NoWork

\* paho raises again what on_message() raises, in the one thread that
\* loop_start() started: no command is relayed from then on.
RelayRaises == [pc |-> "ended", todo |-> {}, s |-> 0]

Write(w) ==
    /\ hand[w].pc = "write"
    /\ hand' = [hand EXCEPT ![w] =
           IF wire[@.s] # "gone" THEN [pc |-> "look", todo |-> @.todo, s |-> 0]
           ELSE IF w = "relay" THEN RelayRaises ELSE DnsqRaises]
    /\ UNCHANGED <<at, wire, pump, portOf, moves>>

Pump(p) == Open(p) \/ ReadTlm(p) \/ Learn(p) \/ Fails(p)

Next ==
    \/ \E b \in Boards : Unplug(b) \/ \E p \in Ports : Plug(b, p)
    \/ \E p \in Ports : Discover(p) \/ Pump(p) \/ ReadDnsq(p)
    \/ \E targets \in {{b} : b \in Boards} \union {Known} : OnMessage(targets)
    \/ \E w \in Writers : LookUp(w) \/ Write(w)

\* The ports are looked over every fifteen seconds and a failed one tried again
\* every five; a board prints its reading again and again.
Fairness == \A p \in Ports : WF_vars(Discover(p) \/ Pump(p))

Spec == Init /\ [][Next]_vars /\ Fairness

-----------------------------------------------------------------------------

\* What the table has for a board leads to that board or nowhere, however the
\* boards are moved: a command never reaches another board.  PORT_OF of
\* serial_bridge.py, which holds handles and no names of ports.
TableLeadsHome == \A b \in Boards : portOf[b] # 0 => wire[portOf[b]] \in {b, "gone"}

\* Though the pump of the port that a board left may write its last reading late:
\* in the end, what the table has for every board that stays plugged in leads to
\* it, and before that never to another one.  pump() and PORT_OF.
BoardsReached ==
    /\ []TableLeadsHome
    /\ <>[](\A b \in Boards : at[b] = "none" \/ (portOf[b] # 0 /\ wire[portOf[b]] = b))

=============================================================================
