------------------------- MODULE SerialBridgeProofs -------------------------
(***************************************************************************)
(* For any boards and ports, and however often boards are moved: the table *)
(* of the serial bridge never leads to a board other than the one that it  *)
(* names.                                                                  *)
(***************************************************************************)
EXTENDS SerialBridge, TLAPS

\* A pump that has opened its port holds a handle; the board whose reading it
\* has in hand is the one at the other end, unless that has been pulled out.
PumpTrue ==
    \A p \in Ports :
        /\ pump[p].pc \in {"read", "learn"} => pump[p].s \in 1..Len(wire)
        /\ pump[p].pc = "learn" => pump[p].did \in Boards /\ wire[pump[p].s] \in {pump[p].did, "gone"}

Inv == BridgeTypeOK /\ PumpTrue /\ TableLeadsHome

LEMMA InitInv == Init => Inv
<1> SUFFICES ASSUME Init PROVE Inv
  OBVIOUS
<1>1. BridgeTypeOK
  BY DEF Init, BridgeTypeOK, NoWork, Writers
<1>2. PumpTrue
  BY DEF Init, PumpTrue
<1>3. TableLeadsHome
  BY DEF Init, TableLeadsHome
<1> QED
  BY <1>1, <1>2, <1>3 DEF Inv

\* Plugging a board in, or only looking at the table, touches no handle.
LEMMA StandStill ==
    ASSUME Inv, UNCHANGED <<wire, pump, portOf>>
    PROVE  PumpTrue' /\ TableLeadsHome'
BY DEF Inv, PumpTrue, TableLeadsHome

\* Pulling a board out turns its handles into dead ones and leaves the others.
LEMMA UnplugInv == ASSUME Inv, NEW b \in Boards, Unplug(b) PROVE Inv'
<1>1. wire' \in Seq(Boards \union {"gone"}) /\ Len(wire') = Len(wire)
      /\ \A s \in 1..Len(wire) : wire'[s] = IF wire[s] = b THEN "gone" ELSE wire[s]
  <2> DEFINE Ends == Boards \union {"gone"}
  <2>1. wire \in Seq(Ends) /\ Len(wire) \in Nat /\ DOMAIN wire = 1..Len(wire) /\ \A s \in 1..Len(wire) : wire[s] \in Ends
    BY DEF Inv, BridgeTypeOK
  <2>2. wire' = [s \in 1..Len(wire) |-> IF wire[s] = b THEN "gone" ELSE wire[s]]
    BY <2>1 DEF Unplug
  <2>3. \A s \in 1..Len(wire) : (IF wire[s] = b THEN "gone" ELSE wire[s]) \in Ends
    BY <2>1
  <2> QED
    BY <2>1, <2>2, <2>3
<1>2. at' \in [Boards -> Ports \union {"none"}] /\ moves' \in Nat
  BY DEF Inv, BridgeTypeOK, Unplug
<1>3. BridgeTypeOK'
  BY <1>1, <1>2 DEF Inv, BridgeTypeOK, Unplug
<1>4. PumpTrue'
  BY <1>1 DEF Inv, PumpTrue, Unplug
<1>5. TableLeadsHome'
  BY <1>1 DEF Inv, BridgeTypeOK, TableLeadsHome, Unplug
<1> QED
  BY <1>3, <1>4, <1>5 DEF Inv

\* A new handle is behind all others, so that none of those changes.
LEMMA OpenInv == ASSUME Inv, NEW p \in Ports, Open(p) PROVE Inv'
<1>1. PICK b \in Boards :
        /\ wire' = Append(wire, b)
        /\ pump' = [pump EXCEPT ![p] = [pc |-> "read", s |-> Len(wire'), did |-> "none"]]
        /\ UNCHANGED <<at, portOf, hand, moves>>
  BY DEF Open
<1>2. wire' \in Seq(Boards \union {"gone"}) /\ Len(wire') = Len(wire) + 1 /\ Len(wire) \in Nat
      /\ \A s \in 1..Len(wire) : wire'[s] = wire[s]
  BY <1>1 DEF Inv, BridgeTypeOK
<1>3. BridgeTypeOK'
  BY <1>1, <1>2 DEF Inv, BridgeTypeOK
<1>4. PumpTrue'
  <2> SUFFICES ASSUME NEW q \in Ports
               PROVE  /\ pump'[q].pc \in {"read", "learn"} => pump'[q].s \in 1..Len(wire')
                      /\ pump'[q].pc = "learn" => pump'[q].did \in Boards /\ wire'[pump'[q].s] \in {pump'[q].did, "gone"}
    BY DEF PumpTrue
  <2>1. CASE q = p
    BY <1>1, <1>2, <2>1 DEF Inv, BridgeTypeOK
  <2>2. CASE q # p
    <3>1. pump'[q] = pump[q]
      BY <1>1, <2>2 DEF Inv, BridgeTypeOK
    <3> QED
      BY <1>2, <3>1 DEF Inv, PumpTrue
  <2> QED
    BY <2>1, <2>2
<1>5. TableLeadsHome'
  BY <1>1, <1>2 DEF Inv, BridgeTypeOK, TableLeadsHome
<1> QED
  BY <1>3, <1>4, <1>5 DEF Inv

\* The other steps of a pump, and of main(), change its own record only.
LEMMA DiscoverInv == ASSUME Inv, NEW p \in Ports, Discover(p) PROVE Inv'
<1>1. BridgeTypeOK'
  BY DEF Inv, BridgeTypeOK, Discover, Closed
<1>2. PumpTrue'
  BY DEF Inv, BridgeTypeOK, PumpTrue, Discover, Closed
<1>3. TableLeadsHome'
  BY DEF Inv, TableLeadsHome, Discover
<1> QED
  BY <1>1, <1>2, <1>3 DEF Inv

LEMMA ReadTlmInv == ASSUME Inv, NEW p \in Ports, ReadTlm(p) PROVE Inv'
<1>1. pump[p].s \in 1..Len(wire) /\ wire[pump[p].s] \in Boards
  BY DEF Inv, BridgeTypeOK, PumpTrue, ReadTlm, Reads
<1>2. pump'[p] = [pc |-> "learn", s |-> pump[p].s, did |-> wire[pump[p].s]] /\ \A q \in Ports : q # p => pump'[q] = pump[q]
  BY DEF Inv, BridgeTypeOK, ReadTlm
<1>3. BridgeTypeOK'
  BY <1>1 DEF Inv, BridgeTypeOK, ReadTlm
<1>4. PumpTrue'
  BY <1>1, <1>2 DEF Inv, BridgeTypeOK, PumpTrue, ReadTlm
<1>5. TableLeadsHome'
  BY DEF Inv, TableLeadsHome, ReadTlm
<1> QED
  BY <1>3, <1>4, <1>5 DEF Inv

\* What is learnt is true or has become nothing while the pump had the line.
LEMMA LearnInv == ASSUME Inv, NEW p \in Ports, Learn(p) PROVE Inv'
<1>1. pump[p].s \in 1..Len(wire) /\ pump[p].did \in Boards /\ wire[pump[p].s] \in {pump[p].did, "gone"}
  BY DEF Inv, PumpTrue, Learn
<1>2. portOf' = [portOf EXCEPT ![pump[p].did] = pump[p].s]
  BY DEF Learn, Learnt
<1>3. BridgeTypeOK'
  BY <1>1, <1>2 DEF Inv, BridgeTypeOK, Learn
<1>4. PumpTrue'
  BY DEF Inv, BridgeTypeOK, PumpTrue, Learn
<1>5. TableLeadsHome'
  BY <1>1, <1>2 DEF Inv, BridgeTypeOK, TableLeadsHome, Learn
<1> QED
  BY <1>3, <1>4, <1>5 DEF Inv

LEMMA FailsInv == ASSUME Inv, NEW p \in Ports, Fails(p) PROVE Inv'
<1>1. BridgeTypeOK'
  BY DEF Inv, BridgeTypeOK, Fails, Closed
<1>2. PumpTrue'
  BY DEF Inv, BridgeTypeOK, PumpTrue, Fails, Closed
<1>3. TableLeadsHome'
  BY DEF Inv, TableLeadsHome, Fails
<1> QED
  BY <1>1, <1>2, <1>3 DEF Inv

\* The threads that write change nothing but their own record.
LEMMA HandsInv ==
    ASSUME Inv, UNCHANGED <<at, wire, pump, portOf, moves>>,
           hand' \in [Writers -> [pc : {"idle", "look", "write", "ended"}, todo : SUBSET Boards, s : 0..Len(wire)]]
    PROVE  Inv'
BY StandStill DEF Inv, BridgeTypeOK

LEMMA WritersInv ==
    ASSUME Inv, \/ \E p \in Ports : ReadDnsq(p)
                \/ \E targets \in {{b} : b \in Boards} \union {Known} : OnMessage(targets)
                \/ \E w \in Writers : LookUp(w) \/ Write(w)
    PROVE  Inv'
<1> USE DEF Writers
<1>1. ASSUME NEW p \in Ports, ReadDnsq(p) PROVE Inv'
  BY <1>1, HandsInv DEF Inv, BridgeTypeOK, ReadDnsq
<1>2. ASSUME NEW targets \in SUBSET Boards, OnMessage(targets) PROVE Inv'
  BY <1>2, HandsInv DEF Inv, BridgeTypeOK, OnMessage
<1>3. ASSUME NEW w \in Writers, LookUp(w) PROVE Inv'
  <2>1. CASE hand[w].todo \intersect Known = {}
    BY <1>3, <2>1, HandsInv DEF Inv, BridgeTypeOK, LookUp, NoWork
  <2>2. CASE hand[w].todo \intersect Known # {}
    BY <1>3, <2>2, HandsInv DEF Inv, BridgeTypeOK, LookUp, Known
  <2> QED
    BY <2>1, <2>2
<1>4. ASSUME NEW w \in Writers, Write(w) PROVE Inv'
  <2>1. CASE wire[hand[w].s] # "gone"
    BY <1>4, <2>1, HandsInv DEF Inv, BridgeTypeOK, Write
  <2>2. CASE wire[hand[w].s] = "gone"
    BY <1>4, <2>2, HandsInv DEF Inv, BridgeTypeOK, Write, NoWork, RelayRaises, DnsqRaises
  <2> QED
    BY <2>1, <2>2
<1>5. \A targets \in {{b} : b \in Boards} \union {Known} : targets \in SUBSET Boards
  BY DEF Known
<1> QED
  BY <1>1, <1>2, <1>3, <1>4, <1>5

LEMMA NextInv == Inv /\ [Next]_vars => Inv'
<1> SUFFICES ASSUME Inv, [Next]_vars PROVE Inv'
  OBVIOUS
<1>1. ASSUME NEW b \in Boards, NEW p \in Ports, Plug(b, p) PROVE Inv'
  <2>1. BridgeTypeOK'
    BY <1>1 DEF Inv, BridgeTypeOK, Plug
  <2> QED
    BY <1>1, <2>1, StandStill DEF Plug, Inv
<1>2. CASE UNCHANGED vars
  <2>1. BridgeTypeOK'
    BY <1>2 DEF Inv, BridgeTypeOK, vars
  <2> QED
    BY <1>2, <2>1, StandStill DEF Inv, vars
<1>3. ASSUME NEW p \in Ports, Pump(p) PROVE Inv'
  BY <1>3, OpenInv, ReadTlmInv, LearnInv, FailsInv DEF Pump
<1> QED
  BY <1>1, <1>2, <1>3, UnplugInv, DiscoverInv, WritersInv DEF Next

LEMMA InvAlways == Spec => []Inv
BY InitInv, NextInv, PTL DEF Spec

\* Handles, places and locals of the bridge keep their types; no handle is used
\* that was never opened.
THEOREM BridgeTypeCorrect == Spec => []BridgeTypeOK
BY InvAlways, PTL DEF Inv

\* A command or the answer to a DNSQ never goes to a board other than the one
\* it is for, however the boards change their ports: serial_write() and pump()
\* of serial_bridge.py.
THEOREM CommandsStayHome == Spec => []TableLeadsHome
BY InvAlways, PTL DEF Inv

=============================================================================
