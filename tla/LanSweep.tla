------------------------------ MODULE LanSweep ------------------------------
(***************************************************************************)
(* The LAN map of the fleet host: _arp_loop() of DnsService sweeps the     *)
(* network, gives the addresses it finds a row with their MAC in           *)
(* lan_devices, announces those it has not known, and drops the rows of    *)
(* addresses not seen for two hours.  The DNS writer puts rows there too,  *)
(* without a MAC.                                                          *)
(*                                                                         *)
(* The names and vendors of the devices are left out.  A definition that   *)
(* is called a deviation is an operation with a mistake in it, to be put   *)
(* in the place of the one that follows it.                                *)
(***************************************************************************)
EXTENDS Integers, FiniteSets

CONSTANTS
    Ips,       \* addresses of the LAN
    Host,      \* the address of the fleet host, none of Ips
    MaxMoves,  \* bound of the model: devices that come or go, restarts, failures
    Trouble    \* bound of the model: what may go wrong: "restart", "store", "poke"

VARIABLES
    present,   \* the addresses that answer ARP
    row,       \* lan_devices: "none", "dns": without a MAC, or "mac"
    old,       \* the rows not seen for two hours
    sweeps,    \* sweeps, up to 2
    pc,        \* where _refresh_arp() is; "sleep" is its caller
    known,     \* its local known
    first,     \* its local first_pass
    table,     \* the ARP table, and then what is left of the output of arp -a
    awaited,   \* the devices that came to a network that is being watched
    moves      \* coming and going so far

vars == <<present, row, old, sweeps, pc, known, first, table, awaited, moves>>
local == <<sweeps, pc, known, first, table>>
Rows == Ips \union {Host}

SweepTypeOK ==
    /\ present \subseteq Ips /\ old \subseteq Rows
    /\ row \in [Rows -> {"none", "dns", "mac"}]
    /\ sweeps \in 0..2 /\ pc \in {"sleep", "poke", "list", "arp", "upsert"}
    /\ known \subseteq Ips /\ first \in BOOLEAN /\ table \subseteq Ips
    /\ awaited \subseteq present /\ moves \in 0..MaxMoves

Init ==
    /\ present \in SUBSET Ips
    /\ row \in [Rows -> {"none", "dns", "mac"}] /\ row[Host] # "mac" /\ old = {}
    /\ sweeps = 0 /\ pc = "sleep" /\ known = {} /\ first = TRUE /\ table = {}
    /\ awaited = {} /\ moves = 0

WithMac == {ip \in Rows : row[ip] = "mac"}
Move == moves < MaxMoves /\ moves' = moves + 1

-----------------------------------------------------------------------------
(* The network.                                                            *)

\* A device comes.  It is to be announced if others have been recorded, it has
\* not, and the first sweep is over.
Join(ip) ==
    /\ Move
    /\ ip \notin present
    /\ present' = present \union {ip}
    /\ awaited' = IF sweeps > 0 /\ pc \in {"sleep", "poke"} /\ WithMac # {} /\ ip \notin WithMac
                  THEN awaited \union {ip} ELSE awaited
    /\ UNCHANGED <<row, old, local>>

Leave(ip) ==
    /\ Move
    /\ ip \in present
    /\ present' = present \ {ip}
    /\ awaited' = awaited \ {ip}
    /\ UNCHANGED <<row, old, local>>

\* Two hours pass without a sign of an address.
Ages(ip) ==
    /\ ip \notin present /\ row[ip] # "none" /\ ip \notin old
    /\ old' = old \union {ip}
    /\ UNCHANGED <<present, row, local, awaited, moves>>

\* upsert_lan_device(): a MAC that was known stays.
Seen(ip, kind) ==
    /\ row' = [row EXCEPT ![ip] = IF @ = "mac" THEN @ ELSE kind]
    /\ old' = old \ {ip}

\* insert_dns_batch(): the client of a lookup.
DnsRow(ip) ==
    /\ ip \in present
    /\ row[ip] = "none" \/ ip \in old
    /\ Seen(ip, "dns")
    /\ UNCHANGED <<present, local, awaited, moves>>

-----------------------------------------------------------------------------
(* The sweep.                                                              *)

\* _refresh_arp() gives the host a row of its own, which has no MAC.
NameHost ==
    /\ pc = "sleep"
    /\ pc' = "poke"
    /\ Seen(Host, "dns")
    /\ UNCHANGED <<present, sweeps, known, first, table, awaited, moves>>

NameHostFails ==
    /\ "store" \in Trouble /\ Move
    /\ pc = "sleep"
    /\ pc' = "poke"
    /\ UNCHANGED <<present, row, old, sweeps, known, first, table, awaited>>

Swept ==
    /\ pc = "poke"
    /\ pc' = "list"
    /\ sweeps' = IF sweeps < 2 THEN sweeps + 1 ELSE 2
    /\ UNCHANGED <<present, row, old, known, first, awaited>>

\* _poke() sends to every address, so that who is there gets into the ARP table.
Poke == Swept /\ table' = present /\ UNCHANGED moves

\* There is no socket for it: the table is what the traffic of the host made it.
PokeFails == "poke" \in Trouble /\ Move /\ Swept /\ table' \in SUBSET present

\* Deviation: a row without a MAC is known as well.
KnownWithRow == {ip \in Rows : row[ip] # "none"}

Known == WithMac

\* What is known before the new output is looked at.
List ==
    /\ pc = "list"
    /\ known' = Known
    /\ first' = (sweeps <= 1 \/ Known = {})
    /\ pc' = "arp"
    /\ UNCHANGED <<present, row, old, sweeps, table, awaited, moves>>

\* The store fails: nothing is known, nothing will be announced.
ListFails ==
    /\ "store" \in Trouble /\ Move
    /\ pc = "list"
    /\ known' = {} /\ first' = TRUE
    /\ pc' = "arp"
    /\ UNCHANGED <<present, row, old, sweeps, table, awaited>>

\* arp -a: who came since may be in the table as well.
ReadArp ==
    /\ pc = "arp"
    /\ \E late \in SUBSET (present \ table) : table' = table \union late
    /\ pc' = "upsert"
    /\ UNCHANGED <<present, row, old, sweeps, known, first, awaited, moves>>

Announced(ip) == ~first /\ ip \notin known

\* upsert_lan_device() of the next address, then on_new_device().
Upsert(ip) ==
    /\ pc = "upsert" /\ ip \in table
    /\ Seen(ip, "mac")
    /\ table' = table \ {ip}
    /\ awaited' = IF first \/ Announced(ip) THEN awaited \ {ip} ELSE awaited
    /\ known' = IF Announced(ip) THEN known \union {ip} ELSE known
    /\ UNCHANGED <<present, sweeps, pc, first, moves>>

\* It fails, before or after the statement: the sweep is over, and who has a
\* row by now is not announced any more.
UpsertFails(ip, written) ==
    /\ "store" \in Trouble /\ Move
    /\ pc = "upsert" /\ ip \in table
    /\ IF written THEN Seen(ip, "mac") ELSE UNCHANGED <<row, old>>
    /\ awaited' = IF written THEN awaited \ {ip} ELSE awaited
    /\ pc' = "sleep" /\ table' = {}
    /\ UNCHANGED <<present, sweeps, known, first>>

\* prune_lan(), and the sleep until the next sweep.
PruneLan ==
    /\ pc = "upsert" /\ table = {}
    /\ row' = [ip \in Rows |-> IF ip \in old THEN "none" ELSE row[ip]]
    /\ old' = {}
    /\ pc' = "sleep"
    /\ UNCHANGED <<present, sweeps, known, first, table, awaited, moves>>

\* The host comes up again: its first sweep announces nobody.
Restart ==
    /\ "restart" \in Trouble /\ Move
    /\ sweeps' = 0 /\ pc' = "sleep" /\ known' = {} /\ first' = TRUE /\ table' = {}
    /\ awaited' = {}
    /\ UNCHANGED <<present, row, old>>

Next ==
    \/ \E ip \in Ips : Join(ip) \/ Leave(ip) \/ Ages(ip) \/ DnsRow(ip) \/ Upsert(ip)
    \/ \E ip \in Ips, written \in BOOLEAN : UpsertFails(ip, written)
    \/ NameHost \/ NameHostFails \/ Poke \/ PokeFails \/ List \/ ListFails \/ ReadArp \/ PruneLan \/ Restart

Sweep == NameHost \/ Poke \/ List \/ ReadArp \/ (\E ip \in Ips : Upsert(ip)) \/ PruneLan

Spec == Init /\ [][Next]_vars

\* The loop sweeps again and again.
Fairness == WF_vars(Sweep)

FairSpec == Spec /\ Fairness

-----------------------------------------------------------------------------

\* The devices that join a network with recorded devices are announced, whatever
\* they look up before the sweep finds them; a restart, a failing store or the
\* loss of all rows in between make them known without a word.  _refresh_arp().
JoinerAnnounced == awaited # {} ~> awaited = {}

=============================================================================
