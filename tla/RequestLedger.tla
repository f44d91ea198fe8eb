---------------------------- MODULE RequestLedger ---------------------------
(***************************************************************************)
(* What a gateway may rely on for each request that a node accepts: it is  *)
(* executed at most once, it gets at most one answer, RES only after it    *)
(* was executed and CANCELLED or DEADLINE_EXCEEDED only if it was not; an  *)
(* ACK does not come after the answer; a request that was cancelled while  *)
(* it was queued is never executed; CANCELLED answers a CANCEL.            *)
(***************************************************************************)
EXTENDS Naturals, Sequences

VARIABLE ledger   \* the accepted requests, in order

Init == ledger = <<>>

Entry(n, from, field, to) ==
    /\ ledger[n].stage \in from
    /\ ledger' = [ledger EXCEPT ![n][field] = to]

Accept ==
    LET n == Len(ledger) + 1 IN
    /\ Len(ledger') = n
    /\ SubSeq(ledger', 1, n - 1) = ledger
    /\ ledger'[n].stage = "accepted" /\ ~ ledger'[n].acked /\ ledger'[n].cancel = "no"

Unanswered == {"accepted", "executed", "lost"}

Ack(n) == ~ ledger[n].acked /\ Entry(n, Unanswered, "acked", TRUE)

AskCancel(n) == ledger[n].cancel = "no" /\ Entry(n, Unanswered, "cancel", "asked")

\* The CANCEL reached the job before the worker did.
Doom(n) == ledger[n].cancel = "asked" /\ Entry(n, {"accepted"}, "cancel", "doomed")

Execute(n) == ledger[n].cancel # "doomed" /\ Entry(n, {"accepted"}, "stage", "executed")

Answer(n) ==
    \/ Entry(n, {"executed"}, "stage", "RES")
    \/ Entry(n, {"accepted"}, "stage", "DEADLINE_EXCEEDED") /\ ledger[n].cancel # "doomed"
    \/ Entry(n, {"accepted"}, "stage", "CANCELLED") /\ ledger[n].cancel # "no"

\* The device had no buffer or no link for the reply.
Lose(n) == Entry(n, {"accepted", "executed"}, "stage", "lost")

Next ==
    \/ Accept
    \/ \E n \in 1..Len(ledger) :
         Ack(n) \/ AskCancel(n) \/ Doom(n) \/ Execute(n) \/ Answer(n) \/ Lose(n)

Spec == Init /\ [][Next]_ledger

=============================================================================
