---------------------------- MODULE PaymentLedger ----------------------------
(***************************************************************************)
(* What payment-service promises about each order, without webhooks,       *)
(* idempotency keys or failures: an order is opened once, is settled by    *)
(* one verdict, and that verdict is announced on the payment-events        *)
(* exchange at most once, only after it was recorded.  A failed order may  *)
(* be relabelled (failed <-> expired): both are announced as               *)
(* payment.failed.  Success and refund are final.                          *)
(***************************************************************************)
EXTENDS Sequences

CONSTANTS Orders

VARIABLES status, announced

ledger == <<status, announced>>

Success  == {"succeeded", "refunded"}
Failure  == {"failed", "expired"}
Verdicts == Success \cup Failure

\* The routing key a verdict is announced under.
AnnouncedAs(v) == CASE v = "succeeded" -> "payment.succeeded"
                    [] v = "refunded"  -> "payment.refunded"
                    [] v \in Failure   -> "payment.failed"

Init == /\ status    = [o \in Orders |-> "none"]
        /\ announced = [o \in Orders |-> <<>>]

Open(o) == /\ status[o] = "none"
           /\ status' = [status EXCEPT ![o] = "pending"]
           /\ UNCHANGED announced

Settle(o, v) == /\ status[o] = "pending" \/ {status[o], v} \subseteq Failure
                /\ status' = [status EXCEPT ![o] = v]
                /\ UNCHANGED announced

Announce(o) == /\ status[o] \in Verdicts
               /\ announced[o] = <<>>
               /\ announced' = [announced EXCEPT ![o] = <<AnnouncedAs(status[o])>>]
               /\ UNCHANGED status

Next == \E o \in Orders : \/ Open(o)
                          \/ Announce(o)
                          \/ \E v \in Verdicts : Settle(o, v)

Spec == Init /\ [][Next]_ledger
=============================================================================
