------------------------------- MODULE Payments -------------------------------
(***************************************************************************)
(* payment-service: createPayment and the Cryptomus and Fondy webhooks.    *)
(*                                                                         *)
(* One Node process serves every request; handlers interleave at their     *)
(* awaits.  Each await of the source is a step here.  Every await goes     *)
(* through a circuit breaker that may reject (error, timeout, open         *)
(* breaker) and the process may die: then the handler goes no further      *)
(* (Throw, WebhookThrow).  A breaker that times out does not stop the      *)
(* query it wrapped: that is a step that takes effect followed by a Throw. *)
(*                                                                         *)
(* The payment providers are the environment (Notify): they send a webhook *)
(* per change of an order, and deliver each one late, twice or out of      *)
(* order (Receive takes any notice, any number of times).                  *)
(***************************************************************************)
EXTENDS Naturals, Sequences, FiniteSets

CONSTANTS Orders,    \* provider_order_id values
          Webhooks   \* webhook requests that can be in progress at once

VARIABLES
  tx,         \* transactions.status of the order's row, "none" without a row
  method,     \* payment_method of the order, and so its provider
  maker,      \* where createPayment stands for the order
  open,       \* orders that exist at their provider
  notices,    \* statuses the provider has sent a webhook for
  idem,       \* orders whose payment:idempotency:<order> key is set in Redis
  hook,       \* webhook requests in progress
  published,  \* routing keys published for the order, oldest first
  \* history variables, read by the properties only
  acked,      \* <<order, status>> whose webhook was processed without an error
  threw       \* orders one of whose webhooks ended in an error

vars == <<tx, method, maker, open, notices, idem, hook, published, acked, threw>>

-------------------------------------------------------------------------------
(* Status maps of the providers.                                             *)

Terminal == {"succeeded", "failed", "refunded", "expired"}
Statuses == {"none", "pending"} \cup Terminal

\* fondy.provider.js mapStatus
FondyMap == [approved |-> "succeeded", declined |-> "failed",
             expired  |-> "expired",   reversed |-> "refunded"]

\* cryptomus.provider.js mapStatus
CryptomusMap == [paid |-> "succeeded", paid_over |-> "succeeded",
                 wrong_amount |-> "failed", cancel |-> "failed", fail |-> "failed"]

StatusMap       == [card |-> FondyMap, crypto |-> CryptomusMap]
ProviderStatus  == DOMAIN FondyMap \cup DOMAIN CryptomusMap

\* What a provider can report only once the customer has paid.
Paying == {"approved", "reversed", "paid", "paid_over"}

\* mapEventKey of both providers
EventKey(s) == CASE s = "succeeded"             -> "payment.succeeded"
                 [] s = "refunded"              -> "payment.refunded"
                 [] s \in {"failed", "expired"} -> "payment.failed"
EventKeys   == {"payment.succeeded", "payment.refunded", "payment.failed"}

-------------------------------------------------------------------------------
(* Requests in progress.                                                     *)

Methods == {"card", "crypto"}

\* createPayment of an order: not called yet, after the insert, in the catch
\* block, before the provider_payment_id update, returned, thrown.  An order
\* that is "foreign" was made at the provider by somebody else.
MakerSteps == {"new", "call", "fail", "link", "done", "threw", "foreign"}

HookSteps == {"idle", "claim", "find", "release", "update", "publish"}
Idle      == [at |-> "idle"]
Hook      == [at : HookSteps \ {"idle"}, order : Orders, status : Terminal]

Busy(w, o) == hook[w].at # "idle" /\ hook[w].order = o

TypeOK ==
  /\ tx \in [Orders -> Statuses]
  /\ method \in [Orders -> Methods]
  /\ maker \in [Orders -> MakerSteps]
  /\ open \subseteq Orders
  /\ notices \in [Orders -> SUBSET ProviderStatus]
  /\ idem \subseteq Orders
  /\ hook \in [Webhooks -> Hook \cup {Idle}]
  /\ published \in [Orders -> Seq(EventKeys)]
  /\ acked \subseteq Orders \X Terminal
  /\ threw \subseteq Orders

Init ==
  /\ tx = [o \in Orders |-> "none"]
  /\ method \in [Orders -> Methods]
  /\ maker \in [Orders -> {"new", "foreign"}]
  /\ open = {o \in Orders : maker[o] = "foreign"}
  /\ notices = [o \in Orders |-> {}]
  /\ idem = {}
  /\ hook = [w \in Webhooks |-> Idle]
  /\ published = [o \in Orders |-> <<>>]
  /\ acked = {}
  /\ threw = {}

-------------------------------------------------------------------------------
(* createPayment                                                             *)

MakerGoes(o, step) == maker' = [maker EXCEPT ![o] = step]

\* TransactionModel.create: a pending row for the order.
Insert(o) ==
  /\ maker[o] = "new"
  /\ tx' = [tx EXCEPT ![o] = "pending"]
  /\ MakerGoes(o, "call")
  /\ UNCHANGED <<method, open, notices, idem, hook, published, acked, threw>>

\* The provider answers: Cryptomus with an id that is linked next, Fondy
\* without one.
ProviderAnswers(o) ==
  /\ maker[o] = "call"
  /\ MakerGoes(o, IF method[o] = "crypto" THEN "link" ELSE "done")
  /\ open' = open \cup {o}
  /\ UNCHANGED <<tx, method, notices, idem, hook, published, acked, threw>>

\* The call fails or times out; the provider may have made the order all the
\* same.
ProviderFails(o) ==
  /\ maker[o] = "call"
  /\ MakerGoes(o, "fail")
  /\ open' \in {open, open \cup {o}}
  /\ UNCHANGED <<tx, method, notices, idem, hook, published, acked, threw>>

\* The catch block marks the row failed, whatever its status is by now.
RecordFailure(o) ==
  /\ maker[o] = "fail"
  /\ tx' = [tx EXCEPT ![o] = "failed"]
  /\ MakerGoes(o, "threw")
  /\ UNCHANGED <<method, open, notices, idem, hook, published, acked, threw>>

\* updateByProviderOrderId(order, {provider_payment_id}): no status change.
Link(o) ==
  /\ maker[o] = "link"
  /\ MakerGoes(o, "done")
  /\ UNCHANGED <<tx, method, open, notices, idem, hook, published, acked, threw>>

\* A database call of createPayment rejects, or the process dies.  (Before the
\* provider has answered, that is ProviderFails and then Throw.)
Throw(o) ==
  /\ maker[o] \in {"fail", "link"}
  /\ MakerGoes(o, "threw")
  /\ UNCHANGED <<tx, method, open, notices, idem, hook, published, acked, threw>>

-------------------------------------------------------------------------------
(* The provider (environment).                                               *)

\* An order ends in one way at its provider, and a card payment that was
\* approved can be reversed.  The customer pays on the page whose address
\* createPayment returned.
Notify(o, s) ==
  /\ o \in open
  /\ s \in DOMAIN StatusMap[method[o]]
  /\ s \notin notices[o]
  /\ IF s = "reversed" THEN "approved" \in notices[o] ELSE notices[o] = {}
  /\ s \in Paying => maker[o] \in {"done", "foreign"}
  /\ notices' = [notices EXCEPT ![o] = @ \cup {s}]
  /\ UNCHANGED <<tx, method, maker, open, idem, hook, published, acked, threw>>

-------------------------------------------------------------------------------
(* processCryptomusWebhook, processFondyWebhook                              *)

HookGoes(w, step) == hook' = [hook EXCEPT ![w].at = step]

\* Fault: the status is used as the provider spells it.
ReceiveUnmapped(w, o, s) ==
  /\ hook[w] = Idle
  /\ s \in notices[o]
  /\ hook' = [hook EXCEPT ![w] = [at |-> "claim", order |-> o, status |-> s]]
  /\ UNCHANGED <<tx, method, maker, open, notices, idem, published, acked, threw>>

\* A signed webhook arrives and its status is one the service knows.
Receive(w, o, s) ==
  /\ hook[w] = Idle
  /\ s \in notices[o]
  /\ hook' = [hook EXCEPT ![w] = [at |-> "claim", order |-> o,
                                  status |-> StatusMap[method[o]][s]]]
  /\ UNCHANGED <<tx, method, maker, open, notices, idem, published, acked, threw>>

\* The request ends without an error: HTTP 200, success.
Return(w) ==
  /\ hook' = [hook EXCEPT ![w] = Idle]
  /\ acked' = acked \cup {<<hook[w].order, hook[w].status>>}

\* Fault: the key is written without NX, so nothing is a duplicate.
ClaimWithoutNX(w) ==
  /\ hook[w].at = "claim"
  /\ idem' = idem \cup {hook[w].order}
  /\ HookGoes(w, "find")
  /\ UNCHANGED <<tx, method, maker, open, notices, published, acked, threw>>

\* checkAndSetIdempotency: SET key NX.  A key that is there makes the webhook
\* a duplicate.
Claim(w) ==
  LET o == hook[w].order IN
  /\ hook[w].at = "claim"
  /\ \/ /\ o \in idem
        /\ Return(w)
        /\ UNCHANGED idem
     \/ /\ o \notin idem
        /\ idem' = idem \cup {o}
        /\ HookGoes(w, "find")
        /\ UNCHANGED acked
  /\ UNCHANGED <<tx, method, maker, open, notices, published, threw>>

\* Fault: a terminal status does not stop the webhook.
FindSkipsTerminalCheck(w) ==
  /\ hook[w].at = "find"
  /\ HookGoes(w, IF tx[hook[w].order] = "none" THEN "release" ELSE "update")
  /\ UNCHANGED <<tx, method, maker, open, notices, idem, published, acked, threw>>

\* findByProviderOrderId, and what its result decides.
Find(w) ==
  LET o == hook[w].order IN
  /\ hook[w].at = "find"
  /\ \/ /\ tx[o] = "none"
        /\ HookGoes(w, "release")
        /\ UNCHANGED acked
     \/ /\ tx[o] \in Terminal
        /\ Return(w)
     \/ /\ tx[o] = "pending"
        /\ HookGoes(w, "update")
        /\ UNCHANGED acked
  /\ UNCHANGED <<tx, method, maker, open, notices, idem, published, threw>>

\* removeIdempotency for an order the service does not know.
Release(w) ==
  /\ hook[w].at = "release"
  /\ idem' = idem \ {hook[w].order}
  /\ Return(w)
  /\ UNCHANGED <<tx, method, maker, open, notices, published, threw>>

\* Fault: the event is published for failures only.
UpdateWithoutEvent(w) ==
  /\ hook[w].at = "update"
  /\ tx' = [tx EXCEPT ![hook[w].order] = hook[w].status]
  /\ IF hook[w].status = "succeeded" THEN Return(w)
                                     ELSE HookGoes(w, "publish") /\ UNCHANGED acked
  /\ UNCHANGED <<method, maker, open, notices, idem, published, threw>>

\* updateByProviderOrderId(order, {status, ...}): the status is not checked again.
Update(w) ==
  /\ hook[w].at = "update"
  /\ tx' = [tx EXCEPT ![hook[w].order] = hook[w].status]
  /\ HookGoes(w, "publish")
  /\ UNCHANGED <<method, maker, open, notices, idem, published, acked, threw>>

\* publishEvent(mapEventKey(status), payload).
Publish(w) ==
  LET o == hook[w].order IN
  /\ hook[w].at = "publish"
  /\ published' = [published EXCEPT ![o] = Append(@, EventKey(hook[w].status))]
  /\ Return(w)
  /\ UNCHANGED <<tx, method, maker, open, notices, idem, threw>>

\* A breaker rejects or the process dies: HTTP 200 with success: false (or no
\* answer), and the key stays set.
WebhookThrow(w) ==
  /\ hook[w] # Idle
  /\ hook' = [hook EXCEPT ![w] = Idle]
  /\ threw' = threw \cup {hook[w].order}
  /\ UNCHANGED <<tx, method, maker, open, notices, idem, published, acked>>

\* Fault: a TTL that a slow webhook can outlive.
KeyExpiresEarly(o) ==
  /\ o \in idem
  /\ idem' = idem \ {o}
  /\ UNCHANGED <<tx, method, maker, open, notices, hook, published, acked, threw>>

\* The key's TTL (24 hours) runs out; a webhook is over in seconds.
KeyExpires(o) ==
  /\ o \in idem
  /\ \A w \in Webhooks : ~Busy(w, o)
  /\ idem' = idem \ {o}
  /\ UNCHANGED <<tx, method, maker, open, notices, hook, published, acked, threw>>

-------------------------------------------------------------------------------

CreatePayment(o) == \/ Insert(o)         \/ ProviderAnswers(o) \/ ProviderFails(o)
                    \/ RecordFailure(o)  \/ Link(o)            \/ Throw(o)

WebhookStep(w) == \/ Claim(w)  \/ Find(w)  \/ Release(w)  \/ Update(w)  \/ Publish(w)

Next == \/ \E o \in Orders : CreatePayment(o) \/ KeyExpires(o)
        \/ \E o \in Orders, s \in ProviderStatus : Notify(o, s)
        \/ \E w \in Webhooks, o \in Orders, s \in ProviderStatus : Receive(w, o, s)
        \/ \E w \in Webhooks : WebhookStep(w) \/ WebhookThrow(w)

\* Node runs every continuation whose promise has settled, so a webhook that
\* can take a step does take one: its next step, or the rejection.
Fairness == \A w \in Webhooks : WF_vars(WebhookStep(w) \/ WebhookThrow(w))

Spec     == Init /\ [][Next]_vars
FairSpec == Spec /\ Fairness

-------------------------------------------------------------------------------
(* Properties.                                                               *)

Settling == {"find", "release", "update", "publish"}

\* The key is a lock: of all the webhooks of an order, whatever they report,
\* at most one at a time is between the idempotency check and its end, and
\* the key is set for as long as it is (payment.service.js, SET NX first).
OneSettler ==
  \A v, w \in Webhooks :
    hook[v].at \in Settling =>
      /\ hook[v].order \in idem
      /\ hook[w].at \in Settling /\ hook[w].order = hook[v].order => v = w

\* However often, late or out of order a provider reports an order, and
\* whichever handlers fail half way, subscription-service is sent at most one
\* event for it, and the event says what the row says.
AnnouncedOnceAndTrue ==
  \A o \in Orders : \/ published[o] = <<>>
                    \/ tx[o] \in Terminal /\ published[o] = <<EventKey(tx[o])>>

\* payment-service keeps the promise of PaymentLedger.
Ledger     == INSTANCE PaymentLedger WITH status <- tx, announced <- published
LedgerSpec == Ledger!Spec

\* A payment recorded as succeeded is announced, unless one of the order's
\* webhooks ended in an error.
PaidIsAnnounced ==
  \A o \in Orders : tx[o] = "succeeded" ~> (published[o] # <<>> \/ o \in threw)

\* docs/payment/payment-service-spec.md:207: a reversed charge is published as
\* payment.refunded.  When a reversal was processed without an error, no webhook
\* of the order failed and none is in progress, the refund has been announced.
\* (Refuted: the key of the order, and after it the terminal status, make the
\* reversal of an approved order a duplicate.)
ReversalIsAnnounced ==
  \A o \in Orders :
    /\ <<o, "refunded">> \in acked
    /\ tx[o] # "none"
    /\ o \notin threw
    /\ \A w \in Webhooks : ~Busy(w, o)
    => \E i \in DOMAIN published[o] : published[o][i] = "payment.refunded"
===============================================================================
