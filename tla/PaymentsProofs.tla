---------------------------- MODULE PaymentsProofs ----------------------------
(***************************************************************************)
(* What a customer pays.  Payments, for every set of orders and of         *)
(* concurrent webhooks: its types, the lock the idempotency key is, at     *)
(* most one true event per order, and the implementation of PaymentLedger. *)
(* Checkout, for every set of codes, offers, prices and checkouts in       *)
(* progress: its types, the uses of promo codes and what orders cost.      *)
(***************************************************************************)
EXTENDS MCPayments, FiniteSetTheorems, TLAPS

-------------------------------------------------------------------------------
(* The inductive invariant.                                                  *)

Succeeding == {"succeeded", "refunded"}

\* Before the provider has the order, createPayment is alone with its row.
Alone ==
  \A o \in Orders :
    /\ notices[o] \subseteq DOMAIN StatusMap[method[o]]
    /\ notices[o] # {} => o \in open
    /\ maker[o] \in {"new", "call"} => o \notin open
    /\ maker[o] = "call" => tx[o] = "pending"
    /\ maker[o] \in {"new", "foreign"} => tx[o] = "none"
    /\ maker[o] = "fail" => tx[o] \notin Succeeding \cup {"none"}
    /\ notices[o] \cap Paying # {} => maker[o] \in {"done", "foreign"}

\* A webhook in progress stems from a notice; one that reports a payment
\* finds createPayment returned.
Reported ==
  \A w \in Webhooks : hook[w].at # "idle" =>
    /\ hook[w].order \in open
    /\ hook[w].status \in Succeeding => maker[hook[w].order] \in {"done", "foreign"}

\* What a webhook read is what it still finds, up to a failure recorded by
\* createPayment's catch block.
Current ==
  \A w \in Webhooks :
    /\ hook[w].at = "update" =>
         /\ published[hook[w].order] = <<>>
         /\ \/ tx[hook[w].order] = "pending"
            \/ /\ tx[hook[w].order] = "failed"
               /\ hook[w].status \notin Succeeding
    /\ hook[w].at = "publish" =>
         /\ published[hook[w].order] = <<>>
         /\ tx[hook[w].order] \in Terminal
         /\ EventKey(tx[hook[w].order]) = EventKey(hook[w].status)

IInv == TypeOK /\ OneSettler /\ Alone /\ Reported /\ Current /\ AnnouncedOnceAndTrue

-------------------------------------------------------------------------------
(* Lemmas.                                                                   *)

\* mapStatus of either provider yields terminal statuses, and success or
\* refund only for what a customer has paid.
LEMMA StatusMapRange ==
  ASSUME NEW m \in Methods, NEW s \in DOMAIN StatusMap[m]
  PROVE  /\ s \in ProviderStatus
         /\ StatusMap[m][s] \in Terminal
         /\ StatusMap[m][s] \in Succeeding => s \in Paying
<1>1. CASE m = "card"
  BY <1>1 DEF StatusMap, FondyMap, Terminal, Succeeding, Paying, ProviderStatus
<1>2. CASE m = "crypto"
  BY <1>2 DEF StatusMap, CryptomusMap, Terminal, Succeeding, Paying, ProviderStatus
<1>3. QED BY <1>1, <1>2 DEF Methods

\* What a webhook's move to its next step, and its end, do to hook.
LEMMA HookMoves ==
  ASSUME TypeOK, NEW w \in Webhooks, hook[w].at # "idle"
  PROVE  /\ hook[w] \in Hook
         /\ \A step \in HookSteps \ {"idle"} : HookGoes(w, step) =>
              /\ hook' \in [Webhooks -> Hook \cup {Idle}]
              /\ hook'[w].at = step
              /\ hook'[w].order = hook[w].order
              /\ hook'[w].status = hook[w].status
              /\ \A v \in Webhooks \ {w} : hook'[v] = hook[v]
         /\ hook' = [hook EXCEPT ![w] = Idle] =>
              /\ hook' \in [Webhooks -> Hook \cup {Idle}]
              /\ hook'[w].at = "idle"
              /\ \A v \in Webhooks \ {w} : hook'[v] = hook[v]
<1>1. hook \in [Webhooks -> Hook \cup {Idle}]
  BY DEF TypeOK
<1>2. hook[w] \in Hook
  BY <1>1 DEF Idle
<1>3. ASSUME NEW step \in HookSteps \ {"idle"}, HookGoes(w, step)
      PROVE  /\ hook'[w] = [hook[w] EXCEPT !.at = step]
             /\ \A v \in Webhooks \ {w} : hook'[v] = hook[v]
             /\ hook' = [hook EXCEPT ![w] = [hook[w] EXCEPT !.at = step]]
  BY <1>1, <1>3 DEF HookGoes
<1>4. ASSUME NEW step \in HookSteps \ {"idle"}
      PROVE  LET r == [hook[w] EXCEPT !.at = step]
             IN  r \in Hook /\ r.at = step /\ r.order = hook[w].order /\ r.status = hook[w].status
  BY <1>2 DEF Hook
<1>5. ASSUME NEW step \in HookSteps \ {"idle"}, HookGoes(w, step)
      PROVE  hook' \in [Webhooks -> Hook \cup {Idle}]
  BY <1>1, <1>3, <1>4, <1>5
<1>6. ASSUME NEW step \in HookSteps \ {"idle"}, HookGoes(w, step)
      PROVE  hook'[w].at = step /\ hook'[w].order = hook[w].order /\ hook'[w].status = hook[w].status
  BY <1>3, <1>4, <1>6
<1>7. ASSUME hook' = [hook EXCEPT ![w] = Idle]
      PROVE  /\ hook' \in [Webhooks -> Hook \cup {Idle}]
             /\ hook'[w].at = "idle"
             /\ \A v \in Webhooks \ {w} : hook'[v] = hook[v]
  BY <1>1, <1>7 DEF Idle
<1>8. QED BY <1>2, <1>3, <1>5, <1>6, <1>7

\* A webhook in progress has an order and a status.
LEMMA HookFields ==
  TypeOK => \A w \in Webhooks : hook[w].at # "idle" =>
              hook[w].order \in Orders /\ hook[w].status \in Terminal
BY HookMoves DEF Hook

\* The initial states satisfy the invariant.
LEMMA InitIInv == Init => IInv
<1> SUFFICES ASSUME Init PROVE IInv
  OBVIOUS
<1> USE DEF Init
<1>1. TypeOK
  BY DEF TypeOK, Statuses, Idle, MakerSteps
<1>2. OneSettler /\ Reported /\ Current
  BY DEF OneSettler, Reported, Current, Settling, Idle
<1>3. Alone
  BY DEF Alone
<1>4. AnnouncedOnceAndTrue
  BY DEF AnnouncedOnceAndTrue
<1>5. QED BY <1>1, <1>2, <1>3, <1>4 DEF IInv

-------------------------------------------------------------------------------
(* createPayment, the provider and the clock leave the webhooks where they   *)
(* are.                                                                      *)

\* createPayment, a notice of the provider and the end of a TTL preserve it.
LEMMA OthersIInv ==
  ASSUME IInv, NEW o \in Orders, NEW s \in ProviderStatus,
         CreatePayment(o) \/ KeyExpires(o) \/ Notify(o, s)
  PROVE  IInv'
<1> USE DEF IInv
<1>f. \A w \in Webhooks : hook[w].at # "idle" =>
        hook[w].order \in Orders /\ hook[w].status \in Terminal
  BY HookFields
<1>1. CASE Insert(o)
  <2> USE <1>1 DEF Insert, MakerGoes
  <2>1. TypeOK'
    BY DEF TypeOK, Statuses, MakerSteps
  <2>2. OneSettler' /\ Reported' /\ Current'
    BY DEF OneSettler, Reported, Current, Alone, TypeOK, Busy
  <2>3. Alone'
    BY DEF Alone, TypeOK
  <2>4. AnnouncedOnceAndTrue'
    BY DEF AnnouncedOnceAndTrue, Alone, TypeOK, Terminal
  <2>5. QED BY <2>1, <2>2, <2>3, <2>4
<1>2. CASE ProviderAnswers(o) \/ ProviderFails(o)
  <2> USE <1>2 DEF ProviderAnswers, ProviderFails, MakerGoes
  <2>1. TypeOK'
    BY DEF TypeOK, MakerSteps
  <2>2. OneSettler' /\ Current' /\ AnnouncedOnceAndTrue'
    BY DEF OneSettler, Current, AnnouncedOnceAndTrue
  <2>5. Reported'
    BY <1>f DEF Reported, Alone, TypeOK
  <2>3. Alone'
    BY DEF Alone, TypeOK, Succeeding
  <2>4. QED BY <2>1, <2>2, <2>3, <2>5
<1>3. CASE RecordFailure(o)
  <2> USE <1>3 DEF RecordFailure, MakerGoes
  <2>1. TypeOK'
    BY DEF TypeOK, Statuses, Terminal, MakerSteps
  <2>2. OneSettler' /\ Reported'
    BY DEF OneSettler, Reported, TypeOK
  <2>3. ASSUME NEW w \in Webhooks, hook[w].order = o, hook[w].at # "idle"
        PROVE  hook[w].status \in {"failed", "expired"} /\ tx[o] \notin Succeeding
    BY <1>f, <2>3 DEF Reported, Alone, Terminal, Succeeding
  <2>8. ASSUME NEW w \in Webhooks
        PROVE  /\ hook[w].at = "update" => published[hook[w].order] = <<>>
                    /\ \/ tx'[hook[w].order] = "pending"
                       \/ /\ tx'[hook[w].order] = "failed"
                          /\ hook[w].status \notin Succeeding
               /\ hook[w].at = "publish" => published[hook[w].order] = <<>>
                    /\ tx'[hook[w].order] \in Terminal
                    /\ EventKey(tx'[hook[w].order]) = EventKey(hook[w].status)
    <3>1. CASE hook[w].at # "idle" /\ hook[w].order = o
      BY <2>3, <3>1 DEF Current, TypeOK, Terminal, EventKey, Succeeding
    <3>2. CASE hook[w].at # "idle" /\ hook[w].order # o
      <4>1. tx'[hook[w].order] = tx[hook[w].order]
        BY <1>f, <3>2 DEF TypeOK
      <4>2. QED BY <4>1 DEF Current
    <3>3. QED BY <3>1, <3>2
  <2>7. Current'
    BY <2>8 DEF Current
  <2>4. Alone'
    BY DEF Alone, TypeOK
  <2>5. AnnouncedOnceAndTrue'
    BY DEF AnnouncedOnceAndTrue, Alone, TypeOK, Terminal, EventKey, Succeeding
  <2>6. QED BY <2>1, <2>2, <2>4, <2>5, <2>7
<1>4. CASE Link(o) \/ Throw(o)
  <2> USE <1>4 DEF Link, Throw, MakerGoes
  <2>1. TypeOK'
    BY DEF TypeOK, MakerSteps
  <2>2. OneSettler' /\ Current' /\ AnnouncedOnceAndTrue'
    BY DEF OneSettler, Current, AnnouncedOnceAndTrue
  <2>3. Reported'
    BY <1>f DEF Reported, TypeOK, Succeeding
  <2>4. Alone'
    BY DEF Alone, TypeOK
  <2>5. QED BY <2>1, <2>2, <2>3, <2>4
<1>5. CASE KeyExpires(o)
  <2> USE <1>5 DEF KeyExpires
  <2>1. TypeOK' /\ Alone' /\ Reported' /\ Current' /\ AnnouncedOnceAndTrue'
    BY DEF TypeOK, Alone, Reported, Current, AnnouncedOnceAndTrue
  <2>2. OneSettler'
    BY DEF OneSettler, Busy, Settling
  <2>3. QED BY <2>1, <2>2
<1>6. CASE Notify(o, s)
  <2> USE <1>6 DEF Notify
  <2>1. TypeOK' /\ OneSettler' /\ Reported' /\ Current' /\ AnnouncedOnceAndTrue'
    BY DEF TypeOK, OneSettler, Reported, Current, AnnouncedOnceAndTrue
  <2>2. Alone'
    BY DEF Alone, TypeOK
  <2>3. QED BY <2>1, <2>2
<1>7. QED BY <1>1, <1>2, <1>3, <1>4, <1>5, <1>6 DEF CreatePayment

-------------------------------------------------------------------------------
(* The webhook handlers.                                                     *)

\* Only w moves: the others keep what they had.
LEMMA WebhookIInv ==
  ASSUME IInv, NEW w \in Webhooks, WebhookStep(w) \/ WebhookThrow(w)
  PROVE  IInv'
<1> DEFINE o == hook[w].order
<1> USE DEF IInv
<1>a. hook[w].at # "idle"
  <2>1. CASE WebhookStep(w)
    BY <2>1 DEF WebhookStep, Claim, Find, Release, Update, Publish
  <2>2. CASE WebhookThrow(w)
    BY <2>2 DEF WebhookThrow, TypeOK, Hook, HookSteps
  <2>3. QED BY <2>1, <2>2
<1>b. hook[w] \in Hook /\ o \in Orders /\ hook[w].status \in Terminal
  BY <1>a, HookMoves, HookFields
<1>c. \A v \in Webhooks : hook[v].at # "idle" => hook[v].order \in Orders
  BY HookFields
<1>1. CASE Claim(w)
  <2> USE <1>1 DEF Claim
  <2>1. CASE o \in idem
    <3>1. hook' = [hook EXCEPT ![w] = Idle] /\ acked' = acked \cup {<<o, hook[w].status>>}
      BY <2>1 DEF Return
    <3>2. /\ hook' \in [Webhooks -> Hook \cup {Idle}]
          /\ hook'[w].at = "idle"
          /\ \A v \in Webhooks \ {w} : hook'[v] = hook[v]
      BY <1>a, <3>1, HookMoves
    <3>3. idem' = idem
      BY <2>1
    <3>4. TypeOK' /\ Alone' /\ AnnouncedOnceAndTrue'
      BY <1>b, <3>1, <3>2, <3>3 DEF TypeOK, Alone, AnnouncedOnceAndTrue
    <3>5. OneSettler' /\ Reported' /\ Current'
      BY <3>2, <3>3 DEF OneSettler, Reported, Current, Settling
    <3>6. QED BY <3>4, <3>5
  <2>2. CASE o \notin idem
    <3>1. /\ hook' \in [Webhooks -> Hook \cup {Idle}]
          /\ hook'[w].at = "find" /\ hook'[w].order = o /\ hook'[w].status = hook[w].status
          /\ \A v \in Webhooks \ {w} : hook'[v] = hook[v]
      BY <1>a, <2>2, HookMoves DEF HookSteps
    <3>2. idem' = idem \cup {o}
      BY <2>2
    <3>3. TypeOK' /\ Alone' /\ AnnouncedOnceAndTrue'
      BY <1>b, <2>2, <3>1, <3>2 DEF TypeOK, Alone, AnnouncedOnceAndTrue
    <3>4. OneSettler'
      BY <2>2, <3>1, <3>2 DEF OneSettler, Settling
    <3>5. Reported' /\ Current'
      BY <1>a, <2>2, <3>1 DEF Reported, Current
    <3>6. QED BY <3>3, <3>4, <3>5
  <2>3. QED BY <2>1, <2>2
<1>2. ASSUME NEW step \in {"release", "update"}, Find(w), HookGoes(w, step),
             UNCHANGED acked, step = "update" => tx[o] = "pending"
      PROVE  IInv'
  <2>1. /\ hook' \in [Webhooks -> Hook \cup {Idle}]
        /\ hook'[w].at = step /\ hook'[w].order = o /\ hook'[w].status = hook[w].status
        /\ \A v \in Webhooks \ {w} : hook'[v] = hook[v]
    BY <1>a, <1>2, HookMoves DEF HookSteps
  <2>2. TypeOK' /\ Alone' /\ AnnouncedOnceAndTrue'
    BY <1>2, <2>1 DEF Find, TypeOK, Alone, AnnouncedOnceAndTrue
  <2>3. OneSettler'
    BY <1>2, <2>1 DEF Find, OneSettler, Settling
  <2>4. Reported'
    BY <1>2, <1>a, <2>1 DEF Find, Reported
  <2>5. step = "update" => published[o] = <<>>
    BY <1>2, <1>b DEF AnnouncedOnceAndTrue, Terminal
  <2>6. Current'
    BY <1>2, <2>1, <2>5 DEF Find, Current
  <2>7. QED BY <2>2, <2>3, <2>4, <2>6
<1>3. ASSUME hook' = [hook EXCEPT ![w] = Idle],
             UNCHANGED <<tx, method, maker, open, notices, published>>,
             idem' \in {idem, idem \ {o}}, hook[w].at \in Settling \/ idem' = idem,
             acked' \subseteq acked \cup {<<o, hook[w].status>>},
             threw' \subseteq threw \cup {o}
      PROVE  IInv'
  <2>1. /\ hook' \in [Webhooks -> Hook \cup {Idle}]
        /\ hook'[w].at = "idle"
        /\ \A v \in Webhooks \ {w} : hook'[v] = hook[v]
    BY <1>3, <1>a, HookMoves
  <2>2. TypeOK' /\ Alone' /\ AnnouncedOnceAndTrue'
    BY <1>3, <1>b, <2>1 DEF TypeOK, Alone, AnnouncedOnceAndTrue
  <2>3. OneSettler'
    BY <1>3, <2>1 DEF OneSettler, Settling
  <2>4. Reported' /\ Current'
    BY <1>3, <2>1 DEF Reported, Current
  <2>5. QED BY <2>2, <2>3, <2>4
<1>4. CASE Find(w)
  <2>1. tx[o] \in {"none", "pending"} \cup Terminal
    BY <1>b DEF TypeOK, Statuses
  <2>2. CASE tx[o] \in Terminal /\ Return(w)
    BY <1>3, <1>4, <2>2 DEF Find, Return
  <2>3. CASE tx[o] = "none" /\ HookGoes(w, "release") /\ UNCHANGED acked
    BY <1>2, <1>4, <2>3
  <2>4. CASE tx[o] = "pending" /\ HookGoes(w, "update") /\ UNCHANGED acked
    BY <1>2, <1>4, <2>4
  <2>5. QED BY <1>4, <2>2, <2>3, <2>4 DEF Find
<1>5. CASE Release(w)
  BY <1>3, <1>5 DEF Release, Return, Settling
<1>6. CASE WebhookThrow(w)
  BY <1>3, <1>6 DEF WebhookThrow
<1>7. CASE Update(w)
  <2> USE <1>7 DEF Update
  <2>1. /\ hook' \in [Webhooks -> Hook \cup {Idle}]
        /\ hook'[w].at = "publish" /\ hook'[w].order = o /\ hook'[w].status = hook[w].status
        /\ \A v \in Webhooks \ {w} : hook'[v] = hook[v]
    BY <1>a, HookMoves DEF HookSteps
  <2>2. tx' \in [Orders -> Statuses] /\ tx'[o] = hook[w].status
    BY <1>b DEF TypeOK, Statuses
  <2>3. \A p \in Orders \ {o} : tx'[p] = tx[p]
    BY <1>b DEF TypeOK
  <2>4. o \in open /\ maker[o] \notin {"new", "call", "foreign"}
    BY <1>a, <1>b DEF Reported, Alone, Current, TypeOK
  <2>5. TypeOK'
    BY <2>1, <2>2 DEF TypeOK
  <2>6. OneSettler'
    BY <2>1 DEF OneSettler, Settling
  <2>7. Reported'
    BY <1>a, <2>1 DEF Reported
  <2>8. Alone'
    BY <1>a, <1>b, <2>2, <2>3, <2>4 DEF Alone, Reported, Terminal
  <2>9. \A v \in Webhooks \ {w} : hook[v].at \in {"update", "publish"} => hook[v].order # o
    BY DEF OneSettler, Settling
  <2>10. Current'
    BY <1>b, <1>c, <2>1, <2>2, <2>3, <2>9 DEF Current
  <2>11. AnnouncedOnceAndTrue'
    BY <2>3 DEF AnnouncedOnceAndTrue, Current
  <2>12. QED BY <2>5, <2>6, <2>7, <2>8, <2>10, <2>11
<1>8. CASE Publish(w)
  <2> USE <1>8 DEF Publish
  <2>1. /\ hook' \in [Webhooks -> Hook \cup {Idle}]
        /\ hook'[w].at = "idle"
        /\ \A v \in Webhooks \ {w} : hook'[v] = hook[v]
    BY <1>a, HookMoves DEF Return
  <2>2. published[o] = <<>> /\ tx[o] \in Terminal /\ EventKey(tx[o]) = EventKey(hook[w].status)
    BY DEF Current
  <2>3. EventKey(tx[o]) \in EventKeys
    BY <2>2 DEF EventKey, EventKeys, Terminal
  <2>4. published' = [published EXCEPT ![o] = <<EventKey(tx[o])>>]
    BY <2>2, <2>3
  <2>5. published'[o] = <<EventKey(tx[o])>> /\ \A p \in Orders \ {o} : published'[p] = published[p]
    BY <1>b, <2>4 DEF TypeOK
  <2>6. TypeOK'
    BY <1>b, <2>1, <2>3, <2>4 DEF TypeOK, Return
  <2>7. OneSettler' /\ Reported' /\ Alone'
    BY <2>1 DEF OneSettler, Settling, Reported, Alone
  <2>8. \A v \in Webhooks \ {w} : hook[v].at \in {"update", "publish"} => hook[v].order # o
    BY DEF OneSettler, Settling
  <2>9. Current'
    BY <1>c, <2>1, <2>5, <2>8 DEF Current
  <2>10. AnnouncedOnceAndTrue'
    BY <2>2, <2>5 DEF AnnouncedOnceAndTrue
  <2>11. QED BY <2>6, <2>7, <2>9, <2>10
<1>9. QED BY <1>1, <1>4, <1>5, <1>6, <1>7, <1>8 DEF WebhookStep

-------------------------------------------------------------------------------

\* A webhook that arrives reports a status its provider has sent.
LEMMA ReceiveIInv ==
  ASSUME IInv, NEW w \in Webhooks, NEW o \in Orders, NEW s \in ProviderStatus,
         Receive(w, o, s)
  PROVE  IInv'
<1> DEFINE st == StatusMap[method[o]][s]
<1> USE DEF IInv, Receive
<1>1. method[o] \in Methods /\ s \in DOMAIN StatusMap[method[o]]
  BY DEF TypeOK, Alone
<1>2. st \in Terminal /\ (st \in Succeeding => s \in Paying)
  BY <1>1, StatusMapRange
<1>3. o \in open /\ (st \in Succeeding => maker[o] \in {"done", "foreign"})
  BY <1>2 DEF Alone
<1>4. [at |-> "claim", order |-> o, status |-> st] \in Hook
  BY <1>2 DEF Hook, HookSteps
<1>5. /\ hook' \in [Webhooks -> Hook \cup {Idle}]
      /\ hook'[w].at = "claim" /\ hook'[w].order = o /\ hook'[w].status = st
      /\ \A v \in Webhooks \ {w} : hook'[v] = hook[v]
  BY <1>4 DEF TypeOK
<1>6. TypeOK' /\ Alone' /\ AnnouncedOnceAndTrue'
  BY <1>5 DEF TypeOK, Alone, AnnouncedOnceAndTrue
<1>7. OneSettler' /\ Reported' /\ Current'
  BY <1>3, <1>5 DEF OneSettler, Reported, Current, Settling
<1>8. QED BY <1>6, <1>7

\* Every step preserves the invariant.
LEMMA NextIInv == IInv /\ [Next]_vars => IInv'
<1> SUFFICES ASSUME IInv, [Next]_vars PROVE IInv'
  OBVIOUS
<1>1. CASE \E o \in Orders : CreatePayment(o) \/ KeyExpires(o)
  <2>1. "paid" \in ProviderStatus
    BY DEF ProviderStatus, CryptomusMap
  <2>2. QED BY <1>1, <2>1, OthersIInv
<1>2. CASE \E o \in Orders, s \in ProviderStatus : Notify(o, s)
  BY <1>2, OthersIInv
<1>3. CASE \E w \in Webhooks, o \in Orders, s \in ProviderStatus : Receive(w, o, s)
  BY <1>3, ReceiveIInv
<1>4. CASE \E w \in Webhooks : WebhookStep(w) \/ WebhookThrow(w)
  BY <1>4, WebhookIInv
<1>5. CASE UNCHANGED vars
  BY <1>5 DEF vars, IInv, TypeOK, OneSettler, Alone, Reported, Current, AnnouncedOnceAndTrue
<1>6. QED BY <1>1, <1>2, <1>3, <1>4, <1>5 DEF Next

\* The inductive invariant holds in every reachable state.
THEOREM Invariance == Spec => []IInv
<1>1. Init => IInv
  BY InitIInv
<1>2. IInv /\ [Next]_vars => IInv'
  BY NextIInv
<1>3. QED BY <1>1, <1>2, PTL DEF Spec

\* The variables of Payments keep their types.
THEOREM PaymentsTyped == Spec => []TypeOK
<1>1. IInv => TypeOK
  BY DEF IInv
<1>2. QED BY <1>1, Invariance, PTL

\* The idempotency key is a lock on its order: no two webhooks of an order are
\* past the check at once.
THEOREM OneSettlerAtATime == Spec => []OneSettler
<1>1. IInv => OneSettler
  BY DEF IInv
<1>2. QED BY <1>1, Invariance, PTL

\* At most one event per order leaves payment-service, and it agrees with the
\* order's row, under any number of concurrent, repeated and failing webhooks.
THEOREM AtMostOneTrueEvent == Spec => []AnnouncedOnceAndTrue
<1>1. IInv => AnnouncedOnceAndTrue
  BY DEF IInv
<1>2. QED BY <1>1, Invariance, PTL

-------------------------------------------------------------------------------
(* Payments implements PaymentLedger.                                        *)

\* The two modules name the same events.
LEMMA SameKeys == \A v \in Terminal : Ledger!AnnouncedAs(v) = EventKey(v)
BY DEF Terminal, Ledger!AnnouncedAs, Ledger!Failure, EventKey

\* A row is written by the insert, by the failure record and by Update.
LEMMA LedgerStep == IInv /\ [Next]_vars => [Ledger!Next]_(Ledger!ledger)
<1> SUFFICES ASSUME IInv, [Next]_vars, ~UNCHANGED <<tx, published>>
             PROVE  Ledger!Next
  BY DEF Ledger!ledger
<1> USE DEF IInv
<1>a. tx \in [Orders -> Statuses] /\ published \in [Orders -> Seq(EventKeys)]
  BY DEF TypeOK
<1>1. ASSUME NEW o \in Orders, Insert(o) PROVE Ledger!Next
  <2>1. Ledger!Open(o)
    BY <1>1 DEF Insert, Alone, Ledger!Open
  <2>2. QED BY <2>1 DEF Ledger!Next
<1>2. ASSUME NEW o \in Orders, RecordFailure(o) PROVE Ledger!Next
  <2>1. tx[o] \in {"pending", "failed", "expired"}
    BY <1>2, <1>a DEF RecordFailure, Alone, Statuses, Terminal, Succeeding
  <2>2. Ledger!Settle(o, "failed")
    BY <1>2, <2>1 DEF RecordFailure, Ledger!Settle, Ledger!Failure
  <2>3. QED BY <2>2 DEF Ledger!Next, Ledger!Verdicts, Ledger!Failure
<1>3. ASSUME NEW w \in Webhooks, Update(w) PROVE Ledger!Next
  <2>1. hook[w].order \in Orders /\ hook[w].status \in Terminal
    BY <1>3, HookFields DEF Update
  <2>2. Ledger!Settle(hook[w].order, hook[w].status)
    BY <1>3, <2>1 DEF Update, Current, Ledger!Settle, Ledger!Failure, Terminal, Succeeding
  <2>3. hook[w].status \in Ledger!Verdicts
    BY <2>1 DEF Terminal, Ledger!Verdicts, Ledger!Success, Ledger!Failure
  <2>4. QED BY <2>1, <2>2, <2>3 DEF Ledger!Next
<1>4. ASSUME NEW w \in Webhooks, Publish(w) PROVE Ledger!Next
  <2> DEFINE o == hook[w].order
  <2>1. o \in Orders /\ hook[w].status \in Terminal
    BY <1>4, HookFields DEF Publish
  <2>2. published[o] = <<>> /\ tx[o] \in Terminal /\ EventKey(tx[o]) = EventKey(hook[w].status)
    BY <1>4 DEF Publish, Current
  <2>6. EventKey(tx[o]) \in EventKeys
    BY <2>2 DEF EventKey, EventKeys, Terminal
  <2>7. published' = [published EXCEPT ![o] = <<EventKey(tx[o])>>]
    BY <1>4, <2>2, <2>6 DEF Publish
  <2>3. published' = [published EXCEPT ![o] = <<Ledger!AnnouncedAs(tx[o])>>]
    BY <2>2, <2>7, SameKeys
  <2>4. tx[o] \in Ledger!Verdicts
    BY <2>2 DEF Terminal, Ledger!Verdicts, Ledger!Success, Ledger!Failure
  <2>5. Ledger!Announce(o)
    BY <1>4, <2>2, <2>3, <2>4 DEF Publish, Ledger!Announce
  <2>8. QED BY <2>1, <2>5 DEF Ledger!Next
<1>5. ASSUME NEW o \in Orders,
             ProviderAnswers(o) \/ ProviderFails(o) \/ Link(o) \/ Throw(o) \/ KeyExpires(o)
      PROVE  FALSE
  BY <1>5 DEF ProviderAnswers, ProviderFails, Link, Throw, KeyExpires
<1>6. ASSUME NEW o \in Orders, NEW s \in ProviderStatus, Notify(o, s) PROVE FALSE
  BY <1>6 DEF Notify
<1>7. ASSUME NEW w \in Webhooks, NEW o \in Orders, NEW s \in ProviderStatus,
             Receive(w, o, s)
      PROVE  FALSE
  BY <1>7 DEF Receive
<1>8. ASSUME NEW w \in Webhooks, Claim(w) \/ Find(w) \/ Release(w) \/ WebhookThrow(w)
      PROVE  FALSE
  BY <1>8 DEF Claim, Find, Release, WebhookThrow, Return
<1>9. CASE UNCHANGED vars
  BY <1>9 DEF vars
<1>10. QED
  BY <1>1, <1>2, <1>3, <1>4, <1>5, <1>6, <1>7, <1>8, <1>9
  DEF Next, CreatePayment, WebhookStep

\* payment-service implements the order ledger: opened once, settled by one
\* verdict, announced at most once and only as recorded.
THEOREM PaymentsImplementLedger == Spec => LedgerSpec
<1>1. Init => Ledger!Init
  BY DEF Init, Ledger!Init
<1>2. IInv /\ [Next]_vars => [Ledger!Next]_(Ledger!ledger)
  BY LedgerStep
<1>3. QED BY <1>1, <1>2, Invariance, PTL DEF Spec, LedgerSpec, Ledger!Spec

-------------------------------------------------------------------------------
(* Checkout: the inductive invariant.                                        *)

\* Checkouts that counted a code typed as it is stored, and have no order yet.
AboutToPay(c) == {k \in Carts : /\ cart[k].at = "pay" /\ cart[k].code = c
                            /\ cart[k].mode = "plain"}

Uses ==
  \A c \in Codes :
    /\ promo[c] = NoPromo => redeemed[c] = 0 /\ AboutToPay(c) = {}
    /\ promo[c] # NoPromo => redeemed[c] + Cardinality(AboutToPay(c)) <= promo[c].used

\* What a plan costs after the days left of the old one are taken off.
Net(c) == Less(Price[c.plan][c.months], Credit(c.term, c.months))

\* The price a code leaves of another.
Reduced(c, price) == Less(price, Discount(promo[c].offer, price))

\* The amount that a checkout has come to.
Priced(c) ==
  /\ c.at = "find" => c.amount = Price[c.plan][c.months]
  /\ c.at \in {"resolve", "count", "pay"} => c.term.tier < c.plan
  /\ c.at \in {"resolve", "count"} => c.code \in Codes
  /\ \/ c.at = "resolve"
     \/ c.at = "pay" /\ c.code = NoCode
     => c.amount = Net(c)
  /\ c.at \in {"count", "pay"} /\ c.code \in Codes =>
       promo[c.code] # NoPromo /\ c.amount = Reduced(c.code, Net(c))

Ordered(o) ==
  /\ Payable(o)
  /\ o.cut = "promo" => /\ o.code \in Codes /\ promo[o.code] # NoPromo
                        /\ o.amount = Reduced(o.code, Price[o.plan][o.months])

Quoted(q) == promo[q.code] # NoPromo /\ q.price = Shown(q.code, q.plan, q.months)

Costs ==
  /\ \A k \in Carts : Priced(cart[k])
  /\ \A o \in orders : Ordered(o)
  /\ \A q \in quotes : Quoted(q)

\* A code that is about to be deactivated exists.
Withdrawn == \A f \in Forms : form[f].at = "off" => promo[form[f].code] # NoPromo

CheckoutInv == CheckoutTypeOK /\ Withdrawn /\ LimitHolds /\ Uses /\ Costs

-------------------------------------------------------------------------------
(* Checkout: arithmetic.                                                     *)

\* Rounding.
LEMMA RoundedIsNat ==
  ASSUME NEW a \in Nat, NEW b \in Nat \ {0}
  PROVE  Rounded(a, b) \in Nat
<1> DEFINE n == 2 * a + b
           m == 2 * b
<1>1. n \in Nat /\ m \in Nat /\ m > 0
  OBVIOUS
<1> HIDE DEF n, m
<1>2. n \div m \in Nat
  BY <1>1
<1> QED BY <1>2 DEF Rounded, n, m

\* A product grows with its factors.
LEMMA Times ==
  ASSUME NEW a \in Nat, NEW b \in Nat, a <= b, NEW p \in Nat
  PROVE  a * p \in Nat /\ b * p \in Nat /\ a * p <= b * p
  OBVIOUS

\* A share of p, rounded, is no more than p.
LEMMA RoundedShare ==
  ASSUME NEW a \in Nat, NEW b \in Nat \ {0}, a <= b, NEW p \in Nat
  PROVE  Rounded(a * p, b) <= p
<1> DEFINE ap == a * p
           bp == b * p
           q == Rounded(ap, b)
<1>1. ap \in Nat /\ bp \in Nat /\ ap <= bp
  BY Times
<1>2. q \in Nat
  BY <1>1, RoundedIsNat
<1>3. (2 * b) * q <= 2 * ap + b
  <2> DEFINE n == 2 * ap + b
             m == 2 * b
  <2>1. n \in Nat /\ m \in Nat /\ m > 0
    BY <1>1
  <2>2. q = n \div m
    BY DEF Rounded
  <2> HIDE DEF n, m, q
  <2>3. m * (n \div m) <= n
    BY <2>1
  <2> QED BY <2>2, <2>3 DEF n, m
<1>4. ASSUME q >= p + 1 PROVE FALSE
  <2> HIDE DEF q
  <2>1. (2 * b) * (p + 1) <= (2 * b) * q
    BY <1>2, <1>4
  <2>2. (2 * b) * (p + 1) = 2 * bp + 2 * b
    OBVIOUS
  <2> HIDE DEF ap, bp
  <2>3. (2 * b) * q \in Nat
    BY <1>2
  <2> QED BY <1>1, <1>3, <2>1, <2>2, <2>3
<1> HIDE DEF q
<1>5. q <= p
  BY <1>2, <1>4
<1> QED BY <1>5 DEF q

LEMMA LessIsNat ==
  ASSUME NEW a \in Nat, NEW b \in Nat
  PROVE  /\ Less(a, b) \in Nat
         /\ Less(a, b) <= a
         /\ a - b <= Less(a, b)
         /\ Less(a, 0) = a
  BY DEF Less

\* The days left are worth no more than the old plan costs.
LEMMA CreditBounds ==
  ASSUME NEW t \in Terms \cup {NoTerm}, NEW months \in Months
  PROVE  /\ Credit(t, months) \in Nat
         /\ t.tier = 0 => Credit(t, months) = 0
         /\ t.tier # 0 => /\ t.tier \in Plans
                         /\ Credit(t, months) <= Price[t.tier][months]
<1>1. t.tier \in 0..3 /\ t.left \in Nat /\ t.total \in Nat \ {0} /\ t.left <= t.total
  BY CheckoutAssumption DEF TermType, NoTerm
<1>2. CASE t.tier = 0
  BY <1>2 DEF Credit
<1>3. CASE t.tier # 0
  <2>1. t.tier \in Plans
    BY <1>1, <1>3 DEF Plans
  <2>2. Price[t.tier][months] \in Nat
    BY <2>1, CheckoutAssumption
  <2>3. t.left * Price[t.tier][months] \in Nat
    BY <1>1, <2>2, Times
  <2>4. Rounded(t.left * Price[t.tier][months], t.total) \in Nat
    BY <1>1, <2>3, RoundedIsNat
  <2>5. Rounded(t.left * Price[t.tier][months], t.total) <= Price[t.tier][months]
    BY <1>1, <2>2, RoundedShare
  <2> QED BY <1>3, <2>1, <2>4, <2>5 DEF Credit
<1> QED BY <1>2, <1>3

LEMMA DiscountIsNat ==
  ASSUME NEW offer \in Offers, NEW price \in Nat
  PROVE  Discount(offer, price) \in Nat
<1>1. offer.value \in Nat
  BY CheckoutAssumption DEF OfferType
<1>2. price * offer.value \in Nat
  BY <1>1
<1>3. Rounded(price * offer.value, 100) \in Nat
  BY <1>2, RoundedIsNat
<1> QED BY <1>1, <1>3 DEF Discount

\* What a checkout's amount can be.
LEMMA NetBounds ==
  ASSUME NEW c \in Cart
  PROVE  /\ Price[c.plan][c.months] \in Nat \ {0}
         /\ Net(c) \in Nat
         /\ Net(c) <= Price[c.plan][c.months]
         /\ c.term.tier = 0 => Net(c) = Price[c.plan][c.months]
         /\ c.term.tier # 0 => Net(c) >= Price[c.plan][c.months] - Price[c.term.tier][c.months]
<1>1. c.plan \in Plans /\ c.months \in Months /\ c.term \in Terms \cup {NoTerm}
  BY DEF Cart
<1>2. Price[c.plan][c.months] \in Nat \ {0}
  BY <1>1, CheckoutAssumption
<1>3. /\ Credit(c.term, c.months) \in Nat
      /\ c.term.tier = 0 => Credit(c.term, c.months) = 0
      /\ c.term.tier # 0 => /\ c.term.tier \in Plans
                            /\ Credit(c.term, c.months) <= Price[c.term.tier][c.months]
  BY <1>1, CreditBounds
<1>4. c.term.tier # 0 => Price[c.term.tier][c.months] \in Nat
  BY <1>1, <1>3, CheckoutAssumption
<1> DEFINE p == Price[c.plan][c.months]
           r == Credit(c.term, c.months)
<1>5. Net(c) = Less(p, r)
  BY DEF Net
<1>6. p \in Nat /\ r \in Nat
  BY <1>2, <1>3
<1> HIDE DEF p, r
<1>7. /\ Less(p, r) \in Nat
      /\ Less(p, r) <= p
      /\ p - r <= Less(p, r)
      /\ Less(p, 0) = p
  BY <1>6, LessIsNat
<1> QED BY <1>2, <1>3, <1>4, <1>5, <1>6, <1>7 DEF p, r

-------------------------------------------------------------------------------
(* What the steps do to carts and codes.                                     *)

\* A checkout that goes on to the await a.
GoneOn(d, c, a, t, n) ==
  /\ d \in Cart
  /\ d.at = a /\ d.plan = c.plan /\ d.months = c.months /\ d.code = c.code
  /\ d.mode = c.mode /\ d.term = t /\ d.amount = n

LEMMA CartMoves ==
  ASSUME NEW c \in Cart, NEW a \in {"find", "resolve", "count", "pay"},
         NEW t \in Terms \cup {NoTerm}, NEW n \in Nat
  PROVE  /\ GoneOn([c EXCEPT !.at = a, !.term = t, !.amount = n], c, a, t, n)
         /\ GoneOn([c EXCEPT !.at = a, !.amount = n], c, a, c.term, n)
         /\ GoneOn([c EXCEPT !.at = a], c, a, c.term, c.amount)
         /\ c.term \in Terms \cup {NoTerm} /\ c.amount \in Nat
<1>1. GoneOn([c EXCEPT !.at = a, !.term = t, !.amount = n], c, a, t, n)
  BY DEF Cart, GoneOn
<1>2. GoneOn([c EXCEPT !.at = a, !.amount = n], c, a, c.term, n)
  BY DEF Cart, GoneOn
<1>3. GoneOn([c EXCEPT !.at = a], c, a, c.term, c.amount)
  BY DEF Cart, GoneOn
<1>4. c.term \in Terms \cup {NoTerm} /\ c.amount \in Nat
  BY DEF Cart
<1> QED BY <1>1, <1>2, <1>3, <1>4

\* How a code's row p changes.
Later(n, p) == n \in Promo /\ n.offer = p.offer /\ n.used >= p.used

LEMMA PromoMoves ==
  ASSUME NEW p \in Promo
  PROVE  /\ Later([p EXCEPT !.used = p.used + 1], p)
         /\ [p EXCEPT !.used = p.used + 1].used = p.used + 1
         /\ Later([p EXCEPT !.state = "inactive"], p)
         /\ [p EXCEPT !.state = "inactive"].used = p.used
         /\ Later([p EXCEPT !.ends = "over"], p)
         /\ [p EXCEPT !.ends = "over"].used = p.used
<1>1. p.used \in Nat
  BY DEF Promo
<1>2. Later([p EXCEPT !.used = p.used + 1], p) /\ [p EXCEPT !.used = p.used + 1].used = p.used + 1
  BY <1>1 DEF Promo, Later
<1>3. Later([p EXCEPT !.state = "inactive"], p) /\ [p EXCEPT !.state = "inactive"].used = p.used
  BY <1>1 DEF Promo, Later
<1>4. Later([p EXCEPT !.ends = "over"], p) /\ [p EXCEPT !.ends = "over"].used = p.used
  BY <1>1 DEF Promo, Later
<1> QED BY <1>2, <1>3, <1>4

LEMMA PromoFields ==
  ASSUME CheckoutTypeOK, NEW c \in Codes, promo[c] # NoPromo
  PROVE  /\ promo[c] \in Promo
         /\ promo[c].offer \in Offers
         /\ promo[c].offer.max \in Nat
         /\ promo[c].used \in Nat
<1>1. promo[c] \in Promo
  BY DEF CheckoutTypeOK
<1>2. promo[c].offer \in Offers /\ promo[c].used \in Nat
  BY <1>1 DEF Promo
<1>3. promo[c].offer.max \in Nat
  BY <1>2, CheckoutAssumption DEF OfferType
<1> QED BY <1>1, <1>2, <1>3

\* A cart whose checkout is at an await.
LEMMA CartInUse ==
  ASSUME CheckoutTypeOK, NEW k \in Carts, NEW a, cart[k].at = a, a # "empty"
  PROVE  cart[k] \in Cart
  BY DEF CheckoutTypeOK, Empty

\* Where FindTerm and Resolve take a checkout.
LEMMA CartGoesFrom ==
  ASSUME CheckoutTypeOK, NEW k \in Carts, NEW d, d = cart'[k]
  PROVE  /\ \A term \in Terms \cup {NoTerm} : FindTerm(k, term) =>
              \/ d.at = "empty"
              \/ d.at = "pay" /\ d.code = NoCode
              \/ d.at = "resolve"
         /\ Resolve(k) => d.at \in {"empty", "count"}
<1> PICK c : c = cart[k]
  OBVIOUS
<1>0. cart \in [Carts -> Cart \cup {Empty}] /\ Empty.at = "empty"
  BY DEF CheckoutTypeOK, Empty
<1>1. ASSUME NEW term \in Terms \cup {NoTerm}, FindTerm(k, term)
      PROVE  \/ d.at = "empty"
             \/ d.at = "pay" /\ d.code = NoCode
             \/ d.at = "resolve"
  <2>1. c \in Cart
    BY <1>1, CartInUse DEF FindTerm
  <2>2. PICK a, n : /\ a = IF c.code = NoCode THEN "pay" ELSE "resolve"
                    /\ n = Less(c.amount, Credit(term, c.months))
    OBVIOUS
  <2>3. d = Empty \/ d = [c EXCEPT !.at = a, !.term = term, !.amount = n]
    BY <1>0, <1>1, <2>2 DEF FindTerm, CartGoes
  <2>4. [c EXCEPT !.at = a, !.term = term, !.amount = n].at = a
    BY <2>1 DEF Cart
  <2>5. [c EXCEPT !.at = a, !.term = term, !.amount = n].code = c.code
    BY <2>1 DEF Cart
  <2> QED BY <1>0, <2>2, <2>3, <2>4, <2>5
<1>2. ASSUME Resolve(k) PROVE d.at \in {"empty", "count"}
  <2>1. c \in Cart
    BY <1>2, CartInUse DEF Resolve
  <2>2. PICK n : n = Less(c.amount, Discount(promo[c.code].offer, c.amount))
    OBVIOUS
  <2>3. d = Empty \/ d = [c EXCEPT !.at = "count", !.amount = n]
    BY <1>0, <1>2, <2>2 DEF Resolve, CartGoes
  <2>4. [c EXCEPT !.at = "count", !.amount = n].at = "count"
    BY <2>1 DEF Cart
  <2> QED BY <1>0, <2>3, <2>4
<1> QED BY <1>1, <1>2

\* The checkouts past the check of a code, when one moves on.
LEMMA CountingMoves ==
  ASSUME CheckoutTypeOK, NEW k \in Carts, NEW x, CartGoes(k, x), NEW c \in Codes
  PROVE  /\ Counting(c)' = (Counting(c) \ {k}) \cup (IF x.at = "count" /\ x.code = c THEN {k} ELSE {})
         /\ AboutToPay(c)' = (AboutToPay(c) \ {k}) \cup
                         (IF x.at = "pay" /\ x.code = c /\ x.mode = "plain" THEN {k} ELSE {})
<1>1. \A j \in Carts : cart'[j] = IF j = k THEN x ELSE cart[j]
  BY DEF CartGoes, CheckoutTypeOK
<1> QED BY <1>1 DEF Counting, AboutToPay

LEMMA CountingFinite ==
  ASSUME NEW c
  PROVE  /\ IsFiniteSet(Counting(c)) /\ Cardinality(Counting(c)) \in Nat
         /\ Cardinality(Counting(c)) <= Cardinality(Carts)
         /\ IsFiniteSet(AboutToPay(c)) /\ Cardinality(AboutToPay(c)) \in Nat
         /\ Cardinality(Carts) \in Nat \ {0}
<1>1. Counting(c) \in SUBSET Carts /\ AboutToPay(c) \in SUBSET Carts /\ IsFiniteSet(Carts)
  BY CheckoutAssumption DEF Counting, AboutToPay
<1>2. /\ IsFiniteSet(Counting(c)) /\ Cardinality(Counting(c)) <= Cardinality(Carts)
      /\ IsFiniteSet(AboutToPay(c))
  BY <1>1, FS_Subset
<1>3. Cardinality(Counting(c)) \in Nat /\ Cardinality(AboutToPay(c)) \in Nat /\ Cardinality(Carts) \in Nat
  BY <1>1, <1>2, FS_CardinalityType
<1>4. Cardinality(Carts) # 0
  BY <1>1, FS_EmptySet, CheckoutAssumption
<1> QED BY <1>2, <1>3, <1>4

-------------------------------------------------------------------------------
(* Codes.                                                                    *)

\* A code keeps its terms, and its uses are never taken back.
LEMMA PromoStep ==
  ASSUME CheckoutInv, [CheckoutNext]_checkoutVars
  PROVE  /\ promo' \in [Codes -> Promo \cup {NoPromo}]
         /\ \A c \in Codes : promo[c] # NoPromo =>
              /\ promo'[c] \in Promo /\ promo'[c] # NoPromo
              /\ promo'[c].offer = promo[c].offer
              /\ promo'[c].used >= promo[c].used
<1> DEFINE Kept ==
             /\ promo' \in [Codes -> Promo \cup {NoPromo}]
             /\ \A c \in Codes : promo[c] # NoPromo =>
                  /\ promo'[c] \in Promo /\ promo'[c] # NoPromo
                  /\ promo'[c].offer = promo[c].offer
                  /\ promo'[c].used >= promo[c].used
<1>0. CheckoutTypeOK /\ promo \in [Codes -> Promo \cup {NoPromo}]
  BY DEF CheckoutInv, CheckoutTypeOK
<1>n. NoPromo \notin Promo
  BY DEF NoPromo, Promo
<1>a. ASSUME UNCHANGED promo PROVE Kept
  <2>1. \A c \in Codes : promo[c] # NoPromo => promo[c].used \in Nat /\ promo[c] \in Promo
    BY <1>0, PromoFields
  <2> QED BY <1>a, <1>0, <2>1
<1>b. ASSUME NEW c \in Codes, NEW p \in Promo, promo' = [promo EXCEPT ![c] = p],
             promo[c] # NoPromo => Later(p, promo[c])
      PROVE  Kept
  <2>1. promo' \in [Codes -> Promo \cup {NoPromo}]
    BY <1>0, <1>b
  <2>2. \A b \in Codes : promo[b] # NoPromo => promo[b].used \in Nat /\ promo[b] \in Promo
    BY <1>0, PromoFields
  <2>3. ASSUME NEW b \in Codes, promo[b] # NoPromo
        PROVE  /\ promo'[b] \in Promo /\ promo'[b].offer = promo[b].offer
               /\ promo'[b].used >= promo[b].used
    <3>1. CASE b = c
      BY <1>0, <1>b, <2>3, <3>1 DEF Later
    <3>2. CASE b # c
      BY <1>0, <1>b, <2>2, <2>3, <3>2
    <3> QED BY <3>1, <3>2
  <2> QED BY <1>n, <2>1, <2>3
<1>1. ASSUME NEW k \in Carts, CountUse(k) PROVE Kept
  <2>1. Priced(cart[k]) /\ cart[k].at = "count"
    BY <1>1 DEF CheckoutInv, Costs, CountUse
  <2>2. cart[k].code \in Codes
    BY <2>1 DEF Priced
  <2>3. promo[cart[k].code] # NoPromo
    BY <2>1, <2>2 DEF Priced
  <2>4. CASE cart[k].mode = "plain"
    <3> DEFINE p == promo[cart[k].code]
    <3>1. p \in Promo /\ p.used \in Nat
      BY <1>0, <2>2, <2>3, PromoFields
    <3>2. promo' = [promo EXCEPT ![cart[k].code] = [p EXCEPT !.used = p.used + 1]]
      BY <1>1, <2>4 DEF CountUse
    <3>3. Later([p EXCEPT !.used = p.used + 1], p)
      <4> HIDE DEF p
      <4> QED BY <3>1, PromoMoves
    <3> HIDE DEF Kept
    <3> QED BY <1>b, <2>2, <3>2, <3>3 DEF Later
  <2>5. CASE cart[k].mode # "plain"
    BY <1>1, <1>a, <2>5 DEF CountUse
  <2> QED BY <2>4, <2>5
<1>2. ASSUME NEW f \in Forms, InsertPromo(f) PROVE Kept
  <2>1. form[f] \in Form /\ form[f].at = "insert"
    BY <1>0, <1>2 DEF InsertPromo, CheckoutTypeOK, Blank
  <2>2. form[f].code \in Codes /\ form[f].offer \in Offers
    BY <2>1 DEF Form
  <2>3. CASE promo[form[f].code] = NoPromo
    <3>1. NewPromo(form[f].offer) \in Promo
      BY <2>2 DEF NewPromo, Promo
    <3>2. promo' = [promo EXCEPT ![form[f].code] = NewPromo(form[f].offer)]
      BY <1>2, <2>3 DEF InsertPromo
    <3> HIDE DEF Kept
    <3> QED BY <1>b, <2>2, <2>3, <3>1, <3>2
  <2>4. CASE promo[form[f].code] # NoPromo
    BY <1>2, <1>a, <2>4 DEF InsertPromo
  <2> QED BY <2>3, <2>4
<1>3. ASSUME NEW f \in Forms, DeactivatePromo(f) PROVE Kept
  <2>1. form[f] \in Form /\ form[f].at = "off"
    BY <1>0, <1>3 DEF DeactivatePromo, CheckoutTypeOK, Blank
  <2>2. form[f].code \in Codes
    BY <2>1 DEF Form
  <2>3. CASE promo[form[f].code] # NoPromo
    <3> DEFINE p == promo[form[f].code]
    <3>1. p \in Promo /\ p.used \in Nat
      BY <1>0, <2>2, <2>3, PromoFields
    <3>2. promo' = [promo EXCEPT ![form[f].code] = [p EXCEPT !.state = "inactive"]]
      BY <1>3 DEF DeactivatePromo
    <3>3. Later([p EXCEPT !.state = "inactive"], p)
      <4> HIDE DEF p
      <4> QED BY <3>1, PromoMoves
    <3> HIDE DEF Kept
    <3> QED BY <1>b, <2>2, <3>2, <3>3 DEF Later
  <2>4. CASE promo[form[f].code] = NoPromo
    BY <1>3, <2>4 DEF CheckoutInv, Withdrawn, DeactivatePromo
  <2> QED BY <2>3, <2>4
<1>4. ASSUME NEW c \in Codes, PromoEnds(c) PROVE Kept
  <2>1. promo[c] # NoPromo
    BY <1>4 DEF PromoEnds
  <2> DEFINE p == promo[c]
  <2>2. p \in Promo /\ p.used \in Nat
    BY <1>0, <2>1, PromoFields
  <2>3. promo' = [promo EXCEPT ![c] = [p EXCEPT !.ends = "over"]]
    BY <1>4 DEF PromoEnds
  <2>4. Later([p EXCEPT !.ends = "over"], p)
    <3> HIDE DEF p
    <3> QED BY <2>2, PromoMoves
  <2> HIDE DEF Kept
  <2> QED BY <1>b, <2>3, <2>4 DEF Later
<1>5. \/ UNCHANGED promo
      \/ \E k \in Carts : CountUse(k)
      \/ \E f \in Forms : InsertPromo(f) \/ DeactivatePromo(f)
      \/ \E c \in Codes : PromoEnds(c)
  BY DEF CheckoutNext, checkoutVars, Checks, Administers, OpenCart, FindTerm, Resolve, Pay,
     Abandon, Validate, SubmitPromo, SubmitDeactivation, LookUp, FormFails
<1> HIDE DEF Kept
<1>6. Kept
  BY <1>a, <1>1, <1>2, <1>3, <1>4, <1>5
<1> QED BY <1>6 DEF Kept

-------------------------------------------------------------------------------
(* Checkouts.                                                                *)

\* A step of a checkout changes its cart, which keeps its type and a price
\* that its order may have.
LEMMA CartStep ==
  ASSUME CheckoutInv, NEW k \in Carts, Checks(k), NEW d, d = cart'[k]
  PROVE  /\ CartGoes(k, d)
         /\ d \in Cart \cup {Empty}
         /\ Priced(d)'
<1> DEFINE it == cart[k]
<1>0. CheckoutTypeOK /\ Priced(cart[k]) /\ cart \in [Carts -> Cart \cup {Empty}]
  BY DEF CheckoutInv, Costs, CheckoutTypeOK
<1>a. ASSUME NEW c, CartGoes(k, c) PROVE d = c
  BY <1>0, <1>a DEF CartGoes
<1>e. Priced(Empty)'
  BY DEF Priced, Empty
<1>f. Priced(Empty)
  BY DEF Priced, Empty
<1>1. ASSUME NEW plan \in Plans, NEW months \in Months, NEW mode \in Modes,
             NEW code \in Codes \cup {NoCode}, OpenCart(k, plan, months, code, mode)
      PROVE  CartGoes(k, d) /\ d \in Cart /\ Priced(d)'
  <2>1. CartGoes(k, d) /\ d = [at |-> "find", plan |-> plan, months |-> months, code |-> code,
             mode |-> mode, term |-> NoTerm, amount |-> Price[plan][months]]
    BY <1>1, <1>a DEF OpenCart
  <2>2. Price[plan][months] \in Nat
    BY CheckoutAssumption
  <2> QED BY <2>1, <2>2 DEF Cart, Priced
<1>2. ASSUME NEW term \in Terms \cup {NoTerm}, FindTerm(k, term)
      PROVE  CartGoes(k, d) /\ d \in Cart \cup {Empty} /\ Priced(d)'
  <2>1. it \in Cart /\ it.at = "find"
    BY <1>0, <1>2, CartInUse DEF FindTerm
  <2>2. CASE term.tier > 0 /\ it.plan <= term.tier
    BY <1>2, <1>a, <1>e, <2>2 DEF FindTerm
  <2>3. CASE ~(term.tier > 0 /\ it.plan <= term.tier)
    <3> DEFINE a == IF it.code = NoCode THEN "pay" ELSE "resolve"
               n == Less(it.amount, Credit(term, it.months))
    <3>1. it.plan \in Plans /\ it.months \in Months /\ it.code \in Codes \cup {NoCode}
          /\ it.amount = Price[it.plan][it.months]
      BY <1>0, <2>1 DEF Cart, Priced
    <3>2. n \in Nat
      <4>1. it.amount \in Nat /\ Credit(term, it.months) \in Nat
        BY <3>1, CheckoutAssumption, CreditBounds
      <4> QED BY <4>1, LessIsNat
    <3>3. CartGoes(k, d) /\ d = [it EXCEPT !.at = a, !.term = term, !.amount = n]
      BY <1>2, <1>a, <2>3 DEF FindTerm
    <3>4. a \in {"pay", "resolve"}
      OBVIOUS
    <3>5. GoneOn(d, it, a, term, n)
      <4> HIDE DEF a, n, it
      <4>1. a \in {"find", "resolve", "count", "pay"}
        BY <3>4
      <4>2. GoneOn([it EXCEPT !.at = a, !.term = term, !.amount = n], it, a, term, n)
        BY <2>1, <3>2, <4>1, CartMoves
      <4> QED BY <3>3, <4>2
    <3>6. term.tier < it.plan
      <4>1. term.tier \in 0..3 /\ it.plan \in 1..3
        BY <3>1, CheckoutAssumption DEF Plans, TermType, NoTerm
      <4> QED BY <2>3, <4>1
    <3>7. d.amount = Net(d)
      BY <3>1, <3>5 DEF GoneOn, Net
    <3>8. Priced(d)'
      BY <3>1, <3>5, <3>6, <3>7, CheckoutAssumption DEF Priced, GoneOn, Net
    <3> QED BY <3>3, <3>5, <3>8 DEF GoneOn
  <2> QED BY <2>2, <2>3
<1>3. CASE Resolve(k)
  <2>1. it \in Cart /\ it.at = "resolve"
    BY <1>0, <1>3, CartInUse DEF Resolve
  <2>2. CASE ~Valid(it.code, it.plan, it.months)
    BY <1>3, <1>a, <1>e, <2>2 DEF Resolve
  <2>3. CASE Valid(it.code, it.plan, it.months)
    <3> DEFINE n == Reduced(it.code, it.amount)
    <3>1. it.code \in Codes /\ it.amount = Net(it) /\ it.term.tier < it.plan /\ it.amount \in Nat
      BY <1>0, <2>1 DEF Priced, Cart
    <3>2. promo[it.code] # NoPromo
      BY <2>3 DEF Valid, NoPromo
    <3>3. n \in Nat
      <4>1. promo[it.code].offer \in Offers
        BY <1>0, <3>1, <3>2, PromoFields
      <4>2. Discount(promo[it.code].offer, it.amount) \in Nat
        BY <3>1, <4>1, DiscountIsNat
      <4> QED BY <3>1, <4>2, LessIsNat DEF Reduced
    <3>4. CartGoes(k, d) /\ d = [it EXCEPT !.at = "count", !.amount = n]
      BY <1>3, <1>a, <2>3 DEF Resolve, Reduced
    <3>5. GoneOn(d, it, "count", it.term, n)
      <4> HIDE DEF n, it
      <4>1. it.term \in Terms \cup {NoTerm}
        BY <2>1 DEF Cart
      <4> QED BY <2>1, <3>3, <3>4, <4>1, CartMoves
    <3>6. Net(d) = Net(it) /\ UNCHANGED promo
      BY <1>3, <3>5 DEF GoneOn, Net, Resolve
    <3>7. Priced(d)'
      BY <3>1, <3>2, <3>5, <3>6 DEF Priced, GoneOn, Net, Reduced
    <3> QED BY <3>4, <3>5, <3>7 DEF GoneOn
  <2> QED BY <2>2, <2>3
<1>4. CASE CountUse(k)
  <2>1. it \in Cart /\ it.at = "count"
    BY <1>0, <1>4, CartInUse DEF CountUse
  <2>2. CartGoes(k, d) /\ d = [it EXCEPT !.at = "pay"]
    BY <1>4, <1>a DEF CountUse
  <2>3. GoneOn(d, it, "pay", it.term, it.amount)
    <3> HIDE DEF it
    <3>1. it.term \in Terms \cup {NoTerm} /\ it.amount \in Nat
      BY <2>1 DEF Cart
    <3> QED BY <2>1, <2>2, <3>1, CartMoves
  <2>4. it.code \in Codes /\ it.term.tier < it.plan
    BY <1>0, <2>1 DEF Priced
  <2>5. promo[it.code] # NoPromo /\ it.amount = Reduced(it.code, Net(it))
    BY <1>0, <2>1, <2>4 DEF Priced
  <2>6. promo'[it.code] # NoPromo /\ promo'[it.code].offer = promo[it.code].offer
    <3>1. [CheckoutNext]_checkoutVars
      BY <1>4 DEF CheckoutNext, Checks
    <3> QED BY <2>4, <2>5, <3>1, PromoStep
  <2>7. d.code # NoCode
    BY <2>3, <2>4, CheckoutAssumption DEF GoneOn
  <2>8. Priced(d)'
    BY <2>3, <2>4, <2>5, <2>6, <2>7 DEF Priced, GoneOn, Net, Reduced
  <2> QED BY <2>2, <2>3, <2>8 DEF GoneOn
<1>5. CASE Pay(k) \/ Abandon(k)
  BY <1>5, <1>a, <1>e DEF Pay, Abandon
<1> QED
  BY <1>1, <1>2, <1>3, <1>4, <1>5 DEF Checks

\* What waits for its order keeps its price while others go on.
LEMMA PricedStays ==
  ASSUME CheckoutInv, [CheckoutNext]_checkoutVars, NEW c, Priced(c)
  PROVE  Priced(c)'
<1>1. c.code \in Codes /\ promo[c.code] # NoPromo =>
        promo'[c.code] # NoPromo /\ promo'[c.code].offer = promo[c.code].offer
  BY PromoStep
<1> QED BY <1>1 DEF Priced, Net, Reduced

\* Steps that are not a checkout's.
LEMMA OtherSteps ==
  ASSUME [CheckoutNext]_checkoutVars
  PROVE  \/ \E k \in Carts : Checks(k)
         \/ UNCHANGED <<cart, orders, redeemed>>
  BY DEF CheckoutNext, checkoutVars, Administers, SubmitPromo, SubmitDeactivation, LookUp,
     InsertPromo, DeactivatePromo, FormFails, Validate, PromoEnds

LEMMA CartsStep ==
  ASSUME CheckoutInv, [CheckoutNext]_checkoutVars
  PROVE  /\ cart' \in [Carts -> Cart \cup {Empty}]
         /\ \A k \in Carts : Priced(cart[k])'
<1>0. cart \in [Carts -> Cart \cup {Empty}] /\ \A k \in Carts : Priced(cart[k])
  BY DEF CheckoutInv, CheckoutTypeOK, Costs
<1>1. ASSUME NEW k \in Carts, Checks(k) PROVE cart' \in [Carts -> Cart \cup {Empty}]
                                             /\ \A j \in Carts : Priced(cart[j])'
  <2>1. PICK d : d = cart'[k]
    OBVIOUS
  <2>2. CartGoes(k, d) /\ d \in Cart \cup {Empty} /\ Priced(d)'
    BY <1>1, <2>1, CartStep
  <2>3. cart' \in [Carts -> Cart \cup {Empty}]
    BY <1>0, <2>2 DEF CartGoes
  <2>4. ASSUME NEW j \in Carts PROVE Priced(cart[j])'
    <3>1. CASE j = k
      BY <2>1, <2>2, <3>1 DEF Priced, Net, Reduced
    <3>2. CASE j # k
      <4>1. PICK c : c = cart[j]
        OBVIOUS
      <4>2. cart'[j] = c
        BY <1>0, <2>2, <3>2, <4>1 DEF CartGoes
      <4>3. Priced(c)'
        BY <1>0, <4>1, PricedStays
      <4> QED BY <4>2, <4>3 DEF Priced, Net, Reduced
    <3> QED BY <3>1, <3>2
  <2> QED BY <2>3, <2>4
<1>2. ASSUME cart' = cart PROVE \A j \in Carts : Priced(cart[j])'
  <2> SUFFICES ASSUME NEW j \in Carts PROVE Priced(cart[j])'
    OBVIOUS
  <2>1. PICK c : c = cart[j]
    OBVIOUS
  <2>2. Priced(c)'
    BY <1>0, <2>1, PricedStays
  <2> QED BY <1>2, <2>1, <2>2 DEF Priced, Net, Reduced
<1> QED BY <1>0, <1>1, <1>2, OtherSteps

-------------------------------------------------------------------------------
(* Orders and quotes.                                                        *)

\* An order costs what the checkout came to.
LEMMA PaidOrder ==
  ASSUME CheckoutInv, NEW k \in Carts, Pay(k), NEW o \in orders' \ orders
  PROVE  o \in Order /\ Ordered(o)
<1> DEFINE it == cart[k]
<1>0. CheckoutTypeOK /\ Priced(cart[k])
  BY DEF CheckoutInv, Costs
<1>1. it \in Cart /\ it.at = "pay" /\ it.amount >= 1
  BY <1>0, CartInUse DEF Pay
<1>2. /\ o.plan = it.plan /\ o.months = it.months /\ o.code = it.code /\ o.tier = it.term.tier
      /\ o.amount = it.amount
      /\ o.cut \in {"none", "credit", "promo", "both"}
      /\ o.cut \in {"none", "credit"} <=> it.code = NoCode
      /\ o.cut \in {"none", "promo"} <=> ~(it.term.tier > 0)
      /\ o = [plan |-> o.plan, months |-> o.months, code |-> o.code, tier |-> o.tier,
              cut |-> o.cut, amount |-> o.amount]
  BY DEF Pay
<1>3. /\ it.plan \in Plans /\ it.months \in Months /\ it.code \in Codes \cup {NoCode}
      /\ it.term \in Terms \cup {NoTerm} /\ it.amount \in Nat
  BY <1>1 DEF Cart
<1>4. it.term.tier \in 0..3
  BY <1>3, CheckoutAssumption DEF TermType, NoTerm
<1>5. o \in Order
  <2>1. it.term.tier \in 0..3 /\ it.plan \in Plans
    BY <1>3, <1>4
  <2> HIDE DEF it
  <2> QED BY <1>2, <1>3, <2>1 DEF Order
<1> DEFINE p == Price[it.plan][it.months]
           n == Net(it)
<1>6. /\ p \in Nat \ {0} /\ n \in Nat /\ n <= p
      /\ it.term.tier = 0 => n = p
      /\ it.term.tier # 0 => n >= p - Price[it.term.tier][it.months]
  BY <1>1, NetBounds
<1>7. CASE it.code = NoCode
  <2>1. it.amount = n /\ it.term.tier < it.plan
    BY <1>0, <1>1, <1>7 DEF Priced
  <2>2. o.amount = n /\ n >= 1 /\ o.tier < o.plan
    BY <1>1, <1>2, <2>1
  <2>3. o.cut = "none" => n = p
    BY <1>2, <1>4, <1>6
  <2>4. o.cut = "credit" => n >= p - Price[o.tier][o.months]
    <3>1. o.cut = "credit" => it.term.tier # 0
      BY <1>2, <1>4
    <3> QED BY <1>2, <1>6, <3>1
  <2>5. Price[o.plan][o.months] = p /\ o.cut # "promo"
    BY <1>2, <1>7
  <2>6. n \in 1..p
    <3> HIDE DEF n, p
    <3> QED BY <1>6, <2>2
  <2>7. Payable(o)
    <3> HIDE DEF n, p, it
    <3> QED BY <2>2, <2>3, <2>4, <2>5, <2>6 DEF Payable
  <2> QED BY <1>5, <2>5, <2>7 DEF Ordered
<1>8. CASE it.code # NoCode
  <2>1. /\ it.code \in Codes /\ it.term.tier < it.plan
        /\ promo[it.code] # NoPromo /\ it.amount = Reduced(it.code, n)
    BY <1>0, <1>1, <1>3, <1>8 DEF Priced
  <2>2. it.amount <= n
    <3>1. promo[it.code].offer \in Offers
      BY <1>0, <2>1, PromoFields
    <3>2. Discount(promo[it.code].offer, n) \in Nat
      BY <1>6, <3>1, DiscountIsNat
    <3> QED BY <1>6, <2>1, <3>2, LessIsNat DEF Reduced
  <2>3. it.amount \in 1..p
    <3> HIDE DEF n, p
    <3> QED BY <1>1, <1>3, <1>6, <2>2
  <2>4. o.cut \notin {"none", "credit"} /\ Price[o.plan][o.months] = p
    BY <1>2, <1>8
  <2>5. Payable(o)
    BY <1>2, <2>1, <2>3, <2>4 DEF Payable
  <2>6. o.cut = "promo" => n = p
    BY <1>2, <1>4, <1>6
  <2>7. o.cut = "promo" => o.amount = Reduced(o.code, Price[o.plan][o.months])
    BY <1>2, <2>1, <2>4, <2>6
  <2> QED BY <1>2, <1>5, <2>1, <2>5, <2>7 DEF Ordered
<1> QED BY <1>7, <1>8

LEMMA OrdersStep ==
  ASSUME CheckoutInv, [CheckoutNext]_checkoutVars
  PROVE  /\ orders' \subseteq Order
         /\ \A o \in orders' : Ordered(o)'
<1> SUFFICES ASSUME NEW o \in orders' PROVE o \in Order /\ Ordered(o)'
  OBVIOUS
<1>1. o \in Order /\ Ordered(o)
  <2>1. CASE o \in orders
    BY <2>1 DEF CheckoutInv, CheckoutTypeOK, Costs
  <2>2. CASE o \notin orders
    <3>1. PICK k \in Carts : Checks(k)
      BY <2>2, OtherSteps
    <3>2. Pay(k)
      BY <2>2, <3>1 DEF Checks, OpenCart, FindTerm, Resolve, CountUse, Abandon
    <3> QED BY <2>2, <3>2, PaidOrder
  <2> QED BY <2>1, <2>2
<1>2. o.cut = "promo" => promo'[o.code] # NoPromo /\ promo'[o.code].offer = promo[o.code].offer
  BY <1>1, PromoStep DEF Ordered
<1> QED BY <1>1, <1>2 DEF Ordered, Payable, Reduced

LEMMA QuotesStep ==
  ASSUME CheckoutInv, [CheckoutNext]_checkoutVars
  PROVE  /\ quotes' \subseteq Quote
         /\ \A q \in quotes' : Quoted(q)'
<1> SUFFICES ASSUME NEW q \in quotes' PROVE q \in Quote /\ Quoted(q)'
  OBVIOUS
<1>1. q \in Quote /\ Quoted(q)
  <2>1. CASE q \in quotes
    BY <2>1 DEF CheckoutInv, CheckoutTypeOK, Costs
  <2>2. CASE q \notin quotes
    <3>1. PICK c \in Codes, plan \in Plans, months \in Months : Validate(c, plan, months)
      BY <2>2 DEF CheckoutNext, checkoutVars, Checks, OpenCart, FindTerm, Resolve, CountUse, Pay,
         Abandon, Administers, SubmitPromo, SubmitDeactivation, LookUp, InsertPromo,
         DeactivatePromo, FormFails, PromoEnds
    <3>2. q = [plan |-> plan, months |-> months, code |-> c, price |-> Shown(c, plan, months)]
      BY <2>2, <3>1 DEF Validate
    <3>3. promo[c] # NoPromo
      BY <3>1 DEF Validate, Valid, NoPromo
    <3>4. Shown(c, plan, months) \in Nat
      <4>1. Price[plan][months] \in Nat
        BY CheckoutAssumption
      <4>2. promo[c].offer \in Offers
        BY <3>3, PromoFields DEF CheckoutInv
      <4>3. Discount(promo[c].offer, Price[plan][months]) \in Nat
        BY <4>1, <4>2, DiscountIsNat
      <4> QED BY <4>1, <4>3, LessIsNat DEF Shown
    <3> QED BY <3>2, <3>3, <3>4 DEF Quote, Quoted
  <2> QED BY <2>1, <2>2
<1>2. promo'[q.code] # NoPromo /\ promo'[q.code].offer = promo[q.code].offer
  <2>1. q.code \in Codes
    BY <1>1 DEF Quote
  <2> QED BY <1>1, <2>1, PromoStep DEF Quoted
<1> QED BY <1>1, <1>2 DEF Quoted, Shown

-------------------------------------------------------------------------------
(* Types, and the calls of admins.                                           *)

LEMMA FormStep ==
  ASSUME CheckoutInv, [CheckoutNext]_checkoutVars
  PROVE  form' \in [Forms -> Form \cup {Blank}] /\ Withdrawn'
<1>0. form \in [Forms -> Form \cup {Blank}] /\ Withdrawn
  BY DEF CheckoutInv, CheckoutTypeOK
<1>b. Blank.at = "blank"
  BY DEF Blank
<1>p. \A c \in Codes : promo[c] # NoPromo => promo'[c] # NoPromo
  BY PromoStep
<1>c. ASSUME NEW f \in Forms, form[f].at = "off" PROVE form[f].code \in Codes
  BY <1>0, <1>c, <1>b DEF Form
<1>1. CASE UNCHANGED form
  BY <1>0, <1>1, <1>p, <1>c DEF Withdrawn
<1>2. ASSUME NEW f \in Forms, NEW d \in Form \cup {Blank}, FormGoes(f, d),
             d.at = "off" => d.code \in Codes /\ promo[d.code] # NoPromo
      PROVE  form' \in [Forms -> Form \cup {Blank}] /\ Withdrawn'
  <2>1. form' \in [Forms -> Form \cup {Blank}]
    BY <1>0, <1>2 DEF FormGoes
  <2>2. \A g \in Forms : form'[g] = IF g = f THEN d ELSE form[g]
    BY <1>0, <1>2 DEF FormGoes
  <2> QED BY <1>0, <1>2, <1>p, <1>c, <2>1, <2>2 DEF Withdrawn
<1>3. ASSUME NEW f \in Forms, Administers(f)
      PROVE  form' \in [Forms -> Form \cup {Blank}] /\ Withdrawn'
  <2>1. ASSUME NEW c \in Codes, NEW offer \in Offers, SubmitPromo(f, c, offer)
        PROVE  form' \in [Forms -> Form \cup {Blank}] /\ Withdrawn'
    <3>1. [at |-> "look", code |-> c, offer |-> offer] \in Form
      BY DEF Form
    <3> QED BY <1>2, <2>1, <3>1 DEF SubmitPromo
  <2>2. ASSUME NEW c \in Codes, SubmitDeactivation(f, c)
        PROVE  form' \in [Forms -> Form \cup {Blank}] /\ Withdrawn'
    <3>1. [at |-> "check", code |-> c] \in Form
      BY DEF Form
    <3> QED BY <1>2, <2>2, <3>1 DEF SubmitDeactivation
  <2>3. CASE LookUp(f)
    <3>1. form[f] \in Form /\ form[f].at \in {"look", "check"}
      BY <1>0, <1>b, <2>3 DEF LookUp
    <3>2. CASE FormGoes(f, Blank)
      BY <1>2, <1>b, <3>2
    <3>3. CASE form[f].at = "look" /\ FormGoes(f, [form[f] EXCEPT !.at = "insert"])
      <4>1. form[f] \in [at : {"look", "insert"}, code : Codes, offer : Offers]
        BY <3>1, <3>3 DEF Form
      <4>2. [form[f] EXCEPT !.at = "insert"] \in Form /\ [form[f] EXCEPT !.at = "insert"].at = "insert"
        BY <4>1 DEF Form
      <4> QED BY <1>2, <3>3, <4>2
    <3>4. CASE form[f].at = "check" /\ FormGoes(f, [form[f] EXCEPT !.at = "off"])
               /\ promo[form[f].code].state = "active"
      <4>1. form[f] \in [at : {"check", "off"}, code : Codes]
        BY <3>1, <3>4 DEF Form
      <4>2. /\ [form[f] EXCEPT !.at = "off"] \in Form
            /\ [form[f] EXCEPT !.at = "off"].code = form[f].code
        BY <4>1 DEF Form
      <4>3. form[f].code \in Codes /\ promo[form[f].code] # NoPromo
        BY <3>4, <4>1 DEF NoPromo
      <4> QED BY <1>2, <3>4, <4>2, <4>3
    <3> QED BY <2>3, <3>1, <3>2, <3>3, <3>4 DEF LookUp
  <2>4. CASE InsertPromo(f) \/ DeactivatePromo(f) \/ FormFails(f)
    BY <1>2, <1>b, <2>4 DEF InsertPromo, DeactivatePromo, FormFails
  <2> QED BY <1>3, <2>1, <2>2, <2>3, <2>4 DEF Administers
<1> QED
  BY <1>1, <1>3 DEF CheckoutNext, checkoutVars, Checks, OpenCart, FindTerm, Resolve, CountUse,
     Pay, Abandon, Validate, PromoEnds

LEMMA TypedStep ==
  ASSUME CheckoutInv, [CheckoutNext]_checkoutVars
  PROVE  CheckoutTypeOK'
<1>1. redeemed' \in [Codes -> Nat]
  <2>0. redeemed \in [Codes -> Nat]
    BY DEF CheckoutInv, CheckoutTypeOK
  <2>1. ASSUME NEW k \in Carts, Checks(k) PROVE redeemed' \in [Codes -> Nat]
    <3>1. CASE Pay(k)
      <4>1. PICK c : c = cart[k].code
        OBVIOUS
      <4>2. redeemed' = redeemed \/ redeemed' = [redeemed EXCEPT ![c] = redeemed[c] + 1]
        BY <3>1, <4>1 DEF Pay
      <4> QED BY <2>0, <4>2
    <3>2. CASE ~Pay(k)
      BY <2>0, <2>1, <3>2 DEF Checks, OpenCart, FindTerm, Resolve, CountUse, Abandon
    <3> QED BY <3>1, <3>2
  <2> QED BY <2>0, <2>1, OtherSteps
<1> QED
  BY <1>1, PromoStep, CartsStep, FormStep, OrdersStep, QuotesStep DEF CheckoutTypeOK

-------------------------------------------------------------------------------
(* The limit of a code, and its uses.                                        *)

\* No step takes a code further past its limit.
LEMMA LimitStep ==
  ASSUME CheckoutInv, [CheckoutNext]_checkoutVars
  PROVE  LimitHolds'
<1> SUFFICES ASSUME NEW c \in Codes, Limited(c)'
             PROVE  promo'[c].used + Cardinality(Counting(c)')
                      <= promo'[c].offer.max + Cardinality(Carts) - 1
  BY DEF LimitHolds
<1> DEFINE n == Cardinality(Counting(c))
           m == Cardinality(Counting(c)')
           N == Cardinality(Carts)
<1>0. CheckoutTypeOK
  BY DEF CheckoutInv
<1>1. n \in Nat /\ N \in Nat \ {0} /\ n <= N /\ IsFiniteSet(Counting(c)) /\ IsFiniteSet(Carts)
  BY CountingFinite, CheckoutAssumption
<1>2. m \in Nat /\ m <= N
  <2>1. Counting(c)' \in SUBSET Carts
    BY DEF Counting
  <2>2. IsFiniteSet(Counting(c)') /\ m <= N
    BY <1>1, <2>1, FS_Subset
  <2> QED BY <2>2, FS_CardinalityType
<1>3. CASE promo[c] = NoPromo
  <2>1. \E f \in Forms : InsertPromo(f) /\ promo' = [promo EXCEPT ![c] = NewPromo(form[f].offer)]
    <3>1. promo'[c] # promo[c]
      BY <1>3 DEF Limited
    <3>2. PICK f \in Forms : InsertPromo(f) \/ DeactivatePromo(f)
      <4>1. \A k \in Carts : ~CountUse(k)
        <5> SUFFICES ASSUME NEW k \in Carts, CountUse(k) PROVE FALSE
          OBVIOUS
        <5>1. Priced(cart[k]) /\ cart[k].at = "count"
          BY DEF CheckoutInv, Costs, CountUse
        <5>2. cart[k].code # c
          BY <1>3, <5>1 DEF Priced
        <5> QED BY <1>0, <3>1, <5>2 DEF CountUse, CheckoutTypeOK
      <4>2. \A b \in Codes : ~PromoEnds(b)
        BY <1>0, <1>3, <3>1 DEF PromoEnds, CheckoutTypeOK
      <4> QED BY <3>1, <4>1, <4>2 DEF CheckoutNext, checkoutVars, Checks, Administers, OpenCart,
            FindTerm, Resolve, Pay, Abandon, Validate, SubmitPromo, SubmitDeactivation, LookUp,
            FormFails
    <3>3. ~DeactivatePromo(f)
      BY <1>0, <1>3, <3>1 DEF DeactivatePromo, CheckoutInv, Withdrawn, CheckoutTypeOK
    <3>4. InsertPromo(f) /\ form[f].code = c
      BY <1>0, <3>1, <3>2, <3>3 DEF InsertPromo, CheckoutTypeOK
    <3> QED BY <1>3, <3>4 DEF InsertPromo
  <2>2. promo'[c].used = 0
    BY <1>0, <2>1 DEF NewPromo, CheckoutTypeOK
  <2>3. promo'[c].offer.max \in Nat /\ promo'[c].offer.max > 0
    <3>1. CheckoutTypeOK'
      BY TypedStep
    <3>2. promo'[c] # NoPromo /\ promo'[c].offer.max > 0
      BY DEF Limited
    <3>3. promo'[c] \in Promo
      BY <3>1, <3>2 DEF CheckoutTypeOK
    <3>4. promo'[c].offer \in Offers
      BY <3>3 DEF Promo
    <3> QED BY <3>2, <3>4, CheckoutAssumption DEF OfferType
  <2>4. 0 + m <= promo'[c].offer.max + N - 1
    <3> HIDE DEF m, N
    <3> QED BY <1>1, <1>2, <2>3
  <2> QED BY <2>2, <2>4
<1>4. CASE promo[c] # NoPromo
  <2>0. /\ promo'[c].offer = promo[c].offer /\ promo[c].offer.max \in Nat
        /\ promo[c].used \in Nat /\ promo'[c].used \in Nat /\ promo[c] \in Promo
    <3>1. promo'[c] \in Promo /\ promo'[c].offer = promo[c].offer
      BY <1>4, PromoStep
    <3>2. promo'[c].used \in Nat
      BY <3>1 DEF Promo
    <3> QED BY <1>0, <1>4, <3>1, <3>2, PromoFields
  <2> DEFINE max == promo[c].offer.max
             used == promo[c].used
  <2>1. used + n <= max + N - 1
    BY <1>4, <2>0 DEF CheckoutInv, LimitHolds, Limited
  <2>2. ASSUME promo'[c].used = used, Counting(c)' \subseteq Counting(c)
        PROVE  promo'[c].used + m <= max + N - 1
    <3>1. m <= n
      BY <1>1, <2>2, FS_Subset
    <3> HIDE DEF m, n, N, max, used
    <3> QED BY <1>1, <1>2, <2>0, <2>1, <2>2, <3>1 DEF max, used
  <2>3. ASSUME promo'[c].used = used, used < max
        PROVE  promo'[c].used + m <= max + N - 1
    <3>1. max \in Nat /\ used \in Nat
      BY <2>0
    <3> HIDE DEF m, N, max, used
    <3> QED BY <1>1, <1>2, <2>3, <3>1
  <2>4. ASSUME promo'[c].used \in {used, used + 1}, NEW k \in Counting(c),
               Counting(c)' = Counting(c) \ {k}
        PROVE  promo'[c].used + m <= max + N - 1
    <3>1. m = n - 1
      BY <1>1, <2>4, FS_RemoveElement
    <3>2. max \in Nat /\ used \in Nat
      BY <2>0
    <3> HIDE DEF m, n, N, max, used
    <3> QED BY <1>1, <1>2, <2>1, <2>4, <3>1, <3>2
  <2>5. ASSUME NEW k \in Carts, Checks(k) PROVE promo'[c].used + m <= max + N - 1
    <3>1. PICK d : d = cart'[k]
      OBVIOUS
    <3>2. CartGoes(k, d)
      BY <2>5, <3>1, CartStep
    <3>3. Counting(c)' = (Counting(c) \ {k}) \cup (IF d.at = "count" /\ d.code = c THEN {k} ELSE {})
      BY <1>0, <3>2, CountingMoves
    <3>4. CASE d.at # "count" /\ UNCHANGED promo
      BY <2>2, <3>3, <3>4
    <3>5. CASE Resolve(k)
      <4>1. UNCHANGED promo
        BY <3>5 DEF Resolve
      <4>2. CASE d.at = "count" /\ d.code = c
        <5>1. Valid(cart[k].code, cart[k].plan, cart[k].months)
          <6>1. ~(d = Empty)
            BY <4>2 DEF Empty
          <6> QED BY <1>0, <3>1, <3>5, <6>1 DEF Resolve, CartGoes, CheckoutTypeOK
        <5>2. d.code = cart[k].code
          <6>1. d = [cart[k] EXCEPT !.at = "count",
                           !.amount = Less(@, Discount(promo[cart[k].code].offer, @))]
            BY <1>0, <3>1, <3>5, <5>1 DEF Resolve, CartGoes, CheckoutTypeOK
          <6>2. cart[k] \in Cart
            BY <1>0, <3>5, CartInUse DEF Resolve
          <6> QED BY <6>1, <6>2 DEF Cart
        <5>3. promo[c].offer.max > 0 => promo[c].used < promo[c].offer.max
          BY <4>2, <5>1, <5>2 DEF Valid
        <5>4. max > 0
          BY <2>0 DEF Limited
        <5> QED BY <2>3, <4>1, <5>3, <5>4
      <4>3. CASE ~(d.at = "count" /\ d.code = c)
        BY <2>2, <3>3, <4>1, <4>3
      <4> QED BY <4>2, <4>3
    <3>6. CASE CountUse(k)
      <4>1. cart[k] \in Cart /\ cart[k].at = "count"
        BY <1>0, <3>6, CartInUse DEF CountUse
      <4>2. d.at = "pay"
        <5>1. d = [cart[k] EXCEPT !.at = "pay"]
          BY <1>0, <3>1, <3>6 DEF CountUse, CartGoes, CheckoutTypeOK
        <5> QED BY <4>1, <5>1 DEF Cart
      <4>3. CASE cart[k].code = c
        <5>1. k \in Counting(c) /\ Counting(c)' = Counting(c) \ {k}
          BY <3>3, <4>1, <4>2, <4>3 DEF Counting
        <5>2. promo'[c].used \in {used, used + 1}
          BY <1>0, <2>0, <3>6, <4>3 DEF CountUse, CheckoutTypeOK, Promo
        <5> QED BY <2>4, <5>1, <5>2
      <4>4. CASE cart[k].code # c
        <5>1. promo'[c] = promo[c]
          BY <1>0, <3>6, <4>4 DEF CountUse, CheckoutTypeOK
        <5> QED BY <2>2, <3>3, <4>2, <5>1
      <4> QED BY <4>3, <4>4
    <3>7. CASE ~Resolve(k) /\ ~CountUse(k)
      <4>1. UNCHANGED promo
        BY <2>5, <3>7 DEF Checks, OpenCart, FindTerm, Pay, Abandon
      <4>2. d.at # "count"
        <5>1. ASSUME NEW plan \in Plans, NEW months \in Months, NEW mode \in Modes,
                     NEW code \in Codes \cup {NoCode}, OpenCart(k, plan, months, code, mode)
              PROVE  d.at # "count"
          BY <1>0, <3>1, <5>1 DEF OpenCart, CartGoes, CheckoutTypeOK
        <5>2. ASSUME NEW term \in Terms \cup {NoTerm}, FindTerm(k, term) PROVE d.at # "count"
          BY <1>0, <3>1, <5>2, CartGoesFrom
        <5>3. CASE Pay(k) \/ Abandon(k)
          BY <1>0, <3>1, <5>3 DEF Pay, Abandon, CartGoes, CheckoutTypeOK, Empty
        <5> QED BY <2>5, <3>7, <5>1, <5>2, <5>3 DEF Checks
      <4> QED BY <3>4, <4>1, <4>2
    <3> QED BY <3>5, <3>6, <3>7
  <2>6. ASSUME UNCHANGED cart, promo'[c].used = used PROVE promo'[c].used + m <= max + N - 1
    BY <2>2, <2>6 DEF Counting
  <2>7. (~\E k \in Carts : Checks(k)) => UNCHANGED cart /\ promo'[c].used = used
    <3>1. ASSUME NEW f \in Forms, InsertPromo(f) PROVE promo'[c] = promo[c]
      BY <1>0, <1>4, <3>1 DEF InsertPromo, CheckoutTypeOK
    <3>2. ASSUME NEW f \in Forms, DeactivatePromo(f) PROVE promo'[c].used = used
      <4>1. [promo[c] EXCEPT !.state = "inactive"].used = used
        BY <2>0, PromoMoves
      <4>2. promo'[c] \in {promo[c], [promo[c] EXCEPT !.state = "inactive"]}
        BY <1>0, <3>2 DEF DeactivatePromo, CheckoutTypeOK
      <4> QED BY <4>1, <4>2
    <3>3. ASSUME NEW b \in Codes, PromoEnds(b) PROVE promo'[c].used = used
      <4>1. [promo[c] EXCEPT !.ends = "over"].used = used
        BY <2>0, PromoMoves
      <4>2. promo'[c] \in {promo[c], [promo[c] EXCEPT !.ends = "over"]}
        BY <1>0, <3>3 DEF PromoEnds, CheckoutTypeOK
      <4> QED BY <4>1, <4>2
    <3>4. (~\E k \in Carts : Checks(k)) =>
            /\ UNCHANGED cart
            /\ \/ UNCHANGED promo
               \/ \E f \in Forms : InsertPromo(f) \/ DeactivatePromo(f)
               \/ \E b \in Codes : PromoEnds(b)
      BY DEF CheckoutNext, checkoutVars, Administers, SubmitPromo, SubmitDeactivation, LookUp,
         InsertPromo, DeactivatePromo, FormFails, Validate, PromoEnds
    <3> QED BY <3>1, <3>2, <3>3, <3>4
  <2>8. promo'[c].used + m <= max + N - 1
    BY <2>5, <2>6, <2>7
  <2> QED BY <2>0, <2>8
<1> QED BY <1>3, <1>4

\* The checkouts that counted a code and are on their way to their order, and
\* the orders they had, are among the uses.
LEMMA UsesStep ==
  ASSUME CheckoutInv, [CheckoutNext]_checkoutVars
  PROVE  Uses'
<1> SUFFICES ASSUME NEW c \in Codes
             PROVE  /\ promo'[c] = NoPromo => redeemed'[c] = 0 /\ AboutToPay(c)' = {}
                    /\ promo'[c] # NoPromo => redeemed'[c] + Cardinality(AboutToPay(c)') <= promo'[c].used
  BY DEF Uses
<1> DEFINE n == Cardinality(AboutToPay(c))
           m == Cardinality(AboutToPay(c)')
<1>0. CheckoutTypeOK
  BY DEF CheckoutInv
<1>1. n \in Nat /\ IsFiniteSet(AboutToPay(c)) /\ IsFiniteSet(Carts)
  BY CountingFinite, CheckoutAssumption
<1>2. m \in Nat
  <2>1. AboutToPay(c)' \in SUBSET Carts
    BY DEF AboutToPay
  <2>2. IsFiniteSet(AboutToPay(c)')
    BY <1>1, <2>1, FS_Subset
  <2> QED BY <2>2, FS_CardinalityType
<1>3. /\ promo[c] = NoPromo => redeemed[c] = 0 /\ AboutToPay(c) = {}
      /\ promo[c] # NoPromo => redeemed[c] + n <= promo[c].used
      /\ redeemed[c] \in Nat
  BY DEF CheckoutInv, Uses, CheckoutTypeOK
<1>4. promo[c] # NoPromo =>
        /\ promo'[c] # NoPromo /\ promo[c].used \in Nat /\ promo'[c].used \in Nat
        /\ promo'[c].used >= promo[c].used
  BY <1>0, PromoStep, PromoFields DEF Promo
<1>5. promo'[c] # NoPromo => promo'[c].used \in Nat
  <2>1. CheckoutTypeOK'
    BY TypedStep
  <2> QED BY <2>1 DEF CheckoutTypeOK, Promo
\* Nothing is redeemed and nothing added to the checkouts on their way.
<1>6. ASSUME AboutToPay(c)' \subseteq AboutToPay(c), redeemed'[c] = redeemed[c]
      PROVE  /\ promo'[c] = NoPromo => redeemed'[c] = 0 /\ AboutToPay(c)' = {}
             /\ promo'[c] # NoPromo => redeemed'[c] + m <= promo'[c].used
  <2>1. m <= n
    BY <1>1, <1>6, FS_Subset
  <2>2. CASE promo[c] = NoPromo
    <3>1. AboutToPay(c)' = {} /\ redeemed'[c] = 0
      BY <1>3, <1>6, <2>2
    <3>2. m = 0
      BY <3>1, FS_EmptySet
    <3> QED BY <1>5, <3>1, <3>2
  <2>3. CASE promo[c] # NoPromo
    <3>1. redeemed'[c] + m <= promo'[c].used
      <4> HIDE DEF m, n
      <4> QED BY <1>1, <1>2, <1>3, <1>4, <1>6, <2>1, <2>3
    <3> QED BY <1>4, <2>3, <3>1
  <2> QED BY <2>2, <2>3
<1>7. ASSUME NEW k \in Carts, Checks(k)
      PROVE  /\ promo'[c] = NoPromo => redeemed'[c] = 0 /\ AboutToPay(c)' = {}
             /\ promo'[c] # NoPromo => redeemed'[c] + m <= promo'[c].used
  <2>1. PICK d : d = cart'[k]
    OBVIOUS
  <2>2. CartGoes(k, d)
    BY <1>7, <2>1, CartStep
  <2>3. AboutToPay(c)' = (AboutToPay(c) \ {k}) \cup
                       (IF d.at = "pay" /\ d.code = c /\ d.mode = "plain" THEN {k} ELSE {})
    BY <1>0, <2>2, CountingMoves
  <2>4. CASE CountUse(k)
    <3>1. cart[k] \in Cart /\ cart[k].at = "count" /\ redeemed' = redeemed
      BY <1>0, <2>4, CartInUse DEF CountUse
    <3>2. d.at = "pay" /\ d.code = cart[k].code /\ d.mode = cart[k].mode
      <4>1. d = [cart[k] EXCEPT !.at = "pay"]
        BY <1>0, <2>1, <2>4 DEF CountUse, CartGoes, CheckoutTypeOK
      <4> QED BY <3>1, <4>1 DEF Cart
    <3>3. CASE cart[k].code = c /\ cart[k].mode = "plain"
      <4>1. promo[c] # NoPromo
        BY <3>1, <3>3 DEF CheckoutInv, Costs, Priced
      <4>2. promo'[c].used = promo[c].used + 1
        <5>1. promo[c] \in Promo
          BY <1>0, <4>1, PromoFields
        <5>2. promo'[c] = [promo[c] EXCEPT !.used = promo[c].used + 1]
          BY <1>0, <2>4, <3>3 DEF CountUse, CheckoutTypeOK
        <5> QED BY <5>1, <5>2, PromoMoves
      <4>3. AboutToPay(c)' = AboutToPay(c) \cup {k} /\ k \notin AboutToPay(c)
        BY <2>3, <3>1, <3>2, <3>3 DEF AboutToPay
      <4>4. m = n + 1
        BY <1>1, <4>3, FS_AddElement
      <4>5. redeemed'[c] + m <= promo'[c].used
        <5> HIDE DEF m, n
        <5> QED BY <1>1, <1>3, <1>4, <3>1, <4>1, <4>2, <4>4
      <4> QED BY <1>4, <4>1, <4>5
    <3>4. CASE ~(cart[k].code = c /\ cart[k].mode = "plain")
      BY <1>6, <2>3, <3>1, <3>2, <3>4
    <3> QED BY <3>3, <3>4
  <2>5. CASE Pay(k)
    <3>1. cart[k] \in Cart /\ cart[k].at = "pay" /\ d = Empty
      BY <1>0, <2>1, <2>5, CartInUse DEF Pay, CartGoes, CheckoutTypeOK
    <3>2. AboutToPay(c)' = AboutToPay(c) \ {k}
      BY <2>3, <3>1 DEF Empty
    <3>3. CASE cart[k].code = c /\ cart[k].mode = "plain"
      <4>1. c # NoCode
        BY CheckoutAssumption
      <4>2. redeemed'[c] = redeemed[c] + 1
        BY <1>0, <2>5, <3>3, <4>1 DEF Pay, CheckoutTypeOK
      <4>3. k \in AboutToPay(c)
        BY <3>1, <3>3 DEF AboutToPay
      <4>4. m = n - 1
        BY <1>1, <3>2, <4>3, FS_RemoveElement
      <4>5. promo[c] # NoPromo
        BY <1>3, <4>3
      <4>6. redeemed'[c] + m <= promo'[c].used
        <5> HIDE DEF m, n
        <5> QED BY <1>1, <1>2, <1>3, <1>4, <4>2, <4>4, <4>5
      <4> QED BY <1>4, <4>5, <4>6
    <3>4. CASE ~(cart[k].code = c /\ cart[k].mode = "plain")
      <4>1. redeemed'[c] = redeemed[c]
        BY <1>0, <2>5, <3>4 DEF Pay, CheckoutTypeOK
      <4> QED BY <1>6, <3>2, <4>1
    <3> QED BY <3>3, <3>4
  <2>6. CASE ~CountUse(k) /\ ~Pay(k)
    <3>1. redeemed' = redeemed
      BY <1>7, <2>6 DEF Checks, OpenCart, FindTerm, Resolve, Abandon
    <3>2. ~(d.at = "pay" /\ d.code = c)
      <4>1. ASSUME NEW plan \in Plans, NEW months \in Months, NEW mode \in Modes,
                   NEW code \in Codes \cup {NoCode}, OpenCart(k, plan, months, code, mode)
            PROVE  d.at # "pay"
        BY <1>0, <2>1, <4>1 DEF OpenCart, CartGoes, CheckoutTypeOK
      <4>2. ASSUME NEW term \in Terms \cup {NoTerm}, FindTerm(k, term)
            PROVE  ~(d.at = "pay" /\ d.code = c)
        BY <1>0, <2>1, <4>2, CartGoesFrom, CheckoutAssumption
      <4>3. CASE Resolve(k)
        BY <1>0, <2>1, <4>3, CartGoesFrom
      <4>4. CASE Abandon(k)
        BY <1>0, <2>1, <4>4 DEF Abandon, CartGoes, CheckoutTypeOK, Empty
      <4> QED BY <1>7, <2>6, <4>1, <4>2, <4>3, <4>4 DEF Checks
    <3> QED BY <1>6, <2>3, <3>1, <3>2
  <2> QED BY <2>4, <2>5, <2>6
<1>8. CASE UNCHANGED <<cart, redeemed>>
  BY <1>6, <1>8 DEF AboutToPay
<1> QED BY <1>7, <1>8, OtherSteps

-------------------------------------------------------------------------------
(* Theorems.                                                                 *)

LEMMA CheckoutBegins == CheckoutInit => CheckoutInv
<1> SUFFICES ASSUME CheckoutInit PROVE CheckoutInv
  OBVIOUS
<1>1. CheckoutTypeOK
  BY DEF CheckoutInit, CheckoutTypeOK
<1>2. Withdrawn /\ LimitHolds
  BY DEF CheckoutInit, Withdrawn, Blank, LimitHolds, Limited
<1>3. Uses
  BY DEF CheckoutInit, Uses, AboutToPay, Empty
<1>4. Costs
  BY DEF CheckoutInit, Costs, Priced, Empty
<1> QED BY <1>1, <1>2, <1>3, <1>4 DEF CheckoutInv

LEMMA Inductive == CheckoutSpec => []CheckoutInv
<1>1. CheckoutInv /\ [CheckoutNext]_checkoutVars => CheckoutInv'
  <2> SUFFICES ASSUME CheckoutInv, [CheckoutNext]_checkoutVars PROVE CheckoutInv'
    OBVIOUS
  <2>1. Costs'
    BY CartsStep, OrdersStep, QuotesStep DEF Costs
  <2> QED BY <2>1, TypedStep, FormStep, LimitStep, UsesStep DEF CheckoutInv
<1> QED BY <1>1, CheckoutBegins, PTL DEF CheckoutSpec

\* Every variable of createCheckout and of the promo codes has its type.
THEOREM CheckoutTyped == CheckoutSpec => []CheckoutTypeOK
<1>1. CheckoutInv => CheckoutTypeOK
  BY DEF CheckoutInv
<1> QED BY <1>1, Inductive, PTL

\* A code is counted for at most max_uses + N - 1 checkouts when N can be in
\* progress at once, and every order it was redeemed for is among its uses.
THEOREM PromoUses == CheckoutSpec => []PromoUsesHold
<1>1. CheckoutInv => PromoUsesHold
  <2> SUFFICES ASSUME CheckoutInv PROVE RedeemedIsCounted
    BY DEF CheckoutInv, PromoUsesHold
  <2> SUFFICES ASSUME NEW c \in Codes, redeemed[c] > 0
               PROVE  promo[c] # NoPromo /\ redeemed[c] <= promo[c].used
    BY DEF RedeemedIsCounted
  <2>1. /\ promo[c] = NoPromo => redeemed[c] = 0
        /\ promo[c] # NoPromo => redeemed[c] + Cardinality(AboutToPay(c)) <= promo[c].used
        /\ redeemed[c] \in Nat
    BY DEF CheckoutInv, Uses, CheckoutTypeOK
  <2>2. Cardinality(AboutToPay(c)) \in Nat
    BY CountingFinite
  <2>3. promo[c] # NoPromo => promo[c].used \in Nat
    BY PromoFields DEF CheckoutInv
  <2> QED BY <2>1, <2>2, <2>3
<1> QED BY <1>1, Inductive, PTL

\* Whatever the prices, offers and old plans: an order costs between a cent and
\* the price, no more is credited than the old plan costs, and a buyer without
\* a plan pays what validatePromoCode showed.
THEOREM Charges == CheckoutSpec => []ChargesHold
<1>1. CheckoutInv => ChargesHold
  <2> SUFFICES ASSUME CheckoutInv, NEW o \in orders PROVE Payable(o) /\ AsShown(o)
    BY DEF ChargesHold
  <2>1. Ordered(o)
    BY DEF CheckoutInv, Costs
  <2>2. ASSUME NEW q \in quotes,
               o.cut = "promo", q.code = o.code, q.plan = o.plan, q.months = o.months
        PROVE  o.amount = q.price
    <3>1. Quoted(q)
      BY DEF CheckoutInv, Costs
    <3>2. o.amount = Reduced(o.code, Price[o.plan][o.months])
      BY <2>1, <2>2 DEF Ordered
    <3>3. o.amount # 0
      BY <2>1 DEF Ordered, Payable
    <3> QED BY <2>2, <3>1, <3>2, <3>3 DEF Quoted, Shown, Reduced
  <2> QED BY <2>1, <2>2 DEF Ordered, AsShown
<1> QED BY <1>1, Inductive, PTL

-------------------------------------------------------------------------------
(* The two side by side.                                                     *)

\* A behaviour that TLC runs is one of payment-service, with its fairness, and one of the
\* checkout; so what is proved of them holds of it.
THEOREM PaymentsInstance == MCSpec => FairSpec /\ CheckoutSpec
<1>1. MCInit => Init /\ CheckoutInit
  BY DEF MCInit
<1>2. [MCNext]_<<vars, checkoutVars, part>> => [Next]_vars /\ [CheckoutNext]_checkoutVars
  BY DEF MCNext
<1> QED BY <1>1, <1>2, PTL DEF MCSpec, FairSpec, Spec, CheckoutSpec

\* TypesOK: orders, webhooks, checkouts and promo codes have their types in either.
THEOREM PaymentsPartsTyped == MCSpec => []TypesOK
  BY PaymentsInstance, PaymentsTyped, CheckoutTyped, PTL DEF TypesOK, FairSpec
===============================================================================
