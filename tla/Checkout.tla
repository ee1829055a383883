------------------------------- MODULE Checkout -------------------------------
(***************************************************************************)
(* subscription-service: createCheckout, and the promo codes it redeems.   *)
(*                                                                         *)
(* A checkout prices a plan, takes off what is left of the buyer's plan    *)
(* and what a promo code gives, counts the code as used and asks           *)
(* payment-service for an order of that amount: four awaits and no         *)
(* transaction, beside the checkouts of other buyers and the calls of      *)
(* admins.  Every await may fail (Throw), and what it did may be done all  *)
(* the same.  The buyer's row is read once: which one it is, and how many  *)
(* of its days are left, is the matter of Subscriptions and an input here. *)
(***************************************************************************)
EXTENDS Integers, FiniteSets

CONSTANTS Codes,    \* promo codes
          Carts,    \* checkouts that can be in progress at once
          Forms,    \* calls of admins that can be in progress at once
          Offers,   \* terms that promo codes are made with
          Terms,    \* active subscriptions that buyers can have
          Price,    \* pricing.plans, in cents
          NoCode    \* the empty promo_code

\* plan_type and duration_months, as the validators admit them
Plans  == 1..3
Months == {1, 3, 6, 12}
Kinds  == {"percentage", "fixed"}
Modes  == {"plain", "blanks"}   \* a code as it is stored, or with blanks around it

\* chk_promo_codes_*: no upper bound on a percentage
OfferType == [kind : Kinds, value : Nat \ {0}, max : Nat, tiers : SUBSET Plans, min : Nat]

\* A subscription that ends after it starts and has not ended: total days, of
\* which some are left, both rounded up.  Tier 0 is a row without a plan.
TermType == [tier : 0..3, left : Nat, total : Nat \ {0}]

ASSUME CheckoutAssumption ==
  /\ IsFiniteSet(Carts) /\ Carts # {}
  /\ NoCode \notin Codes
  /\ Price \in [Plans -> [Months -> Nat \ {0}]]
  /\ Offers \subseteq OfferType
  /\ Terms \subseteq {t \in TermType : t.left <= t.total}

NoTerm == [tier |-> 0, left |-> 0, total |-> 1]

VARIABLES
  promo,    \* the promo_codes table
  cart,     \* checkouts in progress
  form,     \* calls of admins in progress
  orders,   \* orders payment-service was asked for and took
  \* history variables, read by the properties only
  redeemed, \* how many orders a code typed as it is stored was redeemed for
  quotes    \* answers of validatePromoCode

checkoutVars == <<promo, cart, form, orders, redeemed, quotes>>

-------------------------------------------------------------------------------

NoPromo == [state |-> "none"]
Promo   == [state : {"active", "inactive"}, ends : {"open", "over"}, offer : Offers, used : Nat]

Empty == [at |-> "empty"]
Cart  == [at : {"find", "resolve", "count", "pay"}, plan : Plans, months : Months,
          code : Codes \cup {NoCode}, mode : Modes, term : Terms \cup {NoTerm}, amount : Nat]

Blank == [at |-> "blank"]
Form  == [at : {"look", "insert"}, code : Codes, offer : Offers]
         \cup [at : {"check", "off"}, code : Codes]

Order == [plan : Plans, months : Months, code : Codes \cup {NoCode}, tier : 0..3,
          cut : {"none", "credit", "promo", "both"}, amount : Nat]
Quote == [plan : Plans, months : Months, code : Codes, price : Nat]

CheckoutTypeOK ==
  /\ promo \in [Codes -> Promo \cup {NoPromo}]
  /\ cart \in [Carts -> Cart \cup {Empty}]
  /\ form \in [Forms -> Form \cup {Blank}]
  /\ orders \subseteq Order
  /\ redeemed \in [Codes -> Nat]
  /\ quotes \subseteq Quote

CheckoutInit ==
  /\ promo = [c \in Codes |-> NoPromo]
  /\ cart = [k \in Carts |-> Empty]
  /\ form = [f \in Forms |-> Blank]
  /\ orders = {}
  /\ redeemed = [c \in Codes |-> 0]
  /\ quotes = {}

-------------------------------------------------------------------------------
(* Prices.                                                                   *)

\* Math.round(a / b)
Rounded(a, b) == (2 * a + b) \div (2 * b)
Less(a, b)    == IF b <= a THEN a - b ELSE 0

\* Fault: the days left are worth what the highest plan costs.
CreditForNewPlan(term, months) ==
  IF term.tier = 0 THEN 0 ELSE Rounded(term.left * Price[3][months], term.total)

\* What the days left are worth, at the price of the old plan for the duration
\* of the new one.
Credit(term, months) ==
  IF term.tier = 0 THEN 0 ELSE Rounded(term.left * Price[term.tier][months], term.total)

Discount(offer, price) ==
  IF offer.kind = "percentage" THEN Rounded(price * offer.value, 100) ELSE offer.value

\* Fault: the comparison with max_uses is off by one.
ValidAtLast(c, plan, months) ==
  /\ promo[c].state = "active"
  /\ promo[c].offer.max > 0 => promo[c].used <= promo[c].offer.max
  /\ promo[c].ends = "open"
  /\ promo[c].offer.tiers # {} => plan \in promo[c].offer.tiers
  /\ promo[c].offer.min <= months

\* _resolvePromoDiscount: valid_from is the time of creation, and has passed.
Valid(c, plan, months) ==
  /\ promo[c].state = "active"
  /\ promo[c].offer.max > 0 => promo[c].used < promo[c].offer.max
  /\ promo[c].ends = "open"
  /\ promo[c].offer.tiers # {} => plan \in promo[c].offer.tiers
  /\ promo[c].offer.min <= months

-------------------------------------------------------------------------------
(* createCheckout                                                            *)

CartGoes(k, c) == cart' = [cart EXCEPT ![k] = c]

\* The call, with a plan and a duration that getPlanPrice knows.
OpenCart(k, plan, months, code, mode) ==
  /\ cart[k] = Empty
  /\ CartGoes(k, [at |-> "find", plan |-> plan, months |-> months, code |-> code, mode |-> mode,
                  term |-> NoTerm, amount |-> Price[plan][months]])
  /\ UNCHANGED <<promo, form, orders, redeemed, quotes>>

\* findActiveByUserId: no row, a lower plan whose days left are taken off, or
\* a ConflictError.
FindTerm(k, term) ==
  /\ cart[k].at = "find"
  /\ IF term.tier > 0 /\ cart[k].plan <= term.tier
       THEN CartGoes(k, Empty)
       ELSE CartGoes(k, [cart[k] EXCEPT !.at = IF cart[k].code = NoCode THEN "pay" ELSE "resolve",
                                        !.term = term,
                                        !.amount = Less(@, Credit(term, cart[k].months))])
  /\ UNCHANGED <<promo, form, orders, redeemed, quotes>>

\* _applyPromoCode: the code is read, trimmed, and the discount taken off.
Resolve(k) ==
  LET c == cart[k].code IN
  /\ cart[k].at = "resolve"
  /\ IF Valid(c, cart[k].plan, cart[k].months)
       THEN CartGoes(k, [cart[k] EXCEPT !.at = "count",
                                        !.amount = Less(@, Discount(promo[c].offer, @))])
       ELSE CartGoes(k, Empty)
  /\ UNCHANGED <<promo, form, orders, redeemed, quotes>>

\* incrementUsedCount, whatever used_count is by now; it goes by the code as it
\* was typed, and finds no row when there are blanks around it.
CountUse(k) ==
  LET c == cart[k].code IN
  /\ cart[k].at = "count"
  /\ promo' = IF cart[k].mode = "plain" THEN [promo EXCEPT ![c].used = @ + 1] ELSE promo
  /\ CartGoes(k, [cart[k] EXCEPT !.at = "pay"])
  /\ UNCHANGED <<form, orders, redeemed, quotes>>

\* createPayment: payment-service takes an order of one cent or more.  Whether
\* its answer comes within the deadline makes no difference to either service.
Pay(k) ==
  LET it == cart[k]
      upgrade == it.term.tier > 0
      cut == IF it.code = NoCode THEN IF upgrade THEN "credit" ELSE "none"
                                 ELSE IF upgrade THEN "both" ELSE "promo"
  IN
  /\ it.at = "pay"
  /\ it.amount >= 1
  /\ orders' = orders \cup {[plan |-> it.plan, months |-> it.months, code |-> it.code,
                             tier |-> it.term.tier, cut |-> cut, amount |-> it.amount]}
  /\ redeemed' = IF it.code # NoCode /\ it.mode = "plain"
                   THEN [redeemed EXCEPT ![it.code] = @ + 1] ELSE redeemed
  /\ CartGoes(k, Empty)
  /\ UNCHANGED <<promo, form, quotes>>

\* An await fails, or payment-service refuses the amount: the buyer gets an
\* error, and a use that was counted stays counted.
Abandon(k) ==
  /\ cart[k] # Empty
  /\ CartGoes(k, Empty)
  /\ UNCHANGED <<promo, form, orders, redeemed, quotes>>

-------------------------------------------------------------------------------
(* validatePromoCode                                                         *)

\* final_price_cents || planPrice: a price of 0 is shown as the full price.
Shown(c, plan, months) ==
  LET price == Price[plan][months]
      final == Less(price, Discount(promo[c].offer, price))
  IN IF final = 0 THEN price ELSE final

Validate(c, plan, months) ==
  /\ Valid(c, plan, months)
  /\ quotes' = quotes \cup {[plan |-> plan, months |-> months, code |-> c,
                             price |-> Shown(c, plan, months)]}
  /\ UNCHANGED <<promo, cart, form, orders, redeemed>>

-------------------------------------------------------------------------------
(* createPromoCode and deactivatePromoCode                                   *)

FormGoes(f, it) == form' = [form EXCEPT ![f] = it]

SubmitPromo(f, c, offer) ==
  /\ form[f] = Blank
  /\ FormGoes(f, [at |-> "look", code |-> c, offer |-> offer])
  /\ UNCHANGED <<promo, cart, orders, redeemed, quotes>>

SubmitDeactivation(f, c) ==
  /\ form[f] = Blank
  /\ FormGoes(f, [at |-> "check", code |-> c])
  /\ UNCHANGED <<promo, cart, orders, redeemed, quotes>>

\* findByCode of either call.
LookUp(f) ==
  LET c == form[f].code IN
  /\ form[f].at \in {"look", "check"}
  /\ FormGoes(f, IF form[f].at = "look"
                   THEN IF promo[c] = NoPromo THEN [form[f] EXCEPT !.at = "insert"] ELSE Blank
                   ELSE IF promo[c].state = "active" THEN [form[f] EXCEPT !.at = "off"] ELSE Blank)
  /\ UNCHANGED <<promo, cart, orders, redeemed, quotes>>

NewPromo(offer) == [state |-> "active", ends |-> "open", offer |-> offer, used |-> 0]

\* The unique index refuses a code that was inserted meanwhile.
InsertPromo(f) ==
  LET c == form[f].code IN
  /\ form[f].at = "insert"
  /\ promo' = IF promo[c] = NoPromo THEN [promo EXCEPT ![c] = NewPromo(form[f].offer)] ELSE promo
  /\ FormGoes(f, Blank)
  /\ UNCHANGED <<cart, orders, redeemed, quotes>>

DeactivatePromo(f) ==
  /\ form[f].at = "off"
  /\ promo' = [promo EXCEPT ![form[f].code].state = "inactive"]
  /\ FormGoes(f, Blank)
  /\ UNCHANGED <<cart, orders, redeemed, quotes>>

FormFails(f) ==
  /\ form[f] # Blank
  /\ FormGoes(f, Blank)
  /\ UNCHANGED <<promo, cart, orders, redeemed, quotes>>

\* valid_until passes.
PromoEnds(c) ==
  /\ promo[c] # NoPromo
  /\ promo[c].ends = "open"
  /\ promo' = [promo EXCEPT ![c].ends = "over"]
  /\ UNCHANGED <<cart, form, orders, redeemed, quotes>>

-------------------------------------------------------------------------------

Checks(k) ==
  \/ \E plan \in Plans, months \in Months, mode \in Modes :
       \E code \in Codes \cup {NoCode} : OpenCart(k, plan, months, code, mode)
  \/ \E term \in Terms \cup {NoTerm} : FindTerm(k, term)
  \/ Resolve(k) \/ CountUse(k) \/ Pay(k) \/ Abandon(k)

Administers(f) ==
  \/ \E c \in Codes, offer \in Offers : SubmitPromo(f, c, offer)
  \/ \E c \in Codes : SubmitDeactivation(f, c)
  \/ LookUp(f) \/ InsertPromo(f) \/ DeactivatePromo(f) \/ FormFails(f)

CheckoutNext ==
  \/ \E k \in Carts : Checks(k)
  \/ \E f \in Forms : Administers(f)
  \/ \E c \in Codes, plan \in Plans, months \in Months : Validate(c, plan, months)
  \/ \E c \in Codes : PromoEnds(c)

CheckoutSpec == CheckoutInit /\ [][CheckoutNext]_checkoutVars

-------------------------------------------------------------------------------
(* Properties.                                                               *)

\* Checkouts that have seen that the code may be used and have not counted it.
Counting(c) == {k \in Carts : cart[k].at = "count" /\ cart[k].code = c}

Limited(c) == promo[c] # NoPromo /\ promo[c].offer.max > 0

\* The limit of a code gives way by the checkouts that are past its check at
\* one time, and by no more: with N checkouts at a time, a code is counted for
\* at most max_uses + N - 1 of them, whatever fails and however often.
LimitHolds ==
  \A c \in Codes : Limited(c) =>
    promo[c].used + Cardinality(Counting(c)) <= promo[c].offer.max + Cardinality(Carts) - 1

\* Every order that a code was redeemed for, typed as it is stored, is among
\* the uses counted for it.
RedeemedIsCounted ==
  \A c \in Codes : redeemed[c] > 0 => promo[c] # NoPromo /\ redeemed[c] <= promo[c].used

\* Promo codes are used as often as createCheckout's count says, and hardly
\* more often than max_uses allows.
PromoUsesHold == LimitHolds /\ RedeemedIsCounted

\* An order costs between a cent and the price of the plan, and less than the
\* price only for an upgrade or with a code; an upgrade is taken off no more
\* than the old plan costs for the same duration.
Payable(o) ==
  LET price == Price[o.plan][o.months] IN
  /\ o.amount \in 1..price
  /\ o.tier < o.plan
  /\ o.cut = "none" => o.amount = price
  /\ o.cut = "credit" => o.amount >= price - Price[o.tier][o.months]

\* A buyer without a plan pays what validatePromoCode showed for the code, to
\* whomever and whenever it did.
AsShown(o) ==
  \A q \in quotes :
    o.cut = "promo" /\ q.code = o.code /\ q.plan = o.plan /\ q.months = o.months
      => o.amount = q.price

\* createCheckout asks payment-service for what it should.
ChargesHold == \A o \in orders : Payable(o) /\ AsShown(o)
===============================================================================
