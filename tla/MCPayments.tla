------------------------------ MODULE MCPayments ------------------------------
(* Small instances of Payments and Checkout for TLC.  The two share no        *)
(* variables, and a behaviour runs one of them while the other stays where it *)
(* is; of Checkout it runs a few buyers who want one plan, or one buyer who   *)
(* may want any.                                                              *)
EXTENDS Payments, Checkout, TLC

CONSTANTS Parts,      \* of {"payments", "rush", "prices"}
          MaxUsed     \* bound on the uses of a promo code

VARIABLES part

\* Webhook requests are interchangeable: no definition tells one from another.
WebhookSymmetry == Permutations(Webhooks)

\* pricing.config.js without an environment
Grid == [p \in Plans |-> [m \in Months |->
          CASE p = 1 -> (CASE m = 1 ->  999 [] m = 3 ->  2697 [] m = 6 ->  4794 [] m = 12 ->  8388)
            [] p = 2 -> (CASE m = 1 -> 1999 [] m = 3 ->  5397 [] m = 6 ->  9594 [] m = 12 -> 16790)
            [] p = 3 -> (CASE m = 1 -> 3999 [] m = 3 -> 10797 [] m = 6 -> 19194 [] m = 12 -> 33590)]]

\* A code for one use, one for some plans, one that can make a plan free.
Promotions == {[kind |-> "percentage", value |-> 20,   max |-> 1, tiers |-> {},     min |-> 0],
               [kind |-> "percentage", value |-> 150,  max |-> 0, tiers |-> {2, 3}, min |-> 3],
               [kind |-> "fixed",      value |-> 1999, max |-> 2, tiers |-> {},     min |-> 0]}

\* The last hour of a day's trial, a month of Lite, a year of Standard.
Held == {[tier |-> 3, left |-> 1, total |-> 1], [tier |-> 1, left |-> 0, total |-> 30],
         [tier |-> 1, left |-> 30, total |-> 30], [tier |-> 2, left |-> 200, total |-> 365]}

-------------------------------------------------------------------------------

FirstCart == CHOOSE k \in Carts : cart[k] = Empty
FirstForm == CHOOSE f \in Forms : form[f] = Blank
ByUse     == {p \in Promotions : p.kind = "percentage" /\ p.max = 1}

\* Several buyers of one plan with a code, while admins make and end it.
Rush ==
  /\ quotes' = {}
  /\ \A k \in Carts : cart'[k] # Empty =>
       cart'[k].plan = 3 /\ cart'[k].months = 1 /\ cart'[k].term = NoTerm /\ cart'[k].code # NoCode
  /\ \A f \in Forms : form'[f].at \in {"look", "insert"} => form'[f].offer \in ByUse

\* One buyer with any plan and duration, after an answer of validatePromoCode
\* for two of them.
Prices ==
  /\ \A k \in Carts : cart[k] = Empty /\ cart'[k] # Empty =>
       /\ cart = [j \in Carts |-> Empty] /\ orders = {}
       /\ cart'[k].mode = "plain" /\ cart'[k].months # 6
  /\ \A f \in Forms : form[f] = Blank /\ form'[f] # Blank =>
       form = [j \in Forms |-> Blank] \/ promo = [c \in Codes |-> NoPromo]
  /\ \A q \in quotes' : <<q.plan, q.months>> \in {<<1, 1>>, <<3, 3>>}
  /\ Cardinality(quotes') <= 1
  /\ \A c \in Codes : promo'[c] # NoPromo => promo'[c].used <= 1

CheckoutBound ==
  /\ \A k \in Carts : cart[k] = Empty /\ cart'[k] # Empty => k = FirstCart
  /\ \A f \in Forms : form[f] = Blank /\ form'[f] # Blank => f = FirstForm
  /\ \A c \in Codes : redeemed'[c] <= MaxUsed /\ (promo'[c] # NoPromo => promo'[c].used <= MaxUsed)
  /\ Cardinality(orders') <= 1
  /\ IF part = "rush" THEN Rush ELSE Prices

MCInit ==
  /\ part \in Parts
  /\ Init
  /\ CheckoutInit
  /\ part # "payments" => \A o \in Orders : maker[o] = "new" /\ method[o] = "card"

MCNext ==
  /\ UNCHANGED part
  /\ \/ part = "payments" /\ Next /\ UNCHANGED checkoutVars
     \/ part # "payments" /\ CheckoutNext /\ CheckoutBound /\ UNCHANGED vars

\* The state is one of the program's, in both.
TypesOK == TypeOK /\ CheckoutTypeOK

MCSpec == MCInit /\ [][MCNext]_<<vars, checkoutVars, part>> /\ Fairness
===============================================================================
