------------------------- MODULE FinancialSnapshot -------------------------
(***************************************************************************)
(* The amounts frozen when a booking is inserted: the trigger function     *)
(* create_sandbox_financial_snapshot as migration 0032 leaves it.  All in  *)
(* cents; percentages in basis points.                                     *)
(***************************************************************************)
EXTENDS Integers

CONSTANT NoCoupon  \* the request has no campaign reservation

Bps == 0..10000

\* commercial_rules, whose CHECK bounds the sum of the three shares.
Rules == {r \in [platform : Bps, cashback : Bps, partner : Bps] :
            r.platform + r.cashback + r.partner <= 10000}

\* What campaign_reservations copies from a campaign; max is NULL, and not
\* used, when the discount is fixed.
Coupons == [type : {"fixed", "percentage"}, value : Nat, max : Nat, min : Nat]

\* CreateProposalDto accepts amounts from one real to a hundred thousand.
MinimumAmount == 100
MaximumAmount == 10000000
ListPrices == {n \in Nat : MinimumAmount <= n /\ n <= MaximumAmount}

Entries == {"provider_receivable", "platform_fee", "customer_cashback", "partner_commission"}

Least(a, b) == IF a <= b THEN a ELSE b

\* floor((amount::numeric * bps) / 10000)::integer
Share(amount, bps) == (amount * bps) \div 10000

\* Mutant: a discount may take all there is.
UnboundedDiscount(coupon, price) ==
  IF coupon = NoCoupon THEN 0
  ELSE IF price < coupon.min THEN 0
  ELSE IF coupon.type = "fixed" THEN coupon.value
  ELSE Least(Share(price, coupon.value), coupon.max)

\* A reservation below its minimum gives nothing, and a discount leaves at
\* least one real to pay.
Discount(coupon, price) ==
  IF coupon = NoCoupon THEN 0
  ELSE IF price < coupon.min THEN 0
  ELSE IF coupon.type = "fixed" THEN Least(coupon.value, price - MinimumAmount)
  ELSE Least(Least(Share(price, coupon.value), coupon.max), price - MinimumAmount)

Cut(rule, amount, partnered) == IF partnered THEN Share(amount, rule.partner) ELSE 0

\* Mutant: the commission of the partner is not taken from the provider.
AllocateUnshared(rule, amount, partnered) == [e \in Entries |->
  IF e = "platform_fee" THEN Share(amount, rule.platform)
  ELSE IF e = "customer_cashback" THEN Share(amount, rule.cashback)
  ELSE IF e = "partner_commission" THEN Cut(rule, amount, partnered)
  ELSE amount - Share(amount, rule.platform) - Share(amount, rule.cashback)]

\* The provider receives what the three rounded shares leave.
Allocate(rule, amount, partnered) == [e \in Entries |->
  IF e = "platform_fee" THEN Share(amount, rule.platform)
  ELSE IF e = "customer_cashback" THEN Share(amount, rule.cashback)
  ELSE IF e = "partner_commission" THEN Cut(rule, amount, partnered)
  ELSE amount - Share(amount, rule.platform) - Share(amount, rule.cashback)
              - Cut(rule, amount, partnered)]

\* The sum over the four entries of an intent.
Net(amounts) == amounts["provider_receivable"] + amounts["platform_fee"]
                + amounts["customer_cashback"] + amounts["partner_commission"]

Redemption(coupon, discount) ==
  IF coupon = NoCoupon THEN "none" ELSE IF discount > 0 THEN "redeemed" ELSE "ineligible"

Snapshot(rule, coupon, price, partnered) ==
  LET discount == Discount(coupon, price)
  IN [list |-> price, discount |-> discount, gross |-> price - discount,
      reservation |-> Redemption(coupon, discount),
      allocation |-> Allocate(rule, price - discount, partnered),
      status |-> "authorized"]
=============================================================================
