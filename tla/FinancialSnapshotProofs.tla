---------------------- MODULE FinancialSnapshotProofs ----------------------
(***************************************************************************)
(* What the snapshot of a booking computes, for every rule, reservation    *)
(* and price: the discount leaves something to pay, no allocation is       *)
(* negative, and together they are the gross amount.                       *)
(***************************************************************************)
EXTENDS FinancialSnapshot, TLAPS

\* Integer division by 10000 rounds down.
LEMMA ShareBounds ==
  ASSUME NEW amount \in Nat, NEW bps \in Nat
  PROVE  /\ Share(amount, bps) \in Nat
         /\ 10000 * Share(amount, bps) <= amount * bps
<1>1. amount * bps \in Nat
  OBVIOUS
<1>2. \A n \in Nat : n \div 10000 \in Nat /\ 10000 * (n \div 10000) <= n
  OBVIOUS
<1> QED
  BY <1>1, <1>2 DEF Share

LEMMA ShareType ==
  \A amount, bps \in Nat : Share(amount, bps) \in Nat
BY ShareBounds

\* The CHECK of commercial_rules on the three percentages.
LEMMA RuleShares ==
  ASSUME NEW rule \in Rules
  PROVE  /\ rule.platform \in Nat /\ rule.cashback \in Nat /\ rule.partner \in Nat
         /\ rule.platform + rule.cashback + rule.partner <= 10000
<1>1. /\ rule \in [platform : Bps, cashback : Bps, partner : Bps]
      /\ rule.platform + rule.cashback + rule.partner <= 10000
  BY DEF Rules
<1>2. rule.platform \in Bps /\ rule.cashback \in Bps /\ rule.partner \in Bps
  BY <1>1
<1>3. Bps \subseteq Nat
  BY DEF Bps
<1>4. rule.platform \in Nat /\ rule.cashback \in Nat /\ rule.partner \in Nat
  BY <1>2, <1>3, Zenon
<1> QED
  BY <1>1, <1>4

\* The arithmetic of SharesFit, free of products.
LEMMA SumOfTenThousandths ==
  ASSUME NEW x \in Nat, NEW y \in Nat, NEW z \in Nat, NEW total \in Nat,
         NEW i \in Nat, NEW j \in Nat, NEW k \in Nat,
         x + y + z <= 10000 * total, 10000 * i <= x, 10000 * j <= y, 10000 * k <= z
  PROVE  i + j + k <= total
OBVIOUS

\* Three rounded shares of an amount never exceed it.
LEMMA SharesFit ==
  ASSUME NEW amount \in Nat, NEW p \in Nat, NEW c \in Nat, NEW r \in Nat, p + c + r <= 10000
  PROVE  Share(amount, p) + Share(amount, c) + Share(amount, r) <= amount
<1> DEFINE x == amount * p
           y == amount * c
           z == amount * r
           i == Share(amount, p)
           j == Share(amount, c)
           k == Share(amount, r)
<1>1. x \in Nat /\ y \in Nat /\ z \in Nat
  OBVIOUS
<1>2. x + y + z <= 10000 * amount
  <2>1. x + y + z = amount * (p + c + r)
    OBVIOUS
  <2>2. amount * (p + c + r) <= 10000 * amount
    OBVIOUS
  <2> QED
    BY <1>1, <2>1, <2>2
<1>3. i \in Nat /\ 10000 * i <= x
  BY ShareBounds
<1>4. j \in Nat /\ 10000 * j <= y
  BY ShareBounds
<1>5. k \in Nat /\ 10000 * k <= z
  BY ShareBounds
<1> HIDE DEF x, y, z, i, j, k
<1>6. i + j + k <= amount
  BY <1>1, <1>2, <1>3, <1>4, <1>5, SumOfTenThousandths
<1> QED
  BY <1>6 DEF i, j, k

\* The four allocations of an amount are natural numbers whose sum it is.
THEOREM AllocationsReconcile ==
  ASSUME NEW rule \in Rules, NEW amount \in Nat, NEW partnered \in BOOLEAN
  PROVE  /\ Allocate(rule, amount, partnered) \in [Entries -> Nat]
         /\ Net(Allocate(rule, amount, partnered)) = amount
<1> DEFINE i == Share(amount, rule.platform)
           j == Share(amount, rule.cashback)
           k == Share(amount, rule.partner)
           cut == Cut(rule, amount, partnered)
           a == Allocate(rule, amount, partnered)
<1>1. i \in Nat /\ j \in Nat /\ k \in Nat
  <2>1. rule.platform \in Nat /\ rule.cashback \in Nat /\ rule.partner \in Nat
    BY RuleShares
  <2> QED
    BY <2>1, ShareType, Zenon
<1>2. i + j + k <= amount
  BY RuleShares, SharesFit
<1>3. cut = k \/ cut = 0
  BY DEF Cut
<1>4. /\ a["platform_fee"] = i
      /\ a["customer_cashback"] = j
      /\ a["partner_commission"] = cut
      /\ a["provider_receivable"] = amount - i - j - cut
      /\ a = [e \in Entries |-> a[e]]
  BY DEF Allocate, Entries
<1> HIDE DEF i, j, k, cut, a
<1>5. /\ a["platform_fee"] \in Nat /\ a["customer_cashback"] \in Nat
      /\ a["partner_commission"] \in Nat /\ a["provider_receivable"] \in Nat
  BY <1>1, <1>2, <1>3, <1>4
<1>6. a \in [Entries -> Nat]
  BY <1>4, <1>5 DEF Entries
<1>7. Net(a) = amount
  BY <1>1, <1>3, <1>4 DEF Net
<1> QED
  BY <1>6, <1>7 DEF a

\* A discount is not negative and leaves at least one real.
THEOREM DiscountLeavesMinimum ==
  ASSUME NEW coupon \in Coupons \cup {NoCoupon}, NEW price \in ListPrices
  PROVE  /\ Discount(coupon, price) \in Nat
         /\ price - Discount(coupon, price) \in Nat
         /\ price - Discount(coupon, price) >= MinimumAmount
<1>1. price \in Nat /\ price >= 100
  BY DEF ListPrices, MinimumAmount
<1>2. CASE coupon = NoCoupon
  BY <1>1, <1>2 DEF Discount, MinimumAmount
<1>3. CASE coupon # NoCoupon
  <2>1. coupon.value \in Nat /\ coupon.max \in Nat /\ coupon.min \in Nat
    BY <1>3 DEF Coupons
  <2>2. Share(price, coupon.value) \in Nat
    BY <1>1, <2>1, ShareType, Zenon
  <2> QED
    BY <1>1, <1>3, <2>1, <2>2 DEF Discount, Least, MinimumAmount
<1> QED
  BY <1>2, <1>3
=============================================================================
