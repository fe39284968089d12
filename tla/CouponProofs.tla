---------------------------- MODULE CouponProofs ----------------------------
(* The search for the cheapest order, for every menu, every set of coupons,  *)
(* every price, every budget and every number of pages: the two pointers end *)
(* with the cheapest pair; what is offered for a coupon is the cheapest that *)
(* may be ordered with it; so the winner is the least of all totals, and its *)
(* breakdown is that of an offer.                                            *)
EXTENDS Coupons, FiniteSetTheorems, FunctionTheorems, SequenceTheorems,
        WellFoundedInduction, TLAPS

(* The sequence that is searched, wherever the search stands.                *)
Sorted(s) == \A p, q \in DOMAIN s : p < q => s[p].price <= s[q].price

InputOK == /\ menu \in Seq(FillerCandidate) /\ cart \in CartType
           /\ coupons \subseteq CouponType /\ todo \subseteq CouponType
           /\ fillers \in Seq(FillerCandidate) /\ Sorted(fillers)

(* What the pointers have passed holds no better pair than the one kept.     *)
FoundPair ==
  bestPair = NoPair \/ \E p, q \in DOMAIN fillers :
    p < q /\ bestPair = [itemIds |-> {fillers[p].itemId, fillers[q].itemId},
                        totalPrice |-> PairPrice(p, q)]

Passed ==
  \A p, q \in DOMAIN fillers :
    p < q /\ ~(i <= p /\ q <= j) /\ PairPrice(p, q) >= gap(current) =>
      bestPair # NoPair /\ bestPair.totalPrice <= PairPrice(p, q)

ScanInv ==
  phase = "scan" =>
    /\ current \in CouponType
    /\ i \in Nat \ {0} /\ j \in 0..Len(fillers)
    /\ FoundPair /\ Passed

PairInv == InputOK /\ ScanInv

(* The candidates that are kept are finitely many, so they can be sorted.    *)
LEMMA KeptFinite == ASSUME InputOK PROVE IsFiniteSet(Kept) /\ Kept \subseteq FillerCandidate
<1> DEFINE First == {k \in 1..Len(menu) :
                       \A l \in 1..(k - 1) : menu[l].itemId # menu[k].itemId}
           f == [k \in First |-> menu[k]]
<1>1. Len(menu) \in Nat BY DEF InputOK
<1>2. IsFiniteSet(First)
  <2>1. IsFiniteSet(1..Len(menu)) BY <1>1, FS_Interval
  <2> QED BY <2>1, FS_Subset
<1>3. Deduped = {menu[k] : k \in First} BY DEF Deduped
<1> HIDE DEF First
<1>4. f \in Surjection(First, Deduped) BY <1>3 DEF Surjection
<1>5. IsFiniteSet(Deduped) BY <1>2, <1>4, FS_Surjection
<1>6. Deduped \subseteq FillerCandidate
  BY <1>1 DEF Deduped, InputOK
<1>7. Kept \in SUBSET Deduped BY DEF Kept
<1> QED BY <1>5, <1>6, <1>7, FS_Subset

(* What prepareFillerCandidates leaves is sorted by price.                   *)
LEMMA SortedFillers ==
  ASSUME InputOK, NEW s \in Ascending(Kept)
  PROVE  s \in Seq(FillerCandidate) /\ Sorted(s)
<1>1. Cardinality(Kept) \in Nat BY KeptFinite, FS_CardinalityType
<1>2. s \in [1..Cardinality(Kept) -> FillerCandidate] BY KeptFinite DEF Ascending
<1>3. s \in Seq(FillerCandidate) BY <1>1, <1>2, SeqDef
<1>4. Sorted(s) BY DEF Ascending, Sorted
<1> QED BY <1>3, <1>4

(* The price of a filler is a number of paise.                               *)
LEMMA PriceIs ==
  ASSUME InputOK, NEW p \in DOMAIN fillers
  PROVE  fillers[p].price \in Nat
<1>1. fillers[p] \in FillerCandidate BY DEF InputOK
<1> QED BY <1>1 DEF FillerCandidate

(* What a coupon's minimum is above the cart is a number.                    *)
LEMMA GapIs == ASSUME InputOK, NEW c \in CouponType PROVE gap(c) \in Int
BY DEF gap, InputOK, CouponType, CartType

(* A turn of the loop passes only pairs that are no better.                  *)
LEMMA TurnKeeps == ASSUME PairInv, ScanStep PROVE PairInv'
<1> USE DEF PairInv
<1> DEFINE sum == PairPrice(i, j)
<1>1. InputOK' BY DEF InputOK, ScanStep, fetchVars
<1>2. /\ current \in CouponType /\ FoundPair /\ Passed
      /\ i \in Nat \ {0} /\ j \in 0..Len(fillers) /\ i < j
      /\ UNCHANGED <<fillers, current, cart>> /\ phase' = "scan"
  BY DEF ScanInv, ScanStep, fetchVars
<1>3. DOMAIN fillers = 1..Len(fillers) /\ Len(fillers) \in Nat
  BY DEF InputOK
<1>4. i \in DOMAIN fillers /\ j \in DOMAIN fillers BY <1>2, <1>3
<1>5. /\ gap(current) \in Int
      /\ \A p, q \in DOMAIN fillers : PairPrice(p, q) \in Nat
  BY <1>2, GapIs, PriceIs DEF PairPrice
<1>6. Pair.totalPrice = sum /\ Pair # NoPair
  BY DEF Pair, PairPrice, NoPair
<1>7. gap(current)' = gap(current) /\ \A p, q : PairPrice(p, q)' = PairPrice(p, q)
  BY <1>2 DEF gap, PairPrice
<1>8. CASE sum >= gap(current)
  <2>1. /\ bestPair' = IF bestPair = NoPair \/ sum < bestPair.totalPrice
                       THEN Pair ELSE bestPair
        /\ j' = j - 1 /\ i' = i
    BY <1>6, <1>8 DEF ScanStep
  <2>2. bestPair # NoPair => bestPair.totalPrice \in Nat
    BY <1>2, <1>5 DEF FoundPair
  <2>3. FoundPair' BY <1>2, <1>4, <1>7, <2>1 DEF FoundPair, Pair, PairPrice
  <2>4. /\ bestPair' # NoPair /\ bestPair'.totalPrice <= sum
        /\ bestPair # NoPair => bestPair'.totalPrice <= bestPair.totalPrice
    BY <1>4, <1>5, <1>6, <2>1, <2>2
  <2>5. bestPair'.totalPrice \in Nat BY <1>4, <1>5, <1>6, <2>1, <2>2
  <2>6. ASSUME NEW p \in DOMAIN fillers, NEW q \in DOMAIN fillers,
               p < q, ~(i <= p /\ q <= j - 1), PairPrice(p, q) >= gap(current)
        PROVE  bestPair'.totalPrice <= PairPrice(p, q)
    <3>1. CASE ~(i <= p /\ q <= j)
      <4>1. bestPair # NoPair /\ bestPair.totalPrice <= PairPrice(p, q)
        BY <1>2, <2>6, <3>1 DEF Passed
      <4> QED BY <1>5, <2>2, <2>4, <2>5, <4>1
    <3>2. CASE i <= p /\ q <= j
      <4>1. q = j /\ p \in Nat BY <1>2, <1>3, <2>6, <3>2
      <4>2. fillers[i].price <= fillers[p].price
        BY <1>2, <1>3, <1>4, <3>2, <4>1, PriceIs DEF InputOK, Sorted
      <4>3. sum <= PairPrice(p, q)
        BY <1>4, <4>1, <4>2, PriceIs DEF PairPrice
      <4> QED BY <1>4, <1>5, <2>4, <2>5, <4>3
    <3> QED BY <3>1, <3>2
  <2>7. Passed' BY <1>2, <1>7, <2>1, <2>4, <2>6 DEF Passed
  <2>8. j' \in 0..Len(fillers) BY <1>2, <1>3, <2>1
  <2> QED BY <1>1, <1>2, <2>1, <2>3, <2>7, <2>8 DEF ScanInv
<1>9. CASE ~(sum >= gap(current))
  <2>1. i' = i + 1 /\ UNCHANGED <<j, bestPair>> BY <1>6, <1>9 DEF ScanStep
  <2>2. FoundPair' BY <1>2, <1>7, <2>1 DEF FoundPair
  <2>3. ASSUME NEW p \in DOMAIN fillers, NEW q \in DOMAIN fillers,
               p < q, ~(i + 1 <= p /\ q <= j), PairPrice(p, q) >= gap(current)
        PROVE  ~(i <= p /\ q <= j)
    <3> SUFFICES ASSUME i <= p, q <= j PROVE FALSE OBVIOUS
    <3>1. p = i BY <1>2, <1>3, <2>3
    <3>2. fillers[q].price <= fillers[j].price
      BY <1>2, <1>3, <1>4, PriceIs DEF InputOK, Sorted
    <3>3. PairPrice(p, q) <= sum BY <1>4, <3>1, <3>2, PriceIs DEF PairPrice
    <3> QED BY <1>4, <1>5, <1>9, <2>3, <3>3
  <2>4. Passed' BY <1>2, <1>7, <2>1, <2>3 DEF Passed
  <2> QED BY <1>1, <1>2, <2>1, <2>2, <2>4 DEF ScanInv
<1> QED BY <1>8, <1>9

(* The search begins with all pairs before it.                               *)
LEMMA StartKeeps ==
  ASSUME PairInv, NEW c \in todo, StartScan(c) PROVE PairInv'
<1> USE DEF PairInv
<1>1. InputOK' BY DEF InputOK, StartScan, fetchVars
<1>2. UNCHANGED fillers /\ Len(fillers) \in Nat /\ DOMAIN fillers = 1..Len(fillers)
  BY DEF StartScan, InputOK
<1>3. current' = c /\ i' = 1 /\ j' = Len(fillers) /\ bestPair' = NoPair
  BY DEF StartScan
<1>4. c \in CouponType BY DEF InputOK
<1>5. FoundPair' BY <1>3 DEF FoundPair
<1>6. Passed' BY <1>2, <1>3 DEF Passed
<1> QED BY <1>1, <1>2, <1>3, <1>4, <1>5, <1>6 DEF ScanInv

(* Every step keeps what the search has passed.                              *)
LEMMA PairStep == ASSUME PairInv, [Next]_couponVars PROVE PairInv'
<1> USE DEF PairInv, scanVars, fetchVars
<1>1. CASE FetchCoupons
  BY <1>1, CouponConstants DEF FetchCoupons, InputOK, ScanInv
<1>2. CASE FetchMenuPage
  <2>1. PICK p \in Pages : menu' = menu \o p BY <1>2 DEF FetchMenuPage
  <2>2. menu' \in Seq(FillerCandidate)
    BY <2>1, CouponConstants, ConcatProperties DEF InputOK
  <2> QED BY <1>2, <2>2 DEF FetchMenuPage, InputOK, ScanInv
<1>3. CASE MenuEnds \/ NothingToSave
  BY <1>3 DEF MenuEnds, NothingToSave, InputOK, ScanInv
<1>4. CASE PrepareFillerCandidates
  <2>1. fillers' \in Seq(FillerCandidate) /\ Sorted(fillers')
    BY <1>4, SortedFillers DEF PrepareFillerCandidates
  <2> QED BY <1>4, <2>1 DEF PrepareFillerCandidates, InputOK, ScanInv
<1>5. ASSUME NEW c \in todo, RejectCoupon(c) \/ UseOnCart(c) \/ UseWithFiller(c)
      PROVE  PairInv'
  BY <1>5 DEF RejectCoupon, UseOnCart, UseWithFiller, Offer, InputOK, ScanInv
<1>6. ASSUME NEW c \in todo, StartScan(c) PROVE PairInv' BY <1>6, StartKeeps
<1>7. CASE ScanStep BY <1>7, TurnKeeps
<1>8. CASE ScanEnds BY <1>8 DEF ScanEnds, Offer, InputOK, ScanInv
<1>9. CASE SelectWinner BY <1>9 DEF SelectWinner, InputOK, ScanInv
<1>10. CASE Publish BY <1>10 DEF Publish, InputOK, ScanInv
<1>11. CASE UNCHANGED couponVars
  BY <1>11 DEF couponVars, InputOK, ScanInv, FoundPair, Passed, PairPrice, gap
<1> QED BY <1>1, <1>2, <1>3, <1>4, <1>5, <1>6, <1>7, <1>8, <1>9, <1>10, <1>11
    DEF Next, Compute, Consider

(* The two pointers, which try one pair per step, end with the cheapest of   *)
(* all pairs that close the gap.                                             *)
THEOREM CheapestPairFound == Spec => []ScanFindsCheapestPair
<1>1. Init => PairInv
  BY CouponConstants DEF Init, PairInv, InputOK, ScanInv, Sorted
<1>2. PairInv /\ [Next]_couponVars => PairInv' BY PairStep
<1>3. PairInv => ScanFindsCheapestPair
  <2> SUFFICES ASSUME PairInv, phase = "scan", i >= j
               PROVE  /\ FoundPair
                      /\ \A p, q \in DOMAIN fillers :
                           p < q /\ PairPrice(p, q) >= gap(current) =>
                             /\ bestPair # NoPair
                             /\ bestPair.totalPrice <= PairPrice(p, q)
    BY DEF ScanFindsCheapestPair, FoundPair
  <2>1. /\ FoundPair /\ Passed /\ i \in Nat /\ j \in Nat
        /\ DOMAIN fillers \subseteq Nat
    BY DEF PairInv, ScanInv, InputOK
  <2> QED BY <2>1 DEF Passed
<1> QED BY <1>1, <1>2, <1>3, PTL DEF Spec

-----------------------------------------------------------------------------
(* The types, and where in its life a call fetches and considers.            *)
Fits(w) == \/ w = Baseline
           \/ w.total < cart.baseTotal /\ w.total <= cart.remainingDailyBudget

AtItsTime ==
  /\ phase = "coupons" => todo = {} /\ page = 1
  /\ phase = "menu" => page <= MAX_MENU_PAGES

TypeInv == PairInv /\ TypeOK /\ AtItsTime

(* A contender that is offered fits, and those there were before still do.   *)
LEMMA OfferFits ==
  ASSUME NEW c, NEW amount, NEW added, Offer(c, amount, added),
         UNCHANGED cart, \A w \in contenders : Fits(w)
  PROVE  (\A w \in contenders : Fits(w))' /\ todo' = todo \ {c}
<1> DEFINE t == amount - discount(amount, c)
           new == [couponCode |-> c.code, total |-> t, fillersAdded |-> added]
<1>1. /\ todo' = todo \ {c}
      /\ contenders' = contenders \union
           (IF t < cart.baseTotal /\ t <= cart.remainingDailyBudget THEN {new} ELSE {})
  BY DEF Offer
<1>2. new.total = t OBVIOUS
<1> HIDE DEF t, new
<1>3. \A w \in contenders' : Fits(w) BY <1>1, <1>2 DEF Fits
<1>4. \A w : Fits(w)' <=> Fits(w) BY DEF Fits, Baseline
<1> QED BY <1>1, <1>3, <1>4

(* Every step keeps the types.                                               *)
LEMMA TypeStep == ASSUME TypeInv, [Next]_couponVars PROVE TypeInv'
<1> USE DEF TypeInv
<1>0. PairInv' BY PairStep
<1>a. /\ menu' \in Seq(FillerCandidate) /\ fillers' \in Seq(FillerCandidate)
      /\ Len(fillers) \in Nat
  BY <1>0 DEF PairInv, InputOK
<1>b. TypeOK /\ AtItsTime /\ \A w \in contenders : Fits(w)
  BY DEF TypeOK, Fits
<1>c. MAX_MENU_PAGES \in Nat \ {0} BY CouponConstants
<1> USE DEF scanVars, fetchVars
<1>1. CASE FetchCoupons
  BY <1>1, <1>a, <1>b, <1>c, <1>0
  DEF FetchCoupons, TypeOK, AtItsTime, gap, Baseline
<1>2. CASE FetchMenuPage
  <2>1. page' = page + 1 /\ page' \in 1..(MAX_MENU_PAGES + 1)
        /\ (phase' = "menu" => page' <= MAX_MENU_PAGES)
        /\ phase' \in {"menu", "prepare"} /\ page \in 1..(MAX_MENU_PAGES + 1)
    BY <1>2, <1>b, <1>c DEF FetchMenuPage, TypeOK, AtItsTime
  <2>2. UNCHANGED <<cart, coupons, todo, fillers, contenders, winner, scanVars>>
    BY <1>2 DEF FetchMenuPage
  <2> QED BY <2>1, <2>2, <1>0, <1>a, <1>b DEF TypeOK, AtItsTime, gap, Baseline
<1>3. CASE MenuEnds \/ NothingToSave \/ SelectWinner \/ Publish
  <2>1. /\ phase' \in {"prepare", "publish", "thrown", "answered"}
        /\ UNCHANGED <<todo, fillers, contenders, scanVars, fetchVars>>
    BY <1>3 DEF MenuEnds, NothingToSave, SelectWinner, Publish
  <2> QED BY <2>1, <1>0, <1>b DEF TypeOK, AtItsTime, gap, Baseline
<1>4. CASE PrepareFillerCandidates
  BY <1>4, <1>a, <1>b, <1>0
  DEF PrepareFillerCandidates, TypeOK, AtItsTime, gap, Baseline
<1>5. ASSUME NEW c \in todo, RejectCoupon(c) PROVE TypeInv'
  BY <1>5, <1>a, <1>b, <1>0 DEF RejectCoupon, TypeOK, AtItsTime, gap, Baseline
<1>6. ASSUME NEW c \in todo, UseOnCart(c) \/ UseWithFiller(c) PROVE TypeInv'
  <2>1. /\ phase = "consider"
        /\ UNCHANGED <<phase, fillers, winner, scanVars, fetchVars>>
    BY <1>6 DEF UseOnCart, UseWithFiller
  <2>2. PICK amount, added : Offer(c, amount, added)
    BY <1>6 DEF UseOnCart, UseWithFiller
  <2>3. (\A w \in contenders : Fits(w))' /\ todo' = todo \ {c}
    BY <1>b, <2>1, <2>2, OfferFits
  <2> QED BY <2>1, <2>3, <1>0, <1>b DEF TypeOK, Fits, AtItsTime, gap
<1>7. ASSUME NEW c \in todo, StartScan(c) PROVE TypeInv'
  BY <1>7, <1>a, <1>b, <1>0 DEF StartScan, TypeOK, AtItsTime, gap, Baseline
<1>8. CASE ScanStep
  <2>1. /\ phase = "scan" /\ phase' = "scan" /\ i < j
        /\ UNCHANGED <<todo, fillers, contenders, current, fetchVars>>
    BY <1>8 DEF ScanStep
  <2>2. i \in 1..(j + 1) /\ j \in 0..Len(fillers) BY <1>b, <2>1 DEF TypeOK
  <2>3. i' \in 1..(j' + 1) /\ j' \in 0..Len(fillers)
    <3>1. (i' = i /\ j' = j - 1) \/ (i' = i + 1 /\ j' = j) BY <1>8 DEF ScanStep
    <3> QED BY <1>a, <2>1, <2>2, <3>1
  <2>4. bestPair' # NoPair => bestPair'.totalPrice >= gap(current)
    BY <1>8, <1>b DEF ScanStep, TypeOK
  <2> QED BY <2>1, <2>3, <2>4, <1>0, <1>b DEF TypeOK, AtItsTime, gap, Baseline
<1>9. CASE ScanEnds
  <2>1. phase' = "consider" /\ UNCHANGED <<fillers, winner, scanVars, fetchVars>>
    BY <1>9 DEF ScanEnds
  <2>2. (\A w \in contenders : Fits(w))' /\ todo' = todo \ {current}
    <3>1. CASE bestPair = NoPair
      BY <1>9, <1>b, <2>1, <3>1 DEF ScanEnds, Fits, Baseline
    <3>2. CASE bestPair # NoPair
      <4>1. PICK amount, added : Offer(current, amount, added)
        BY <1>9, <3>2 DEF ScanEnds
      <4> QED BY <1>b, <2>1, <4>1, OfferFits
    <3> QED BY <3>1, <3>2
  <2> QED BY <2>1, <2>2, <1>0, <1>b DEF TypeOK, Fits, AtItsTime, gap
<1>10. CASE UNCHANGED couponVars
  BY <1>10, <1>b, <1>0 DEF couponVars, TypeOK, AtItsTime, gap, Baseline
<1> QED
  BY <1>1, <1>2, <1>3, <1>4, <1>5, <1>6, <1>7, <1>8, <1>9, <1>10 DEF Next, Compute, Consider

(* The variables have their types through the whole call; the pointers stay  *)
(* within the fillers, the pair that is kept closes the gap, and a contender *)
(* is within the budget.                                                     *)
THEOREM TypeCorrect == Spec => []TypeOK
<1>1. Init => TypeInv
  BY CouponConstants
  DEF Init, TypeInv, PairInv, InputOK, ScanInv, Sorted, TypeOK, AtItsTime
<1>2. TypeInv /\ [Next]_couponVars => TypeInv' BY TypeStep
<1>3. TypeInv => TypeOK BY DEF TypeInv
<1> QED BY <1>1, <1>2, <1>3, PTL DEF Spec

(* Floor division, bounded.                                                  *)
LEMMA DivIs ==
  ASSUME NEW x \in Nat
  PROVE  /\ x \div 100 \in Nat /\ 100 * (x \div 100) <= x
         /\ x < 100 * (x \div 100) + 100
OBVIOUS

(* The percentage taken off grows no faster than the amount.                 *)
LEMMA PercentGrows ==
  ASSUME NEW a \in Nat, NEW b \in Nat, a <= b, NEW v \in Nat, v <= 100
  PROVE  /\ (a * v) \div 100 \in Nat /\ (a * v) \div 100 <= a
         /\ (b * v) \div 100 - (a * v) \div 100 <= b - a
<1>1. PICK d \in Nat : b = a + d
  <2>1. b - a \in Nat /\ b = a + (b - a) OBVIOUS
  <2>2. QED BY <2>1
<1>2. a * v \in Nat /\ b * v \in Nat /\ d * v \in Nat OBVIOUS
<1>3. b * v = a * v + d * v BY <1>1
<1>4. d * v <= d * 100 /\ a * v <= a * 100
  <2>1. 100 - v \in Nat OBVIOUS
  <2>2. PICK u \in Nat : v + u = 100 BY <2>1
  <2>3. d * u \in Nat /\ a * u \in Nat OBVIOUS
  <2>4. d * 100 = d * v + d * u /\ a * 100 = a * v + a * u BY <2>2
  <2>5. QED BY <2>3, <2>4, <1>2
<1>5. PICK x \in Nat : x = a * v BY <1>2
<1>6. PICK y \in Nat : y = b * v BY <1>2
<1>7. y <= x + 100 * d /\ x <= 100 * a BY <1>2, <1>3, <1>4, <1>5, <1>6
<1>8. y \div 100 - x \div 100 <= d /\ x \div 100 <= a /\ x \div 100 \in Nat
  BY <1>7, DivIs
<1>9. QED BY <1>1, <1>5, <1>6, <1>8

(* No coupon takes off more than the order costs, unless its percentage is   *)
(* above 100; and then ordering for less never costs more with the coupon.   *)
LEMMA CheaperIsCheaper ==
  ASSUME NEW c \in CouponType, AtMostAll(c), NEW a \in Nat, NEW b \in Nat, a <= b
  PROVE  /\ a - discount(a, c) \in Nat /\ b - discount(b, c) \in Nat
         /\ a - discount(a, c) <= b - discount(b, c)
<1>1. /\ c.discountValue \in Nat /\ c.maxDiscount \in Nat \union {NoCap}
      /\ c.discountType \in {"flat", "percentage"}
  BY DEF CouponType
<1>2. CASE c.discountType = "flat"
  <2>1. /\ discount(a, c) = Least(c.discountValue, a)
        /\ discount(b, c) = Least(c.discountValue, b)
    BY <1>2 DEF discount
  <2>2. QED BY <1>1, <2>1 DEF Least
<1>3. CASE c.discountType = "percentage"
  <2>1. PICK v \in Nat : v = c.discountValue BY <1>1
  <2>2. v <= 100 BY <1>3, <2>1 DEF AtMostAll
  <2>3. PICK x : x = (a * v) \div 100 OBVIOUS
  <2>4. PICK y : y = (b * v) \div 100 OBVIOUS
  <2>5. x \in Nat /\ x <= a /\ y \in Nat /\ y <= b /\ y - x <= b - a
    BY <2>2, <2>3, <2>4, PercentGrows
  <2>6. /\ discount(a, c) = IF c.maxDiscount = NoCap THEN x ELSE Least(x, c.maxDiscount)
        /\ discount(b, c) = IF c.maxDiscount = NoCap THEN y ELSE Least(y, c.maxDiscount)
    BY <1>3, <2>1, <2>3, <2>4 DEF discount
  <2>7. QED BY <1>1, <2>5, <2>6 DEF Least
<1>4. QED BY <1>1, <1>2, <1>3

-----------------------------------------------------------------------------
(* Sums of few.  The element that a fold takes first, and the function by    *)
(* which it is defined.                                                      *)
Pick(S) == CHOOSE x \in S : TRUE
Adds(f, cost, S) ==
  f = [s \in SUBSET S |-> IF s = {} THEN 0 ELSE cost[Pick(s)] + f[s \ {Pick(s)}]]

(* There is such a function for a set of at most two.                        *)
LEMMA AddsExists ==
  ASSUME NEW S, NEW a, NEW b, S \subseteq {a, b}, NEW cost, \A x \in S : cost[x] \in Nat
  PROVE  \E f : Adds(f, cost, S)
<1> DEFINE one(s) == IF s = {} THEN 0 ELSE cost[Pick(s)]
           g == [s \in SUBSET S |-> IF s = {} THEN 0 ELSE cost[Pick(s)] + one(s \ {Pick(s)})]
<1>1. ASSUME NEW s \in SUBSET S, s # {}
      PROVE  g[s \ {Pick(s)}] = one(s \ {Pick(s)})
  <2>1. Pick(s) \in s BY <1>1 DEF Pick
  <2>2. PICK r \in SUBSET S : r = s \ {Pick(s)} OBVIOUS
  <2>3. r = {} \/ \E x \in S : r = {x} BY <2>1, <2>2
  <2>4. CASE r = {} BY <2>2, <2>4
  <2>5. CASE \E x \in S : r = {x}
    <3>1. PICK x \in S : r = {x} BY <2>5
    <3>2. Pick(r) = x /\ r # {} /\ r \ {Pick(r)} = {} BY <3>1 DEF Pick
    <3>3. g[r] = cost[x] + one({}) BY <3>2
    <3>4. one({}) = 0 /\ one(r) = cost[x] BY <3>2
    <3>5. cost[x] \in Nat OBVIOUS
    <3> HIDE DEF g, one
    <3>6. QED BY <2>2, <3>3, <3>4, <3>5
  <2>6. QED BY <2>3, <2>4, <2>5
<1>2. \A s \in SUBSET S :
        (IF s = {} THEN 0 ELSE cost[Pick(s)] + one(s \ {Pick(s)}))
          = (IF s = {} THEN 0 ELSE cost[Pick(s)] + g[s \ {Pick(s)}])
  <2> HIDE DEF g, one
  <2>1. QED BY <1>1
<1>3. g = [s \in SUBSET S |-> IF s = {} THEN 0 ELSE cost[Pick(s)] + one(s \ {Pick(s)})]
  OBVIOUS
<1>4. Adds(g, cost, S)
  <2> HIDE DEF g, one
  <2>1. QED BY <1>2, <1>3 DEF Adds
<1>5. QED BY <1>4

(* What adding up means for nothing, one thing and two.                      *)
NatCosts(cost, S) == \A x \in S : cost[x] \in Nat
SumsUp(f, cost, S) ==
  /\ f[{}] = 0
  /\ \A x \in S : f[{x}] = cost[x]
  /\ \A x, y \in S : x # y => f[{x, y}] = cost[x] + cost[y]

(* Every such function adds up one and two costs.                            *)
LEMMA AddsUp ==
  ASSUME NEW S, NEW cost, NatCosts(cost, S), NEW f, Adds(f, cost, S)
  PROVE  SumsUp(f, cost, S)
<1> USE DEF NatCosts, SumsUp
<1>0. \A s \in SUBSET S :
        f[s] = IF s = {} THEN 0 ELSE cost[Pick(s)] + f[s \ {Pick(s)}]
  BY DEF Adds
<1>1. f[{}] = 0 BY <1>0
<1>2. ASSUME NEW x \in S PROVE f[{x}] = cost[x]
  <2>1. Pick({x}) = x /\ {x} \ {x} = {} BY DEF Pick
  <2>2. f[{x}] = cost[x] + f[{}] BY <1>0, <2>1
  <2>3. QED BY <1>1, <2>2
<1>3. ASSUME NEW x \in S, NEW y \in S, x # y PROVE f[{x, y}] = cost[x] + cost[y]
  <2>1. Pick({x, y}) \in {x, y} BY DEF Pick
  <2>2. {x, y} \ {x} = {y} /\ {x, y} \ {y} = {x} BY <1>3
  <2>3. CASE Pick({x, y}) = x
    <3>1. f[{x, y}] = cost[x] + f[{y}] BY <1>0, <2>2, <2>3
    <3>2. QED BY <1>2, <3>1
  <2>4. CASE Pick({x, y}) = y
    <3>1. f[{x, y}] = cost[y] + f[{x}] BY <1>0, <2>2, <2>4
    <3>2. QED BY <1>2, <3>1
  <2>5. QED BY <2>1, <2>3, <2>4
<1>4. QED BY <1>1, <1>2, <1>3

(* The sums that the model takes: of prices, and of listed prices.           *)
Priced(f, S) ==
  f = [s \in SUBSET S |-> IF s = {} THEN 0 ELSE Pick(s).price + f[s \ {Pick(s)}]]
PriceSum(S) == MapThenSumSet(LAMBDA x : x.price, S)
Listed(f, S) ==
  f = [s \in SUBSET S |-> IF s = {} THEN 0 ELSE ListedPrice(Pick(s)) + f[s \ {Pick(s)}]]
ListedSum(S) == MapThenSumSet(ListedPrice, S)

(* A sum of prices is a sum of costs,                                        *)
LEMMA PricedIsAdds ==
  ASSUME NEW S, NEW cost, cost = [x \in S |-> x.price], NEW f
  PROVE  Priced(f, S) <=> Adds(f, cost, S)
<1>1. \A s \in SUBSET S : s # {} => Pick(s) \in S BY DEF Pick
<1>2. [s \in SUBSET S |-> IF s = {} THEN 0 ELSE Pick(s).price + f[s \ {Pick(s)}]]
        = [s \in SUBSET S |-> IF s = {} THEN 0 ELSE cost[Pick(s)] + f[s \ {Pick(s)}]]
  BY <1>1
<1>3. QED BY <1>2 DEF Priced, Adds

(* and so is a sum of listed prices.                                         *)
LEMMA ListedIsAdds ==
  ASSUME NEW S, NEW cost, cost = [x \in S |-> ListedPrice(x)], NEW f
  PROVE  Listed(f, S) <=> Adds(f, cost, S)
<1>1. \A s \in SUBSET S : s # {} => Pick(s) \in S BY DEF Pick
<1>2. [s \in SUBSET S |-> IF s = {} THEN 0 ELSE ListedPrice(Pick(s)) + f[s \ {Pick(s)}]]
        = [s \in SUBSET S |-> IF s = {} THEN 0 ELSE cost[Pick(s)] + f[s \ {Pick(s)}]]
  BY <1>1
<1>3. QED BY <1>2 DEF Listed, Adds

(* The price of nothing, of one filler and of two.                           *)
LEMMA PriceSumIs ==
  ASSUME NEW S, NEW a, NEW b, S = {} \/ S = {a} \/ (S = {a, b} /\ a # b),
         \A x \in S : x.price \in Nat
  PROVE  /\ S = {} => PriceSum(S) = 0
         /\ S = {a} => PriceSum(S) = a.price
         /\ S = {a, b} /\ a # b => PriceSum(S) = a.price + b.price
<1>1. PICK cost : cost = [x \in S |-> x.price] OBVIOUS
<1>2. \A x \in S : cost[x] = x.price /\ cost[x] \in Nat BY <1>1
<1>3. \E f : Adds(f, cost, S) BY <1>2, AddsExists
<1>4. PICK t : t = CHOOSE f : Priced(f, S) OBVIOUS
<1>5. Priced(t, S) BY <1>1, <1>3, <1>4, PricedIsAdds
<1>6. Adds(t, cost, S) BY <1>1, <1>5, PricedIsAdds
<1>7. PriceSum(S) = t[S]
  BY <1>4 DEF PriceSum, MapThenSumSet, MapThenFoldSet, Priced, Pick
<1>8. /\ t[{}] = 0 /\ \A x \in S : t[{x}] = cost[x]
      /\ \A x, y \in S : x # y => t[{x, y}] = cost[x] + cost[y]
  <2>1. NatCosts(cost, S) BY <1>2 DEF NatCosts
  <2>2. SumsUp(t, cost, S) BY <1>6, <2>1, AddsUp
  <2>3. QED BY <2>2 DEF SumsUp
<1>9. S = {} => PriceSum(S) = 0 BY <1>7, <1>8
<1>10. S = {a} => PriceSum(S) = a.price
  <2>1. CASE S = {a} BY <1>2, <1>7, <1>8, <2>1
  <2>2. QED BY <2>1
<1>11. S = {a, b} /\ a # b => PriceSum(S) = a.price + b.price
  <2>1. CASE S = {a, b} /\ a # b
    <3>1. a \in S /\ b \in S BY <2>1
    <3>2. t[{a, b}] = cost[a] + cost[b] BY <1>8, <2>1, <3>1
    <3>3. QED BY <1>2, <1>7, <2>1, <3>1, <3>2
  <2>2. QED BY <2>1
<1>12. QED BY <1>9, <1>10, <1>11

(* The listed price of nothing, of one filler and of two.                    *)
LEMMA ListedSumIs ==
  ASSUME NEW S, NEW a, NEW b, S = {} \/ S = {a} \/ (S = {a, b} /\ a # b),
         \A x \in S : ListedPrice(x) \in Nat
  PROVE  /\ S = {} => ListedSum(S) = 0
         /\ S = {a} => ListedSum(S) = ListedPrice(a)
         /\ S = {a, b} /\ a # b => ListedSum(S) = ListedPrice(a) + ListedPrice(b)
<1>1. PICK cost : cost = [x \in S |-> ListedPrice(x)] OBVIOUS
<1>2. \A x \in S : cost[x] = ListedPrice(x) /\ cost[x] \in Nat BY <1>1
<1>3. \E f : Adds(f, cost, S) BY <1>2, AddsExists
<1>4. PICK t : t = CHOOSE f : Listed(f, S) OBVIOUS
<1>5. Listed(t, S) BY <1>1, <1>3, <1>4, ListedIsAdds
<1>6. Adds(t, cost, S) BY <1>1, <1>5, ListedIsAdds
<1>7. ListedSum(S) = t[S]
  BY <1>4 DEF ListedSum, MapThenSumSet, MapThenFoldSet, Listed, Pick
<1>8. /\ t[{}] = 0 /\ \A x \in S : t[{x}] = cost[x]
      /\ \A x, y \in S : x # y => t[{x, y}] = cost[x] + cost[y]
  <2>1. NatCosts(cost, S) BY <1>2 DEF NatCosts
  <2>2. SumsUp(t, cost, S) BY <1>6, <2>1, AddsUp
  <2>3. QED BY <2>2 DEF SumsUp
<1>9. S = {} => ListedSum(S) = 0 BY <1>7, <1>8
<1>10. S = {a} => ListedSum(S) = ListedPrice(a)
  <2>1. CASE S = {a} BY <1>2, <1>7, <1>8, <2>1
  <2>2. QED BY <2>1
<1>11. S = {a, b} /\ a # b => ListedSum(S) = ListedPrice(a) + ListedPrice(b)
  <2>1. CASE S = {a, b} /\ a # b
    <3>1. a \in S /\ b \in S BY <2>1
    <3>2. t[{a, b}] = cost[a] + cost[b] BY <1>8, <2>1, <3>1
    <3>3. QED BY <1>2, <1>7, <2>1, <3>1, <3>2
  <2>2. QED BY <2>1
<1>12. QED BY <1>9, <1>10, <1>11

-----------------------------------------------------------------------------
(* What an order of one, two or no fillers costs: the sets that Amounts(c)   *)
(* is built from.                                                            *)
Bought(n) == {cart.baseTotal + PriceSum(S) :
                S \in {S \in SUBSET Kept : Cardinality(S) = n}}
Enough(c, n) == {a \in Bought(n) : a >= c.minOrderValue}

(* The rules' amounts, in these terms.                                       *)
LEMMA AmountsIs ==
  ASSUME NEW c
  PROVE  Amounts(c) = IF Enough(c, 0) # {} THEN Enough(c, 0)
                      ELSE IF Enough(c, 1) # {} THEN Enough(c, 1) ELSE Enough(c, 2)
BY DEF Amounts, Enough, Bought, PriceSum, MapThenSumSet, MapThenFoldSet

(* A set with two elements is a pair,                                        *)
LEMMA CountedTwo ==
  ASSUME NEW S, IsFiniteSet(S), Cardinality(S) = 2
  PROVE  \E x, y \in S : x # y /\ S = {x, y}
<1>1. S # {} BY FS_EmptySet
<1>2. PICK x : x \in S BY <1>1
<1>3. IsFiniteSet(S \ {x}) /\ Cardinality(S \ {x}) = 1
  BY <1>2, FS_RemoveElement
<1>4. PICK y : S \ {x} = {y} BY <1>3, FS_Singleton
<1> QED BY <1>2, <1>4

(* and a pair has two elements.                                              *)
LEMMA TwoCount ==
  ASSUME NEW x, NEW y, x # y
  PROVE  IsFiniteSet({x, y}) /\ Cardinality({x, y}) = 2
<1>1. {x, y} = {x} \cup {y} OBVIOUS
<1>2. IsFiniteSet({x}) /\ Cardinality({x}) = 1 BY FS_Singleton
<1> QED BY <1>1, <1>2, FS_AddElement

(* What no filler, one or two bring the order to.                            *)
LEMMA BoughtIs ==
  ASSUME InputOK, NEW a
  PROVE  /\ a \in Bought(0) <=> a = cart.baseTotal
         /\ a \in Bought(1) <=> \E f \in Kept : a = cart.baseTotal + f.price
         /\ a \in Bought(2) <=> \E f, g \in Kept :
                                  f # g /\ a = cart.baseTotal + (f.price + g.price)
<1>0. /\ IsFiniteSet(Kept) /\ Kept \subseteq FillerCandidate
      /\ \A S \in SUBSET Kept : IsFiniteSet(S)
  BY KeptFinite, FS_Subset
<1>1. \A f \in Kept : f.price \in Nat BY <1>0 DEF FillerCandidate
<1>b. cart.baseTotal \in Nat BY DEF InputOK, CartType
<1>2. PriceSum({}) = 0
  <2>1. \A x \in {} : x.price \in Nat OBVIOUS
  <2> QED BY <2>1, PriceSumIs
<1>3. ASSUME NEW f \in Kept PROVE PriceSum({f}) = f.price
  <2>1. \A x \in {f} : x.price \in Nat BY <1>1
  <2> QED BY <2>1, PriceSumIs
<1>4. ASSUME NEW f \in Kept, NEW g \in Kept, f # g
      PROVE  PriceSum({f, g}) = f.price + g.price
  <2>1. \A x \in {f, g} : x.price \in Nat BY <1>1
  <2>2. PICK S : S = {f, g} OBVIOUS
  <2> QED BY <1>4, <2>1, <2>2, PriceSumIs
<1>5. a \in Bought(0) <=> a = cart.baseTotal
  <2>1. \A S \in SUBSET Kept : Cardinality(S) = 0 <=> S = {} BY <1>0, FS_EmptySet
  <2>2. a \in Bought(0) <=> \E S \in SUBSET Kept : S = {} /\ a = cart.baseTotal + PriceSum(S)
    BY <2>1 DEF Bought
  <2>3. {} \in SUBSET Kept OBVIOUS
  <2> QED BY <1>2, <1>b, <2>2, <2>3
<1>6. a \in Bought(1) <=> \E f \in Kept : a = cart.baseTotal + f.price
  <2>1. ASSUME NEW f \in Kept, a = cart.baseTotal + f.price PROVE a \in Bought(1)
    <3>1. {f} \in SUBSET Kept /\ Cardinality({f}) = 1 BY FS_Singleton
    <3> QED BY <1>3, <2>1, <3>1 DEF Bought
  <2>2. ASSUME a \in Bought(1) PROVE \E f \in Kept : a = cart.baseTotal + f.price
    <3>1. PICK S \in SUBSET Kept : Cardinality(S) = 1 /\ a = cart.baseTotal + PriceSum(S)
      BY <2>2 DEF Bought
    <3>2. PICK f : S = {f} BY <1>0, <3>1, FS_Singleton
    <3> QED BY <1>3, <3>1, <3>2
  <2> QED BY <2>1, <2>2
<1>7. a \in Bought(2) <=> \E f, g \in Kept :
                           f # g /\ a = cart.baseTotal + (f.price + g.price)
  <2>1. ASSUME NEW f \in Kept, NEW g \in Kept, f # g,
               a = cart.baseTotal + (f.price + g.price)
        PROVE  a \in Bought(2)
    <3>1. {f, g} \in SUBSET Kept /\ Cardinality({f, g}) = 2 BY <2>1, TwoCount
    <3>2. a = cart.baseTotal + PriceSum({f, g}) BY <1>4, <2>1
    <3> QED BY <3>1, <3>2 DEF Bought
  <2>2. ASSUME a \in Bought(2)
        PROVE  \E f, g \in Kept : f # g /\ a = cart.baseTotal + (f.price + g.price)
    <3>1. PICK S \in SUBSET Kept : Cardinality(S) = 2 /\ a = cart.baseTotal + PriceSum(S)
      BY <2>2 DEF Bought
    <3>2. PICK f \in S, g \in S : f # g /\ S = {f, g} BY <1>0, <3>1, CountedTwo
    <3>3. f \in Kept /\ g \in Kept BY <3>1
    <3> QED BY <1>4, <3>1, <3>2, <3>3
  <2> QED BY <2>1, <2>2
<1> QED BY <1>5, <1>6, <1>7

(* The fillers that may be bought for x, and those the rules let be bought   *)
(* with the coupon c.                                                        *)
MayBuy(c, x) ==
  \/ cart.baseTotal >= c.minOrderValue /\ x = 0
  \/ /\ cart.baseTotal < c.minOrderValue /\ x >= gap(c)
     /\ \/ \E f \in Kept : x = f.price
        \/ /\ \A f \in Kept : f.price < gap(c)
           /\ \E f, g \in Kept : f # g /\ x = f.price + g.price

(* These are the amounts that the rules allow.                               *)
LEMMA AmountsAre ==
  ASSUME InputOK, NEW c \in CouponType, NEW a
  PROVE  a \in Amounts(c) <=> \E x \in Nat : a = cart.baseTotal + x /\ MayBuy(c, x)
<1>1. \A f \in Kept : f.price \in Nat BY KeptFinite DEF FillerCandidate
<1>2. cart.baseTotal \in Nat /\ c.minOrderValue \in Nat
  BY DEF InputOK, CartType, CouponType
<1>3. gap(c) = c.minOrderValue - cart.baseTotal BY DEF gap
<1>4. Enough(c, 0) # {} <=> cart.baseTotal >= c.minOrderValue
  BY BoughtIs DEF Enough
<1>5. Enough(c, 1) # {} <=> \E f \in Kept : cart.baseTotal + f.price >= c.minOrderValue
  BY BoughtIs DEF Enough
<1>6. \A f \in Kept : cart.baseTotal + f.price >= c.minOrderValue <=> ~(f.price < gap(c))
  BY <1>1, <1>2, <1>3
<1>7. CASE cart.baseTotal >= c.minOrderValue
  <2>1. a \in Amounts(c) <=> a = cart.baseTotal
    BY <1>4, <1>7, AmountsIs, BoughtIs DEF Enough
  <2>2. \A x : MayBuy(c, x) <=> x = 0 BY <1>2, <1>7 DEF MayBuy
  <2> QED BY <1>2, <2>1, <2>2
<1>8. CASE ~(cart.baseTotal >= c.minOrderValue) /\ Enough(c, 1) # {}
  <2>1. a \in Amounts(c) <=> a \in Enough(c, 1) BY <1>4, <1>8, AmountsIs
  <2>2. a \in Amounts(c) <=>
          \E f \in Kept : a = cart.baseTotal + f.price /\ a >= c.minOrderValue
    BY <2>1, BoughtIs DEF Enough
  <2>3. ~ \A f \in Kept : f.price < gap(c) BY <1>5, <1>6, <1>8
  <2>4. \A x : MayBuy(c, x) <=> x >= gap(c) /\ \E f \in Kept : x = f.price
    BY <1>2, <1>8, <2>3 DEF MayBuy
  <2>5. ASSUME NEW f \in Kept, a = cart.baseTotal + f.price, a >= c.minOrderValue
        PROVE  \E x \in Nat : a = cart.baseTotal + x /\ MayBuy(c, x)
    <3>1. f.price \in Nat /\ f.price >= gap(c) BY <1>1, <1>2, <1>3, <2>5
    <3> QED BY <2>4, <2>5, <3>1
  <2>6. ASSUME NEW x \in Nat, a = cart.baseTotal + x, MayBuy(c, x)
        PROVE  \E f \in Kept : a = cart.baseTotal + f.price /\ a >= c.minOrderValue
    BY <1>2, <1>3, <2>4, <2>6
  <2> QED BY <2>2, <2>5, <2>6
<1>9. CASE ~(cart.baseTotal >= c.minOrderValue) /\ Enough(c, 1) = {}
  <2>1. a \in Amounts(c) <=> a \in Enough(c, 2) BY <1>4, <1>9, AmountsIs
  <2>2. a \in Amounts(c) <=>
          \E f, g \in Kept : /\ f # g /\ a = cart.baseTotal + (f.price + g.price)
                             /\ a >= c.minOrderValue
    BY <2>1, BoughtIs DEF Enough
  <2>3. \A f \in Kept : f.price < gap(c) BY <1>5, <1>6, <1>9
  <2>4. \A x \in Nat : MayBuy(c, x) <=>
          x >= gap(c) /\ \E f, g \in Kept : f # g /\ x = f.price + g.price
    BY <1>1, <1>2, <1>3, <1>9, <2>3 DEF MayBuy
  <2>5. ASSUME NEW f \in Kept, NEW g \in Kept, f # g,
               a = cart.baseTotal + (f.price + g.price), a >= c.minOrderValue
        PROVE  \E x \in Nat : a = cart.baseTotal + x /\ MayBuy(c, x)
    <3>1. f.price + g.price \in Nat /\ f.price + g.price >= gap(c)
      BY <1>1, <1>2, <1>3, <2>5
    <3> QED BY <2>4, <2>5, <3>1
  <2>6. ASSUME NEW x \in Nat, a = cart.baseTotal + x, MayBuy(c, x)
        PROVE  \E f, g \in Kept : /\ f # g /\ a = cart.baseTotal + (f.price + g.price)
                                  /\ a >= c.minOrderValue
    BY <1>2, <1>3, <2>4, <2>6
  <2> QED BY <2>2, <2>5, <2>6
<1> QED BY <1>7, <1>8, <1>9

-----------------------------------------------------------------------------
(* What is found among the offers.                                           *)
Cost(c, x) == (cart.baseTotal + x) - discount(cart.baseTotal + x, c)

Buys(ids, x) ==
  \/ ids = {} /\ x = 0
  \/ \E f \in Kept : ids = {f.itemId} /\ x = f.price
  \/ \E f, g \in Kept : f # g /\ ids = {f.itemId, g.itemId} /\ x = f.price + g.price

FromCoupon(w) ==
  \E c \in coupons, x \in Nat :
    /\ Eligible(c) /\ MayBuy(c, x) /\ Buys(w.fillersAdded, x)
    /\ w.couponCode = c.code /\ w.total = Cost(c, x)
    /\ w.total < cart.baseTotal /\ w.total <= cart.remainingDailyBudget

Beaten(c, W) ==
  Moderate /\ Eligible(c) => \A x \in Nat :
    MayBuy(c, x) /\ Cost(c, x) <= cart.remainingDailyBudget =>
      \E w \in W : w.total <= Cost(c, x)

Searching ==
  phase \in {"consider", "scan"} =>
    /\ fillers \in Ascending(Kept) /\ Baseline \in contenders
    /\ \A w \in contenders : w = Baseline \/ FromCoupon(w)
    /\ \A c \in coupons \ todo : Beaten(c, contenders)

Scanning ==
  phase = "scan" => /\ Eligible(current) /\ Reaching(current) = {}
                    /\ cart.baseTotal < current.minOrderValue

Decided ==
  phase \in {"publish", "answered"} =>
    /\ winner = Baseline \/ FromCoupon(winner)
    /\ Moderate => winner.total <= cart.baseTotal
    /\ \A c \in coupons : Beaten(c, {winner})

OfferInv == TypeInv /\ Searching /\ Scanning /\ Decided
            /\ (Moderate => phase # "thrown")

(* Sorted, the fillers are still the candidates that were kept, each once.   *)
LEMMA FillersAreKept ==
  ASSUME InputOK, fillers \in Ascending(Kept)
  PROVE  /\ {fillers[k] : k \in DOMAIN fillers} = Kept
         /\ \A p, q \in DOMAIN fillers : p < q => fillers[p] # fillers[q]
<1> DEFINE n == Cardinality(Kept)
<1>1. IsFiniteSet(Kept) /\ n \in Nat BY KeptFinite, FS_CardinalityType
<1>2. /\ fillers \in [1..n -> Kept] /\ DOMAIN fillers = 1..n
      /\ \A p, q \in 1..n : p < q => fillers[p] # fillers[q]
  BY DEF Ascending
<1> HIDE DEF n
<1>3. \A p, q \in 1..n : fillers[p] = fillers[q] => p = q
  BY <1>1, <1>2
<1>4. fillers \in Injection(1..n, Kept) BY <1>2, <1>3 DEF Injection, IsInjective
<1>5. Cardinality(1..n) = n
  <2>1. Cardinality(1..n) = IF 1 > n THEN 0 ELSE n - 1 + 1 BY <1>1, FS_Interval
  <2> QED BY <1>1, <2>1
<1>6. fillers \in Surjection(1..n, Kept)
  <2>1. Cardinality(1..n) = Cardinality(Kept) BY <1>5 DEF n
  <2> QED BY <1>1, <1>4, <2>1, FS_Injection
<1>7. \A f \in Kept : \E k \in 1..n : fillers[k] = f BY <1>6 DEF Surjection
<1> QED BY <1>2, <1>7

(* The request and the menu are what the rules depend on.                    *)
LEMMA SameRules ==
  ASSUME UNCHANGED <<cart, menu>>
  PROVE  /\ Kept' = Kept /\ Baseline' = Baseline
         /\ \A c : gap(c)' = gap(c) /\ (Eligible(c)' <=> Eligible(c))
         /\ \A c, x : (MayBuy(c, x)' <=> MayBuy(c, x)) /\ Cost(c, x)' = Cost(c, x)
         /\ \A ids, x : Buys(ids, x)' <=> Buys(ids, x)
<1>1. Kept' = Kept BY DEF Kept, Deduped, affordableFillerBudget
<1>2. Baseline' = Baseline BY DEF Baseline
<1>3. \A c : gap(c)' = gap(c) /\ (Eligible(c)' <=> Eligible(c)) BY DEF gap, Eligible
<1>4. \A c, x : (MayBuy(c, x)' <=> MayBuy(c, x)) /\ Cost(c, x)' = Cost(c, x)
  BY <1>1 DEF MayBuy, gap, Cost
<1>5. \A ids, x : Buys(ids, x)' <=> Buys(ids, x) BY <1>1 DEF Buys
<1> QED BY <1>1, <1>2, <1>3, <1>4, <1>5

(* Nor does the verdict on an offer depend on more than that and the coupons. *)
LEMMA SameVerdicts ==
  ASSUME UNCHANGED <<cart, menu, coupons>>
  PROVE  /\ \A w : FromCoupon(w)' <=> FromCoupon(w)
         /\ \A c, W : Beaten(c, W)' <=> Beaten(c, W)
         /\ Moderate' <=> Moderate
<1>1. \A w : FromCoupon(w)' <=> FromCoupon(w) BY SameRules DEF FromCoupon
<1>2. Moderate' <=> Moderate BY DEF Moderate
<1>3. \A c, W : Beaten(c, W)' <=> Beaten(c, W) BY <1>2, SameRules DEF Beaten
<1> QED BY <1>1, <1>2, <1>3

(* What a coupon of at most 100 per cent leaves to pay.                      *)
LEMMA CostGrows ==
  ASSUME InputOK, NEW c \in CouponType, AtMostAll(c),
         NEW x \in Nat, NEW y \in Nat, x <= y
  PROVE  Cost(c, x) \in Nat /\ Cost(c, y) \in Nat /\ Cost(c, x) <= Cost(c, y)
<1>1. cart.baseTotal \in Nat BY DEF InputOK, CartType
<1>2. PICK a \in Nat : a = cart.baseTotal + x BY <1>1
<1>3. PICK b \in Nat : b = cart.baseTotal + y BY <1>1
<1>4. a <= b BY <1>1, <1>2, <1>3
<1>5. /\ a - discount(a, c) \in Nat /\ b - discount(b, c) \in Nat
      /\ a - discount(a, c) <= b - discount(b, c)
  BY <1>4, CheaperIsCheaper
<1>6. Cost(c, x) = a - discount(a, c) BY <1>2 DEF Cost
<1>7. Cost(c, y) = b - discount(b, c) BY <1>3 DEF Cost
<1> QED BY <1>5, <1>6, <1>7

(* The cheapest that may be bought is offered: whatever else may be bought   *)
(* with the coupon is no better than a contender.                            *)
LEMMA OfferBeats ==
  ASSUME OfferInv, phase \in {"consider", "scan"},
         UNCHANGED <<cart, menu, coupons>>,
         NEW c \in todo, Eligible(c),
         NEW ids, NEW x \in Nat, Buys(ids, x), MayBuy(c, x),
         \A y \in Nat : MayBuy(c, y) => x <= y,
         Offer(c, cart.baseTotal + x, ids)
  PROVE  /\ Baseline \in contenders'
         /\ \A w \in contenders' : w = Baseline \/ FromCoupon(w)
         /\ \A d \in coupons \ todo' : Beaten(d, contenders')
<1> DEFINE t == Cost(c, x)
           new == [couponCode |-> c.code, total |-> t, fillersAdded |-> ids]
<1>1. /\ InputOK /\ todo \subseteq coupons /\ coupons \subseteq CouponKinds
      /\ Baseline \in contenders
      /\ \A w \in contenders : w = Baseline \/ FromCoupon(w)
      /\ \A d \in coupons \ todo : Beaten(d, contenders)
  BY DEF OfferInv, TypeInv, PairInv, TypeOK, Searching
<1>2. c \in coupons /\ c \in CouponType /\ (Moderate => AtMostAll(c))
  BY <1>1, CouponConstants DEF Moderate
<1>3. Moderate =>
        t \in Nat /\ \A y \in Nat : MayBuy(c, y) => Cost(c, y) \in Nat /\ t <= Cost(c, y)
  BY <1>1, <1>2, CostGrows
<1>4. /\ todo' = todo \ {c}
      /\ contenders' = contenders \union
           (IF t < cart.baseTotal /\ t <= cart.remainingDailyBudget THEN {new} ELSE {})
  <2>1. PICK amount : amount = cart.baseTotal + x OBVIOUS
  <2>2. t = amount - discount(amount, c) BY <2>1 DEF Cost
  <2>3. Offer(c, amount, ids) BY <2>1
  <2> HIDE DEF t
  <2> QED BY <2>2, <2>3 DEF Offer
<1>5. new.total = t /\ new.couponCode = c.code /\ new.fillersAdded = ids OBVIOUS
<1> SUFFICES /\ Baseline \in contenders'
             /\ \A w \in contenders' : w = Baseline \/ FromCoupon(w)
             /\ \A d \in coupons \ todo' : Beaten(d, contenders')
  OBVIOUS
<1>6. t = Cost(c, x) OBVIOUS
<1> HIDE DEF t, new
<1>7. Baseline \in contenders' BY <1>1, <1>4
<1>8. \A w \in contenders' : w = Baseline \/ FromCoupon(w)
  <2>1. ASSUME t < cart.baseTotal, t <= cart.remainingDailyBudget PROVE FromCoupon(new)
    BY <1>2, <1>5, <1>6, <2>1 DEF FromCoupon
  <2> QED BY <1>1, <1>4, <2>1
<1>9. \A d \in coupons \ todo' : Beaten(d, contenders')
  <2>1. \A d \in coupons \ todo : Beaten(d, contenders') BY <1>1, <1>4 DEF Beaten
  <2>2. ASSUME Moderate, NEW y \in Nat, MayBuy(c, y), Cost(c, y) <= cart.remainingDailyBudget
        PROVE  \E w \in contenders' : w.total <= Cost(c, y)
    <3>1. Cost(c, y) \in Nat /\ t <= Cost(c, y) BY <1>3, <2>2
    <3>2. cart.baseTotal \in Nat /\ cart.remainingDailyBudget \in Nat
      BY <1>1 DEF InputOK, CartType
    <3>3. CASE t < cart.baseTotal
      <4>1. t \in Nat /\ t <= cart.remainingDailyBudget BY <1>3, <2>2, <3>1, <3>2
      <4>2. new \in contenders' BY <1>4, <3>3, <4>1
      <4> QED BY <1>5, <3>1, <4>2
    <3>4. CASE ~(t < cart.baseTotal)
      <4>1. Baseline.total = cart.baseTotal BY DEF Baseline
      <4>2. cart.baseTotal <= Cost(c, y) BY <1>3, <2>2, <3>1, <3>2, <3>4
      <4> QED BY <1>7, <4>1, <4>2
    <3> QED BY <3>3, <3>4
  <2>3. Beaten(c, contenders') BY <2>2 DEF Beaten
  <2> QED BY <1>4, <2>1, <2>3
<1> QED BY <1>7, <1>8, <1>9

(* A coupon that is offered leaves the search as it should be.               *)
LEMMA OfferKeeps ==
  ASSUME OfferInv, TypeInv', phase \in {"consider", "scan"},
         phase' = "consider", UNCHANGED <<cart, menu, coupons, fillers>>,
         /\ Baseline \in contenders'
         /\ \A w \in contenders' : w = Baseline \/ FromCoupon(w)
         /\ \A d \in coupons \ todo' : Beaten(d, contenders')
  PROVE  OfferInv'
<1>1. fillers \in Ascending(Kept) BY DEF OfferInv, Searching
<1>2. Kept' = Kept /\ Baseline' = Baseline BY SameRules
<1>3. fillers' \in Ascending(Kept') BY <1>1, <1>2 DEF Ascending
<1>4. \A w \in contenders' : w = Baseline' \/ FromCoupon(w)'
  BY <1>2, SameVerdicts
<1>5. \A d \in coupons' \ todo' : Beaten(d, contenders)'
  <2>1. PICK W : W = contenders' OBVIOUS
  <2>2. ASSUME NEW d \in coupons \ todo' PROVE Beaten(d, contenders)'
    <3>1. Beaten(d, W)' BY <2>1, <2>2, SameVerdicts
    <3> QED BY <2>1, <3>1 DEF Beaten
  <2> QED BY <2>2
<1>6. Searching' BY <1>2, <1>3, <1>4, <1>5 DEF Searching
<1> QED BY <1>6 DEF OfferInv, Scanning, Decided

(* The coupon on the cart, where that reaches the minimum: nothing else may  *)
(* be bought.                                                                *)
LEMMA CartStep ==
  ASSUME OfferInv, TypeInv', NEW c \in todo, UseOnCart(c)
  PROVE  OfferInv'
<1>1. InputOK /\ c \in CouponType
  BY DEF OfferInv, TypeInv, PairInv, InputOK
<1>2. cart.baseTotal \in Nat /\ c.minOrderValue \in Nat
  BY <1>1 DEF InputOK, CartType, CouponType
<1>3. /\ phase = "consider" /\ Eligible(c) /\ cart.baseTotal >= c.minOrderValue
      /\ Offer(c, cart.baseTotal, {})
      /\ UNCHANGED <<phase, fillers, cart, menu, coupons>>
  BY DEF UseOnCart, fetchVars
<1>4. MayBuy(c, 0) /\ Buys({}, 0) /\ \A y \in Nat : MayBuy(c, y) => 0 <= y
  BY <1>2, <1>3 DEF MayBuy, Buys
<1>5. cart.baseTotal = cart.baseTotal + 0 BY <1>2
<1>6. Offer(c, cart.baseTotal + 0, {}) BY <1>3, <1>5
<1>7. /\ Baseline \in contenders'
      /\ \A w \in contenders' : w = Baseline \/ FromCoupon(w)
      /\ \A d \in coupons \ todo' : Beaten(d, contenders')
  BY <1>3, <1>4, <1>6, OfferBeats
<1> QED BY <1>3, <1>7, OfferKeeps

(* The cheapest filler that closes the gap alone.                            *)
LEMMA FillerStep ==
  ASSUME OfferInv, TypeInv', NEW c \in todo, UseWithFiller(c)
  PROVE  OfferInv'
<1>1. InputOK /\ c \in CouponType /\ fillers \in Ascending(Kept)
  BY DEF OfferInv, TypeInv, PairInv, InputOK, Searching, UseWithFiller
<1>2. cart.baseTotal \in Nat /\ c.minOrderValue \in Nat /\ gap(c) \in Int
  BY <1>1, GapIs DEF InputOK, CartType, CouponType
<1>3. /\ phase = "consider" /\ Eligible(c) /\ cart.baseTotal < c.minOrderValue
      /\ UNCHANGED <<phase, fillers, cart, menu, coupons>>
  BY DEF UseWithFiller, fetchVars
<1>4. PICK f \in BestSingles(c) : Offer(c, cart.baseTotal + f.price, {f.itemId})
  BY DEF UseWithFiller
<1>5. \A g \in Kept : g.price \in Nat BY <1>1, KeptFinite DEF FillerCandidate
<1>6. \A g : g \in Reaching(c) <=> g \in Kept /\ g.price >= gap(c)
  BY <1>1, FillersAreKept DEF Reaching
<1>7. f \in Reaching(c) /\ \A g \in Reaching(c) : f.price <= g.price
  BY DEF BestSingles, Cheapest
<1>8. f \in Kept /\ f.price \in Nat /\ f.price >= gap(c) BY <1>5, <1>6, <1>7
<1>9. MayBuy(c, f.price) /\ Buys({f.itemId}, f.price)
  BY <1>3, <1>8 DEF MayBuy, Buys
<1>10. ASSUME NEW y \in Nat, MayBuy(c, y) PROVE f.price <= y
  <2>1. y >= gap(c) /\ \E g \in Kept : y = g.price
    BY <1>2, <1>3, <1>5, <1>8, <1>10 DEF MayBuy
  <2>2. PICK g \in Kept : y = g.price BY <2>1
  <2>3. g \in Reaching(c) BY <1>6, <2>1, <2>2
  <2> QED BY <1>7, <2>2, <2>3
<1>11. /\ Baseline \in contenders'
       /\ \A w \in contenders' : w = Baseline \/ FromCoupon(w)
       /\ \A d \in coupons \ todo' : Beaten(d, contenders')
  BY <1>3, <1>4, <1>8, <1>9, <1>10, OfferBeats
<1> QED BY <1>3, <1>11, OfferKeeps

(* The pair that the search has found, or that there is none.                *)
LEMMA PairEnds ==
  ASSUME OfferInv, TypeInv', ScanEnds
  PROVE  OfferInv'
<1> DEFINE c == current
<1>1. /\ InputOK /\ c \in CouponType /\ c \in todo /\ fillers \in Ascending(Kept)
      /\ Eligible(c) /\ Reaching(c) = {} /\ cart.baseTotal < c.minOrderValue
      /\ bestPair # NoPair => bestPair.totalPrice >= gap(c)
      /\ PairInv /\ phase = "scan"
  BY DEF OfferInv, TypeInv, PairInv, ScanInv, TypeOK, Searching, Scanning, ScanEnds
<1>2. /\ i >= j /\ phase' = "consider" /\ FoundPair /\ Passed
      /\ i \in Nat /\ j \in Nat /\ DOMAIN fillers \subseteq Nat
      /\ UNCHANGED <<fillers, cart, menu, coupons>>
  BY <1>1 DEF ScanEnds, fetchVars, PairInv, ScanInv, InputOK
<1>3. \A g \in Kept : g.price \in Nat BY <1>1, KeptFinite DEF FillerCandidate
<1>4. /\ {fillers[k] : k \in DOMAIN fillers} = Kept
      /\ \A p, q \in DOMAIN fillers : p < q => fillers[p] # fillers[q]
  BY <1>1, FillersAreKept
<1>5. \A g \in Kept : g.price < gap(c)
  BY <1>1, <1>3, <1>4, GapIs DEF Reaching
<1>6. ASSUME NEW y \in Nat, MayBuy(c, y)
      PROVE  bestPair # NoPair /\ bestPair.totalPrice <= y
  <2>1. y >= gap(c) /\ \E f, g \in Kept : f # g /\ y = f.price + g.price
    <3>1. cart.baseTotal \in Nat /\ c.minOrderValue \in Nat /\ gap(c) \in Int
      BY <1>1, GapIs DEF InputOK, CartType, CouponType
    <3> QED BY <1>1, <1>3, <1>5, <1>6, <3>1 DEF MayBuy
  <2>2. PICK f \in Kept, g \in Kept : f # g /\ y = f.price + g.price BY <2>1
  <2>3. PICK p \in DOMAIN fillers : fillers[p] = f BY <1>4
  <2>4. PICK q \in DOMAIN fillers : fillers[q] = g BY <1>4
  <2>5. PairPrice(p, q) = y /\ PairPrice(q, p) = y
    BY <1>3, <2>2, <2>3, <2>4 DEF PairPrice
  <2>6. (p < q \/ q < p) /\ ~(i <= p /\ q <= j /\ p < q) /\ ~(i <= q /\ p <= j /\ q < p)
    BY <1>2, <2>2, <2>3, <2>4
  <2>7. CASE p < q BY <1>2, <2>1, <2>5, <2>6, <2>7 DEF Passed
  <2>8. CASE q < p BY <1>2, <2>1, <2>5, <2>6, <2>8 DEF Passed
  <2> QED BY <2>6, <2>7, <2>8
<1>7. CASE bestPair = NoPair
  <2>1. todo' = todo \ {c} /\ UNCHANGED contenders BY <1>7 DEF ScanEnds
  <2>2. Beaten(c, contenders) BY <1>6, <1>7 DEF Beaten
  <2>3. /\ Baseline \in contenders'
        /\ \A w \in contenders' : w = Baseline \/ FromCoupon(w)
        /\ \A d \in coupons \ todo' : Beaten(d, contenders')
    BY <1>1, <2>1, <2>2 DEF OfferInv, Searching
  <2> QED BY <1>1, <1>2, <2>3, OfferKeeps
<1>8. CASE bestPair # NoPair
  <2>1. PICK x, ids : x = bestPair.totalPrice /\ ids = bestPair.itemIds OBVIOUS
  <2>2. PICK p \in DOMAIN fillers, q \in DOMAIN fillers :
          p < q /\ ids = {fillers[p].itemId, fillers[q].itemId} /\ x = PairPrice(p, q)
    BY <1>2, <1>8, <2>1 DEF FoundPair
  <2>3. /\ fillers[p] \in Kept /\ fillers[q] \in Kept /\ fillers[p] # fillers[q]
        /\ x = fillers[p].price + fillers[q].price
    BY <1>4, <2>2 DEF PairPrice
  <2>4. x \in Nat /\ x >= gap(c) BY <1>1, <1>3, <1>8, <2>1, <2>3
  <2>5. MayBuy(c, x) /\ Buys(ids, x) BY <1>1, <1>5, <2>2, <2>3, <2>4 DEF MayBuy, Buys
  <2>6. \A y \in Nat : MayBuy(c, y) => x <= y BY <1>6, <2>1
  <2>7. Offer(c, cart.baseTotal + x, ids) BY <1>8, <2>1 DEF ScanEnds
  <2>8. /\ Baseline \in contenders'
        /\ \A w \in contenders' : w = Baseline \/ FromCoupon(w)
        /\ \A d \in coupons \ todo' : Beaten(d, contenders')
    BY <1>1, <1>2, <2>4, <2>5, <2>6, <2>7, OfferBeats
  <2> QED BY <1>1, <1>2, <2>8, OfferKeeps
<1> QED BY <1>7, <1>8

(* The winner is one that nothing beats.                                     *)
LEMMA WinnerStep ==
  ASSUME OfferInv, TypeInv', SelectWinner
  PROVE  OfferInv'
<1>1. /\ InputOK /\ coupons \subseteq CouponKinds /\ coupons \subseteq CouponType
      /\ todo = {} /\ Baseline \in contenders
      /\ \A w \in contenders : w = Baseline \/ FromCoupon(w)
      /\ \A c \in coupons : Beaten(c, contenders)
  BY DEF OfferInv, TypeInv, PairInv, InputOK, TypeOK, Searching, SelectWinner
<1>2. PICK w \in contenders : winner' = w /\ \A d \in contenders : ~Before(d, w)
  BY DEF SelectWinner
<1>3. /\ cart.baseTotal \in Nat /\ cart.remainingDailyBudget \in Nat
      /\ Baseline.total = cart.baseTotal
  BY <1>1 DEF InputOK, CartType, Baseline
<1>4. ASSUME Moderate, NEW d \in contenders PROVE d.total \in Nat
  <2>1. CASE d = Baseline BY <1>3, <2>1
  <2>2. CASE FromCoupon(d)
    <3>1. PICK c \in coupons, x \in Nat : d.total = Cost(c, x) BY <2>2 DEF FromCoupon
    <3>2. AtMostAll(c) /\ c \in CouponType BY <1>1, <1>4 DEF Moderate
    <3>3. x <= x OBVIOUS
    <3> QED BY <1>1, <3>1, <3>2, <3>3, CostGrows
  <2> QED BY <1>1, <2>1, <2>2
<1>5. Moderate => \A d \in contenders : w.total <= d.total
  BY <1>2, <1>4 DEF Before
<1>6. phase' \in {"publish", "thrown"} /\ (Moderate => phase' = "publish")
  BY <1>2, <1>4 DEF SelectWinner
<1>7. UNCHANGED <<cart, menu, coupons>> BY DEF SelectWinner, fetchVars
<1>8. w = Baseline' \/ FromCoupon(w)' BY <1>1, <1>7, SameRules, SameVerdicts
<1>9. Moderate => w.total <= cart.baseTotal BY <1>1, <1>3, <1>5
<1>10. ASSUME NEW c \in coupons PROVE Beaten(c, {winner})'
  <2>1. Beaten(c, {w})
    <3>1. ASSUME Moderate, Eligible(c), NEW x \in Nat, MayBuy(c, x),
                 Cost(c, x) <= cart.remainingDailyBudget
          PROVE  w.total <= Cost(c, x)
      <4>1. PICK d \in contenders : d.total <= Cost(c, x) BY <1>1, <3>1 DEF Beaten
      <4>2. AtMostAll(c) /\ c \in CouponType /\ x <= x BY <1>1, <3>1 DEF Moderate
      <4>3. Cost(c, x) \in Nat BY <1>1, <4>2, CostGrows
      <4> QED BY <1>2, <1>4, <1>5, <3>1, <4>1, <4>3
    <3> QED BY <3>1 DEF Beaten
  <2>2. PICK W : W = {w} OBVIOUS
  <2>3. Beaten(c, W)' BY <1>7, <2>1, <2>2, SameVerdicts
  <2> QED BY <1>2, <2>2, <2>3 DEF Beaten
<1>11. Decided'
  <2>1. winner' = w /\ cart' = cart /\ coupons' = coupons BY <1>2, <1>7
  <2>2. FromCoupon(w)' => FromCoupon(winner)' BY <2>1 DEF FromCoupon
  <2>3. Moderate' <=> Moderate BY <1>7, SameVerdicts
  <2> QED BY <1>8, <1>9, <1>10, <2>1, <2>2, <2>3 DEF Decided
<1>12. Moderate' => phase' # "thrown" BY <1>6, <1>7, SameVerdicts
<1> QED BY <1>6, <1>11, <1>12 DEF OfferInv, Searching, Scanning

(* Nothing is decided anew while the request and the offers stay.            *)
LEMMA StillSearching ==
  ASSUME OfferInv, phase \in {"consider", "scan"},
         UNCHANGED <<cart, menu, coupons, fillers, contenders, todo>>
  PROVE  Searching'
<1>1. /\ fillers \in Ascending(Kept) /\ Baseline \in contenders
      /\ \A w \in contenders : w = Baseline \/ FromCoupon(w)
      /\ \A c \in coupons \ todo : Beaten(c, contenders)
  BY DEF OfferInv, Searching
<1>2. Kept' = Kept /\ Baseline' = Baseline BY SameRules
<1>3. fillers' \in Ascending(Kept') BY <1>1, <1>2 DEF Ascending
<1>4. \A w \in contenders' : w = Baseline' \/ FromCoupon(w)'
  BY <1>1, <1>2, SameVerdicts
<1>5. \A c \in coupons' \ todo' : Beaten(c, contenders)'
  <2>1. PICK W : W = contenders OBVIOUS
  <2>2. ASSUME NEW c \in coupons \ todo PROVE Beaten(c, contenders)'
    <3>1. Beaten(c, W)' BY <1>1, <2>1, <2>2, SameVerdicts
    <3> QED BY <2>1, <3>1 DEF Beaten
  <2> QED BY <2>2
<1> QED BY <1>1, <1>2, <1>3, <1>4, <1>5 DEF Searching

(* Nor is a winner unseated.                                                 *)
LEMMA StillDecided ==
  ASSUME OfferInv, phase \in {"publish", "answered"},
         UNCHANGED <<cart, menu, coupons, winner>>
  PROVE  Decided'
<1>1. PICK w : w = winner OBVIOUS
<1>2. /\ w = Baseline \/ FromCoupon(w)
      /\ Moderate => w.total <= cart.baseTotal
      /\ \A c \in coupons : Beaten(c, {w})
  BY <1>1 DEF OfferInv, Decided
<1>3. Baseline' = Baseline BY SameRules
<1>4. w = Baseline' \/ FromCoupon(w)' BY <1>2, <1>3, SameVerdicts
<1>5. \A c \in coupons : Beaten(c, {winner})'
  <2>1. PICK W : W = {w} OBVIOUS
  <2>2. ASSUME NEW c \in coupons PROVE Beaten(c, {winner})'
    <3>1. Beaten(c, W)' BY <1>2, <2>1, <2>2, SameVerdicts
    <3> QED BY <1>1, <2>1, <3>1 DEF Beaten
  <2> QED BY <2>2
<1>6. winner' = w BY <1>1
<1>7. FromCoupon(w)' => FromCoupon(winner)' BY <1>6 DEF FromCoupon
<1>8. Moderate' <=> Moderate BY SameVerdicts
<1> QED BY <1>2, <1>4, <1>5, <1>6, <1>7, <1>8 DEF Decided

(* An order for nothing costs nothing, and no coupon makes it cheaper.       *)
LEMMA NothingStep ==
  ASSUME OfferInv, TypeInv', NothingToSave PROVE OfferInv'
<1>1. /\ phase' = "publish" /\ winner' = Baseline /\ cart.baseTotal = 0
      /\ UNCHANGED <<cart, menu, coupons>>
  BY DEF NothingToSave, fetchVars
<1>2. InputOK /\ coupons \subseteq CouponKinds /\ coupons \subseteq CouponType
  BY DEF OfferInv, TypeInv, PairInv, InputOK, TypeOK
<1>3. Baseline' = Baseline /\ Baseline.total = 0 BY <1>1, SameRules DEF Baseline
<1>4. ASSUME NEW c \in coupons PROVE Beaten(c, {winner})'
  <2>1. PICK W : W = {Baseline} OBVIOUS
  <2>2. ASSUME Moderate, NEW x \in Nat PROVE 0 <= Cost(c, x)
    <3>1. AtMostAll(c) /\ c \in CouponType /\ x <= x BY <1>2, <2>2 DEF Moderate
    <3>2. Cost(c, x) \in Nat BY <1>2, <3>1, CostGrows
    <3> QED BY <3>2
  <2>3. Beaten(c, W) BY <1>3, <2>1, <2>2 DEF Beaten
  <2>4. Beaten(c, W)' BY <1>1, <2>3, SameVerdicts
  <2> QED BY <1>1, <2>1, <2>4 DEF Beaten
<1>5. Decided' BY <1>1, <1>3, <1>4 DEF Decided
<1> QED BY <1>1, <1>5 DEF OfferInv, Searching, Scanning

(* Every step keeps what the offers are.                                     *)
LEMMA OfferStep ==
  ASSUME OfferInv, [Next]_couponVars PROVE OfferInv'
<1>0. TypeInv' BY TypeStep DEF OfferInv
<1> USE DEF scanVars, fetchVars
<1>1. CASE FetchCoupons \/ FetchMenuPage \/ MenuEnds
  <2>1. phase' \in {"menu", "prepare"}
    BY <1>1 DEF FetchCoupons, FetchMenuPage, MenuEnds
  <2> QED BY <1>0, <2>1 DEF OfferInv, Searching, Scanning, Decided
<1>2. CASE NothingToSave BY <1>0, <1>2, NothingStep
<1>3. CASE PrepareFillerCandidates
  <2>1. /\ fillers' \in Ascending(Kept) /\ todo' = coupons /\ contenders' = {Baseline}
        /\ phase' = "consider" /\ UNCHANGED <<cart, menu, coupons>>
    BY <1>3 DEF PrepareFillerCandidates
  <2>2. Kept' = Kept /\ Baseline' = Baseline BY <2>1, SameRules
  <2>3. fillers' \in Ascending(Kept') BY <2>1, <2>2 DEF Ascending
  <2>4. Searching' BY <2>1, <2>2, <2>3 DEF Searching
  <2> QED BY <1>0, <2>1, <2>4 DEF OfferInv, Scanning, Decided
<1>4. ASSUME NEW c \in todo, RejectCoupon(c) PROVE OfferInv'
  <2>1. /\ phase = "consider" /\ ~Eligible(c) /\ todo' = todo \ {c}
        /\ UNCHANGED <<phase, fillers, contenders, cart, menu, coupons>>
    BY <1>4 DEF RejectCoupon
  <2>2. /\ Baseline \in contenders'
        /\ \A w \in contenders' : w = Baseline \/ FromCoupon(w)
        /\ \A d \in coupons \ todo : Beaten(d, contenders')
    BY <2>1 DEF OfferInv, Searching
  <2>3. \A d \in coupons \ todo' : Beaten(d, contenders')
    BY <2>1, <2>2 DEF Beaten
  <2> QED BY <1>0, <2>1, <2>2, <2>3, OfferKeeps
<1>5. ASSUME NEW c \in todo, UseOnCart(c) PROVE OfferInv' BY <1>0, <1>5, CartStep
<1>6. ASSUME NEW c \in todo, UseWithFiller(c) PROVE OfferInv' BY <1>0, <1>6, FillerStep
<1>7. ASSUME NEW c \in todo, StartScan(c) PROVE OfferInv'
  <2>1. /\ phase = "consider" /\ phase' = "scan" /\ current' = c
        /\ Eligible(c) /\ cart.baseTotal < c.minOrderValue /\ Reaching(c) = {}
        /\ UNCHANGED <<cart, menu, coupons, fillers, contenders, todo>>
    BY <1>7 DEF StartScan
  <2>2. Searching' BY <2>1, StillSearching
  <2>3. Scanning' BY <2>1 DEF Scanning, Eligible, Reaching, gap
  <2> QED BY <1>0, <2>1, <2>2, <2>3 DEF OfferInv, Decided
<1>8. CASE ScanStep
  <2>1. /\ phase = "scan" /\ phase' = "scan" /\ current' = current
        /\ UNCHANGED <<cart, menu, coupons, fillers, contenders, todo>>
    BY <1>8 DEF ScanStep
  <2>2. Searching' BY <2>1, StillSearching
  <2>3. Scanning' BY <2>1 DEF OfferInv, Scanning, Eligible, Reaching, gap
  <2> QED BY <1>0, <2>1, <2>2, <2>3 DEF OfferInv, Decided
<1>9. CASE ScanEnds BY <1>0, <1>9, PairEnds
<1>10. CASE SelectWinner BY <1>0, <1>10, WinnerStep
<1>11. CASE Publish
  <2>1. /\ phase = "publish" /\ phase' = "answered"
        /\ UNCHANGED <<cart, menu, coupons, winner>>
    BY <1>11 DEF Publish
  <2>2. Decided' BY <2>1, StillDecided
  <2> QED BY <1>0, <2>1, <2>2 DEF OfferInv, Searching, Scanning
<1>12. CASE UNCHANGED couponVars
  <2>1. UNCHANGED <<cart, menu, coupons, winner, fillers, contenders, todo, phase, current>>
    BY <1>12 DEF couponVars
  <2>2. Searching'
    <3>1. CASE phase \in {"consider", "scan"} BY <2>1, <3>1, StillSearching
    <3>2. CASE phase \notin {"consider", "scan"} BY <2>1, <3>2 DEF Searching
    <3> QED BY <3>1, <3>2
  <2>3. Decided'
    <3>1. CASE phase \in {"publish", "answered"} BY <2>1, <3>1, StillDecided
    <3>2. CASE phase \notin {"publish", "answered"} BY <2>1, <3>2 DEF Decided
    <3> QED BY <3>1, <3>2
  <2>4. Scanning' BY <2>1 DEF OfferInv, Scanning, Eligible, Reaching, gap
  <2>5. Moderate' <=> Moderate BY <2>1, SameVerdicts
  <2> QED BY <1>0, <2>1, <2>2, <2>3, <2>4, <2>5 DEF OfferInv
<1> QED
  BY <1>1, <1>2, <1>3, <1>4, <1>5, <1>6, <1>7, <1>8, <1>9, <1>10, <1>11, <1>12
  DEF Next, Compute, Consider

(* And it holds at the start.                                                *)
LEMMA OfferInit == Init => OfferInv
<1>1. Init => TypeInv
  BY CouponConstants
  DEF Init, TypeInv, PairInv, InputOK, ScanInv, Sorted, TypeOK, AtItsTime
<1> QED BY <1>1 DEF Init, OfferInv, Searching, Scanning, Decided

(* What nothing beats is the least of all totals.                            *)
LEMMA OfferIsCheapest == ASSUME OfferInv PROVE CheapestOffer
<1> SUFFICES ASSUME phase = "answered", Moderate
             PROVE  /\ winner.total \in Totals
                    /\ \A t \in Totals : winner.total <= t
                    /\ overBudget => winner = Baseline
  BY DEF CheapestOffer
<1>1. /\ InputOK /\ coupons \subseteq CouponKinds /\ coupons \subseteq CouponType
      /\ winner = Baseline \/ FromCoupon(winner)
      /\ winner.total <= cart.baseTotal
      /\ \A c \in coupons : Beaten(c, {winner})
  BY DEF OfferInv, TypeInv, PairInv, InputOK, TypeOK, Decided
<1>2. \A c \in coupons : \A x :
        Cost(c, x) = (cart.baseTotal + x) - discount(cart.baseTotal + x, c)
  BY DEF Cost
<1>3. \A t : t \in Totals <=>
        \/ t = cart.baseTotal
        \/ \E c \in coupons, x \in Nat :
             Eligible(c) /\ MayBuy(c, x) /\ t = Cost(c, x) /\ t <= cart.remainingDailyBudget
  <2>1. \A t : t \in Totals <=>
          \/ t = cart.baseTotal
          \/ \E c \in coupons : /\ Eligible(c) /\ t <= cart.remainingDailyBudget
                                /\ \E a \in Amounts(c) : t = a - discount(a, c)
    BY DEF Totals
  <2>2. ASSUME NEW c \in coupons, NEW t
        PROVE  (\E a \in Amounts(c) : t = a - discount(a, c)) <=>
                 \E x \in Nat : MayBuy(c, x) /\ t = Cost(c, x)
    <3>1. \A a : a \in Amounts(c) <=> \E x \in Nat : a = cart.baseTotal + x /\ MayBuy(c, x)
      BY <1>1, AmountsAre
    <3> QED BY <1>2, <3>1
  <2> QED BY <2>1, <2>2
<1>4. winner.total \in Totals
  <2>1. CASE winner = Baseline BY <1>3, <2>1 DEF Baseline
  <2>2. CASE FromCoupon(winner) BY <1>3, <2>2 DEF FromCoupon
  <2> QED BY <1>1, <2>1, <2>2
<1>5. ASSUME NEW t \in Totals PROVE winner.total <= t
  <2>1. CASE t = cart.baseTotal BY <1>1, <2>1
  <2>2. CASE \E c \in coupons, x \in Nat :
               Eligible(c) /\ MayBuy(c, x) /\ t = Cost(c, x) /\ t <= cart.remainingDailyBudget
    BY <1>1, <2>2 DEF Beaten
  <2> QED BY <1>3, <2>1, <2>2
<1>6. overBudget => winner = Baseline
  <2>1. ASSUME FromCoupon(winner) PROVE ~overBudget
    <3>1. PICK c \in coupons, x \in Nat :
            winner.total = Cost(c, x) /\ winner.total <= cart.remainingDailyBudget
      BY <2>1 DEF FromCoupon
    <3>2. AtMostAll(c) /\ c \in CouponType /\ x <= x BY <1>1 DEF Moderate
    <3>3. winner.total \in Nat /\ cart.remainingDailyBudget \in Nat
      BY <1>1, <3>1, <3>2, CostGrows DEF InputOK, CartType
    <3> QED BY <3>1, <3>3 DEF overBudget
  <2> QED BY <1>1, <2>1
<1> QED BY <1>4, <1>5, <1>6

(* Total = min(B, (B + fillers) - D): unless Swiggy answered with a          *)
(* percentage above 100, the caller is given the least total over all        *)
(* coupons and all fillers.                                                  *)
THEOREM CheapestIsFound == Spec => []CheapestOffer
<1>1. Init => OfferInv BY OfferInit
<1>2. OfferInv /\ [Next]_couponVars => OfferInv' BY OfferStep
<1>3. OfferInv => CheapestOffer BY OfferIsCheapest
<1> QED BY <1>1, <1>2, <1>3, PTL DEF Spec

(* The call throws for a negative total only if Swiggy answered with a       *)
(* percentage above 100, whatever the menu, the caps and the minimums are.   *)
THEOREM OnlyAboveAllThrows == Spec => []ThrownOnlyAboveAll
<1>1. Init => OfferInv BY OfferInit
<1>2. OfferInv /\ [Next]_couponVars => OfferInv' BY OfferStep
<1>3. OfferInv => ThrownOnlyAboveAll BY DEF OfferInv, ThrownOnlyAboveAll
<1> QED BY <1>1, <1>2, <1>3, PTL DEF Spec

-----------------------------------------------------------------------------
(* A set of places in the menu has a last one.                               *)
LEMMA LastPlace ==
  ASSUME NEW n \in Nat, NEW S, S \subseteq 1..n, S # {}
  PROVE  \E m \in S : \A k \in S : k <= m
<1> DEFINE R == OpToRel(<, Nat)
           T == {n - k : k \in S}
<1>1. IsWellFoundedOn(R, Nat) BY NatLessThanWellFounded
<1>2. T \subseteq Nat /\ T # {}
  <2>1. \A k \in S : n - k \in Nat OBVIOUS
  <2>2. T \subseteq Nat BY <2>1
  <2>3. PICK k \in S : TRUE OBVIOUS
  <2>4. n - k \in T BY <2>3
  <2> QED BY <2>2, <2>4
<1>3. PICK x \in T : \A y \in T : <<y, x>> \notin R
  <2> HIDE DEF R, T
  <2> QED BY <1>1, <1>2, WFMin
<1>4. \A y \in T : ~(y < x) BY <1>2, <1>3 DEF OpToRel
<1>5. PICK m \in S : x = n - m BY <1>3
<1>6. ASSUME NEW k \in S PROVE k <= m
  <2>1. n - k \in T OBVIOUS
  <2>2. ~(n - k < n - m) BY <1>4, <1>5, <2>1
  <2> QED BY <2>2
<1> QED BY <1>6

(* With one price per item, the last record of an item tells it.             *)
OnePrice == \A k, l \in DOMAIN menu :
              menu[k].itemId = menu[l].itemId => menu[k].price = menu[l].price

(* That is the price that was used.                                          *)
LEMMA ListedIs ==
  ASSUME InputOK, OnePrice, NEW f \in Kept PROVE ListedPrice(f.itemId) = f.price
<1> DEFINE id == f.itemId
           S == {k \in 1..Len(menu) : menu[k].itemId = id}
           IsLast(k) == /\ menu[k].itemId = id
                        /\ \A l \in (k + 1)..Len(menu) : menu[l].itemId # id
<1>1. Len(menu) \in Nat /\ DOMAIN menu = 1..Len(menu) BY DEF InputOK
<1>2. PICK k0 \in 1..Len(menu) : menu[k0] = f BY DEF Kept, Deduped
<1>3. S \subseteq 1..Len(menu) /\ S # {} BY <1>2
<1>4. PICK m \in S : \A k \in S : k <= m
  <2> HIDE DEF S
  <2> QED BY <1>1, <1>3, LastPlace
<1>5. m \in 1..Len(menu) /\ IsLast(m) BY <1>1, <1>4
<1>6. PICK last \in 1..Len(menu) : last = CHOOSE k \in 1..Len(menu) : IsLast(k)
  BY <1>5
<1>7. IsLast(last) BY <1>5, <1>6
<1>8. ListedPrice(id) = menu[last].price BY <1>6 DEF ListedPrice
<1>9. menu[last].price = f.price BY <1>1, <1>2, <1>7 DEF OnePrice
<1> QED BY <1>8, <1>9

(* The first record of an item decides, so no item is kept twice.            *)
LEMMA KeptApart ==
  ASSUME InputOK, NEW f \in Kept, NEW g \in Kept, f # g
  PROVE  f.itemId # g.itemId
<1>1. Len(menu) \in Nat BY DEF InputOK
<1>2. PICK k \in 1..Len(menu) :
        f = menu[k] /\ \A l \in 1..(k - 1) : menu[l].itemId # menu[k].itemId
  BY DEF Kept, Deduped
<1>3. PICK m \in 1..Len(menu) :
        g = menu[m] /\ \A l \in 1..(m - 1) : menu[l].itemId # menu[m].itemId
  BY DEF Kept, Deduped
<1>4. k < m \/ m < k BY <1>1, <1>2, <1>3
<1>5. CASE k < m
  <2>1. k \in 1..(m - 1) BY <1>1, <1>5
  <2> QED BY <1>2, <1>3, <2>1
<1>6. CASE m < k
  <2>1. m \in 1..(k - 1) BY <1>1, <1>6
  <2> QED BY <1>2, <1>3, <2>1
<1> QED BY <1>4, <1>5, <1>6

(* So the fillers of an offer are listed at what was paid for them.          *)
LEMMA BoughtAsListed ==
  ASSUME InputOK, OnePrice, NEW ids, NEW x \in Nat, Buys(ids, x)
  PROVE  ListedSum(ids) = x
<1>1. \A f \in Kept : f.price \in Nat /\ ListedPrice(f.itemId) = f.price
  BY KeptFinite, ListedIs DEF FillerCandidate
<1>2. CASE ids = {} /\ x = 0
  <2>1. \A y \in ids : ListedPrice(y) \in Nat BY <1>2
  <2> QED BY <1>2, <2>1, ListedSumIs
<1>3. ASSUME NEW f \in Kept, ids = {f.itemId}, x = f.price PROVE ListedSum(ids) = x
  <2>1. \A y \in ids : ListedPrice(y) \in Nat BY <1>1, <1>3
  <2> QED BY <1>1, <1>3, <2>1, ListedSumIs
<1>4. ASSUME NEW f \in Kept, NEW g \in Kept, f # g, ids = {f.itemId, g.itemId},
             x = f.price + g.price
      PROVE  ListedSum(ids) = x
  <2>1. \A y \in ids : ListedPrice(y) \in Nat BY <1>1, <1>4
  <2>2. f.itemId # g.itemId BY <1>4, KeptApart
  <2>3. PICK a, b : a = f.itemId /\ b = g.itemId OBVIOUS
  <2>4. ListedSum(ids) = ListedPrice(a) + ListedPrice(b)
    BY <1>4, <2>1, <2>2, <2>3, ListedSumIs
  <2> QED BY <1>1, <1>4, <2>3, <2>4
<1> QED BY <1>2, <1>3, <1>4 DEF Buys

(* What a coupon takes off is a number of paise.                             *)
LEMMA DiscountIs ==
  ASSUME NEW c \in CouponType, NEW a \in Nat PROVE discount(a, c) \in Nat
<1>1. /\ c.discountValue \in Nat /\ c.maxDiscount \in Nat \union {NoCap}
      /\ c.discountType \in {"flat", "percentage"}
  BY DEF CouponType
<1>2. PICK v \in Nat : v = a * c.discountValue BY <1>1
<1>3. PICK raw \in Nat : raw = (a * c.discountValue) \div 100 BY <1>2, DivIs
<1> QED BY <1>1, <1>3 DEF discount, Least

(* The winner is an offer, whose coupon takes off what the breakdown says.   *)
LEMMA BreakdownTells == ASSUME OfferInv PROVE BreakdownTellsDiscount
<1> SUFFICES ASSUME phase = "answered", winner.couponCode # 0,
                    winner.fillersAdded \intersect cart.items = {}, OnePrice
             PROVE  \E c \in coupons :
                      /\ c.code = winner.couponCode
                      /\ discountApplied = discount(cart.baseTotal + fillerCost, c)
  BY DEF BreakdownTellsDiscount, OnePrice
<1>1. /\ InputOK /\ coupons \subseteq CouponType
      /\ winner = Baseline \/ FromCoupon(winner)
  BY DEF OfferInv, TypeInv, PairInv, InputOK, Decided
<1>2. FromCoupon(winner) BY <1>1 DEF Baseline
<1>3. PICK c \in coupons, x \in Nat :
        /\ Buys(winner.fillersAdded, x) /\ winner.couponCode = c.code
        /\ winner.total = Cost(c, x)
  BY <1>2 DEF FromCoupon
<1>4. fillerCost = x
  <2>1. winner.fillersAdded \ cart.items = winner.fillersAdded OBVIOUS
  <2>2. fillerCost = ListedSum(winner.fillersAdded)
    BY <2>1 DEF fillerCost, ListedSum
  <2>3. ListedSum(winner.fillersAdded) = x BY <1>1, <1>3, BoughtAsListed
  <2> QED BY <2>2, <2>3
<1>5. PICK a \in Nat : a = cart.baseTotal + x
  BY <1>1 DEF InputOK, CartType
<1>6. PICK d \in Nat : d = discount(a, c) BY <1>1, DiscountIs
<1>7. winner.total = a - d BY <1>3, <1>5, <1>6 DEF Cost
<1>8. discountApplied = d
  <2>1. discountApplied = cart.baseTotal + (x - winner.total)
    BY <1>4 DEF discountApplied
  <2>2. cart.baseTotal \in Nat BY <1>1 DEF InputOK, CartType
  <2> QED BY <1>5, <1>7, <2>1, <2>2
<1> QED BY <1>3, <1>4, <1>5, <1>6, <1>8

(* The amounts in the answer add up to what the coupon takes off, whatever   *)
(* the coupons are, if no filler is an item of the cart and no item has two  *)
(* prices.                                                                   *)
THEOREM BreakdownIsTrue == Spec => []BreakdownTellsDiscount
<1>1. Init => OfferInv BY OfferInit
<1>2. OfferInv /\ [Next]_couponVars => OfferInv' BY OfferStep
<1>3. OfferInv => BreakdownTellsDiscount BY BreakdownTells
<1> QED BY <1>1, <1>2, <1>3, PTL DEF Spec
=============================================================================
