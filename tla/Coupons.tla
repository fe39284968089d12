------------------------------- MODULE Coupons -------------------------------
(***************************************************************************)
(* coupon-optimization-service: one call of HackerService.optimize.  The    *)
(* coupons and up to MAX_MENU_PAGES pages of the menu are fetched through   *)
(* the MCP gateway, then HackerAlgorithm looks for the coupon, and the      *)
(* fillers that reach its minimum order value, that make the order          *)
(* cheapest.  The loops of the algorithm are steps, so that what they       *)
(* compute can be proved; nothing interleaves with them in the code.        *)
(*                                                                          *)
(* Amounts are integers of paise.  What the mappers drop (malformed         *)
(* records, prices that are not positive) never arrives here.               *)
(***************************************************************************)
EXTENDS Integers, Sequences, FiniteSets, FiniteSetsExt

CONSTANTS Items,        \* item ids of the restaurant
          Carts,        \* requests to optimize, see CartType
          CouponKinds,  \* coupons Swiggy may answer with, see CouponType
          MaxCoupons,   \* bound: coupons in one answer
          Pages,        \* pages of menu items Swiggy may answer with
          MAX_MENU_PAGES,
          MIN_FILLER_CANDIDATES_TARGET

CartType == [baseTotal: Nat, remainingDailyBudget: Nat, items: SUBSET Items]

(* `preferred` stands for a category among side, beverage and dessert.       *)
FillerCandidate == [itemId: Items, price: Nat \ {0}, preferred: BOOLEAN,
                    inStock: BOOLEAN]

(* `usable`: not declared inapplicable and not expired.  Codes compare like  *)
(* numbers; 0 is the code of a cart without a coupon.  The mapper turns a    *)
(* coupon into one for online payment or one for cash on delivery, and both  *)
(* are accepted.                                                             *)
NoCap == -1
CouponType == [code: Nat \ {0}, usable: BOOLEAN, minOrderValue: Nat,
               discountType: {"flat", "percentage"}, discountValue: Nat,
               maxDiscount: Nat \union {NoCap}]
NoCoupon == [code |-> 0, usable |-> FALSE, minOrderValue |-> 0,
             discountType |-> "flat", discountValue |-> 0, maxDiscount |-> NoCap]

ASSUME CouponConstants ==
  /\ Carts \subseteq CartType
  /\ CouponKinds \subseteq CouponType
  /\ Pages \subseteq Seq(FillerCandidate)
  /\ MaxCoupons \in Nat
  /\ MAX_MENU_PAGES \in Nat \ {0}
  /\ MIN_FILLER_CANDIDATES_TARGET \in Nat \ {0}

VARIABLES cart,        \* the request
          phase,
          coupons,     \* the answer of fetch_food_coupons
          todo,        \* those still to be considered, in whatever order
          menu, page,  \* raw candidates, and the page to be fetched next
          fillers,     \* sortedFillerCandidates
          current, i, j, bestPair,  \* the search for pairs
          contenders,
          winner

scanVars == <<current, i, j, bestPair>>
fetchVars == <<cart, coupons, menu, page>>
couponVars == <<phase, todo, fillers, contenders, winner, scanVars, fetchVars>>

NoPair == [itemIds |-> {}, totalPrice |-> 0]
Baseline == [couponCode |-> 0, total |-> cart.baseTotal, fillersAdded |-> {}]

Init ==
  /\ cart \in Carts
  /\ phase = "coupons"
  /\ coupons = {} /\ todo = {} /\ menu = <<>> /\ page = 1 /\ fillers = <<>>
  /\ current = NoCoupon /\ i = 1 /\ j = 0 /\ bestPair = NoPair
  /\ contenders = {} /\ winner = Baseline

-----------------------------------------------------------------------------
(* HackerService gathers the input.                                          *)

(* A failure, or an answer that is not a list, counts as no coupons.         *)
FetchCoupons ==
  /\ phase = "coupons"
  /\ coupons' \in {S \in SUBSET CouponKinds : Cardinality(S) <= MaxCoupons}
  /\ phase' = "menu"
  /\ UNCHANGED <<todo, fillers, contenders, winner, scanVars, cart, menu, page>>

FetchMenuPage ==
  /\ phase = "menu"
  /\ \E p \in Pages : p # <<>> /\ menu' = menu \o p
  /\ page' = page + 1
  /\ phase' = IF page' > MAX_MENU_PAGES \/ Len(menu') >= MIN_FILLER_CANDIDATES_TARGET
              THEN "prepare" ELSE "menu"
  /\ UNCHANGED <<cart, coupons, todo, fillers, contenders, winner, scanVars>>

(* An empty page, or a failure, ends the pagination.                         *)
MenuEnds ==
  /\ phase = "menu"
  /\ phase' = "prepare"
  /\ UNCHANGED <<todo, fillers, contenders, winner, scanVars, fetchVars>>

-----------------------------------------------------------------------------
(* HackerAlgorithm.optimize.                                                 *)

affordableFillerBudget == cart.remainingDailyBudget - cart.baseTotal

(* The first record of each item decides, even one that is then dropped.     *)
Deduped == {menu[k] : k \in {k \in 1..Len(menu) :
                               \A l \in 1..(k - 1) : menu[l].itemId # menu[k].itemId}}

Kept == {f \in Deduped : f.inStock /\ f.price <= affordableFillerBudget}

(* The orders in which a set of fillers is ascending in price.               *)
Ascending(S) ==
  {s \in [1..Cardinality(S) -> S] :
     \A p, q \in DOMAIN s : p < q => s[p] # s[q] /\ s[p].price <= s[q].price}

(* An order for nothing gets no coupon.                                      *)
NothingToSave ==
  /\ phase = "prepare" /\ cart.baseTotal = 0
  /\ phase' = "publish" /\ winner' = Baseline
  /\ UNCHANGED <<todo, fillers, contenders, scanVars, fetchVars>>

PrepareFillerCandidates ==
  /\ phase = "prepare" /\ cart.baseTotal # 0
  /\ fillers' \in Ascending(Kept) /\ todo' = coupons
  /\ contenders' = {Baseline}
  /\ phase' = "consider"
  /\ UNCHANGED <<winner, scanVars, fetchVars>>

Least(a, b) == IF a <= b THEN a ELSE b

(* Mutant: a flat coupon is worth its value on any order.                    *)
discountInFull(amount, c) ==
  IF c.discountType = "flat" THEN c.discountValue
  ELSE LET raw == (amount * c.discountValue) \div 100
       IN IF c.maxDiscount = NoCap THEN raw ELSE Least(raw, c.maxDiscount)

discount(amount, c) ==
  IF c.discountType = "flat" THEN Least(c.discountValue, amount)
  ELSE LET raw == (amount * c.discountValue) \div 100
       IN IF c.maxDiscount = NoCap THEN raw ELSE Least(raw, c.maxDiscount)

(* `budget` is baseTotal + affordableFillerBudget.                           *)
Eligible(c) == c.usable /\ c.minOrderValue <= cart.remainingDailyBudget

(* Mutant: the budget is not looked at again after the discount.             *)
OfferOverBudget(c, amount, added) ==
  LET total == amount - discount(amount, c)
  IN /\ contenders' = contenders \union
          (IF total < cart.baseTotal
           THEN {[couponCode |-> c.code, total |-> total, fillersAdded |-> added]}
           ELSE {})
     /\ todo' = todo \ {c}

(* The coupon c on an order of `amount`, which holds the fillers `added`:    *)
(* a contender if that is cheaper than the cart and within the budget.       *)
Offer(c, amount, added) ==
  LET total == amount - discount(amount, c)
  IN /\ contenders' = contenders \union
          (IF total < cart.baseTotal /\ total <= cart.remainingDailyBudget
           THEN {[couponCode |-> c.code, total |-> total, fillersAdded |-> added]}
           ELSE {})
     /\ todo' = todo \ {c}

RejectCoupon(c) ==
  /\ phase = "consider" /\ c \in todo /\ ~Eligible(c)
  /\ todo' = todo \ {c}
  /\ UNCHANGED <<phase, fillers, contenders, winner, scanVars, fetchVars>>

UseOnCart(c) ==
  /\ phase = "consider" /\ c \in todo /\ Eligible(c)
  /\ cart.baseTotal >= c.minOrderValue
  /\ Offer(c, cart.baseTotal, {})
  /\ UNCHANGED <<phase, fillers, winner, scanVars, fetchVars>>

gap(c) == c.minOrderValue - cart.baseTotal

(* Mutant: a filler that closes the gap exactly is not taken.                *)
ReachingBeyond(c) == {f \in {fillers[k] : k \in DOMAIN fillers} : f.price > gap(c)}

Reaching(c) == {f \in {fillers[k] : k \in DOMAIN fillers} : f.price >= gap(c)}

(* The cheapest fillers that close the gap alone; the preferred ones of them *)
(* if there are any.                                                         *)
Cheapest(S) == {f \in S : \A g \in S : f.price <= g.price}
BestSingles(c) ==
  LET best == Cheapest(Reaching(c))
      liked == {f \in best : f.preferred}
  IN IF liked = {} THEN best ELSE liked

UseWithFiller(c) ==
  /\ phase = "consider" /\ c \in todo /\ Eligible(c)
  /\ cart.baseTotal < c.minOrderValue
  /\ \E f \in BestSingles(c) : Offer(c, cart.baseTotal + f.price, {f.itemId})
  /\ UNCHANGED <<phase, fillers, winner, scanVars, fetchVars>>

(* No filler closes the gap alone: two pointers search for a pair.           *)
StartScan(c) ==
  /\ phase = "consider" /\ c \in todo /\ Eligible(c)
  /\ cart.baseTotal < c.minOrderValue /\ Reaching(c) = {}
  /\ current' = c /\ i' = 1 /\ j' = Len(fillers) /\ bestPair' = NoPair
  /\ phase' = "scan"
  /\ UNCHANGED <<todo, fillers, contenders, winner, fetchVars>>

Pair == [itemIds |-> {fillers[i].itemId, fillers[j].itemId},
         totalPrice |-> fillers[i].price + fillers[j].price]

(* Mutant: both pointers move after a pair that closes the gap.              *)
ScanMovesBoth ==
  /\ phase = "scan" /\ i < j
  /\ IF Pair.totalPrice >= gap(current)
     THEN /\ bestPair' = IF bestPair = NoPair \/ Pair.totalPrice < bestPair.totalPrice
                         THEN Pair ELSE bestPair
          /\ j' = j - 1
     ELSE UNCHANGED <<j, bestPair>>
  /\ i' = i + 1
  /\ UNCHANGED <<phase, todo, fillers, contenders, winner, current, fetchVars>>

(* Mutant: no pointer moves after a pair that is not the cheapest so far.    *)
ScanSticks ==
  /\ phase = "scan" /\ i < j
  /\ IF Pair.totalPrice >= gap(current)
     THEN /\ i' = i
          /\ IF bestPair = NoPair \/ Pair.totalPrice < bestPair.totalPrice
             THEN bestPair' = Pair /\ j' = j - 1 ELSE UNCHANGED <<j, bestPair>>
     ELSE i' = i + 1 /\ UNCHANGED <<j, bestPair>>
  /\ UNCHANGED <<phase, todo, fillers, contenders, winner, current, fetchVars>>

(* One turn of the loop: a pair that closes the gap is kept if it is the     *)
(* cheapest so far, and the dearer pointer moves; otherwise the cheaper one. *)
ScanStep ==
  /\ phase = "scan" /\ i < j
  /\ IF Pair.totalPrice >= gap(current)
     THEN /\ bestPair' = IF bestPair = NoPair \/ Pair.totalPrice < bestPair.totalPrice
                         THEN Pair ELSE bestPair
          /\ j' = j - 1 /\ i' = i
     ELSE i' = i + 1 /\ UNCHANGED <<j, bestPair>>
  /\ UNCHANGED <<phase, todo, fillers, contenders, winner, current, fetchVars>>

ScanEnds ==
  /\ phase = "scan" /\ i >= j
  /\ IF bestPair = NoPair
     THEN todo' = todo \ {current} /\ UNCHANGED contenders
     ELSE Offer(current, cart.baseTotal + bestPair.totalPrice, bestPair.itemIds)
  /\ phase' = "consider"
  /\ UNCHANGED <<fillers, winner, scanVars, fetchVars>>

(* The order of selectWinner: the total, then some filler rather than none,  *)
(* then the shorter cart, then the code.                                     *)
Before(a, b) ==
  LET fa == Cardinality(a.fillersAdded)
      fb == Cardinality(b.fillersAdded)
  IN \/ a.total < b.total
     \/ /\ a.total = b.total
        /\ \/ fa > 0 /\ fb = 0
           \/ fa > 0 /\ fb > 0 /\ fa < fb
           \/ fa = fb /\ a.couponCode < b.couponCode

(* buildResult throws on a negative total.                                   *)
SelectWinner ==
  /\ phase = "consider" /\ todo = {}
  /\ winner' \in {w \in contenders : \A d \in contenders : ~Before(d, w)}
  /\ phase' = IF winner'.total < 0 THEN "thrown" ELSE "publish"
  /\ UNCHANGED <<todo, fillers, contenders, scanVars, fetchVars>>

(* CartOptimized is published, or that fails; the caller is answered.        *)
Publish ==
  /\ phase = "publish" /\ phase' = "answered"
  /\ UNCHANGED <<todo, fillers, contenders, winner, scanVars, fetchVars>>

Consider(c) == RejectCoupon(c) \/ UseOnCart(c) \/ UseWithFiller(c) \/ StartScan(c)

(* The algorithm, sequential code that waits for nothing.                    *)
Compute ==
  \/ NothingToSave \/ PrepareFillerCandidates
  \/ \E c \in todo : Consider(c)
  \/ ScanStep \/ ScanEnds \/ SelectWinner

Next == FetchCoupons \/ FetchMenuPage \/ MenuEnds \/ Compute \/ Publish

Spec == Init /\ [][Next]_couponVars

(* The calls of the gateway have no timeout, so nothing is assumed of the    *)
(* fetches.                                                                  *)
FairSpec == Spec /\ WF_couponVars(Compute)

-----------------------------------------------------------------------------
(* What the caller is told.                                                  *)

(* fillerCandidateByItemId is built from the raw candidates: the last record *)
(* of an item overwrites the earlier ones.                                   *)
ListedPrice(id) ==
  LET last == CHOOSE k \in 1..Len(menu) :
                /\ menu[k].itemId = id
                /\ \A l \in (k + 1)..Len(menu) : menu[l].itemId # id
  IN menu[last].price

overBudget == winner.total > cart.remainingDailyBudget
(* Mutant: the fillers' cost is that of the items of the cart.               *)
fillerCostOfCart == MapThenSumSet(ListedPrice, winner.fillersAdded \intersect cart.items)
fillerCost == MapThenSumSet(ListedPrice, winner.fillersAdded \ cart.items)
discountApplied == cart.baseTotal + fillerCost - winner.total

-----------------------------------------------------------------------------
(* The variables have their types; what the search has found is a pair of    *)
(* the fillers that closes the gap; a contender is cheaper than the cart and *)
(* within the budget, or the cart itself.                                    *)
TypeOK ==
  /\ cart \in Carts
  /\ phase \in {"coupons", "menu", "prepare", "consider", "scan", "publish",
                "answered", "thrown"}
  /\ coupons \subseteq CouponKinds /\ todo \subseteq coupons
  /\ menu \in Seq(FillerCandidate) /\ page \in 1..(MAX_MENU_PAGES + 1)
  /\ fillers \in Seq(FillerCandidate)
  /\ phase = "scan" => current \in todo /\ i \in 1..(j + 1) /\ j \in 0..Len(fillers)
  /\ bestPair # NoPair => bestPair.totalPrice >= gap(current)
  /\ \A w \in contenders :
       \/ w = Baseline
       \/ w.total < cart.baseTotal /\ w.total <= cart.remainingDailyBudget

PairPrice(p, q) == fillers[p].price + fillers[q].price

(* When the two pointers meet, the pair that was kept is the cheapest of all *)
(* pairs that close the gap, and none was kept only if there is none.        *)
ScanFindsCheapestPair ==
  phase = "scan" /\ i >= j =>
    /\ bestPair = NoPair \/ \E p, q \in DOMAIN fillers :
         p < q /\ bestPair = [itemIds |-> {fillers[p].itemId, fillers[q].itemId},
                             totalPrice |-> PairPrice(p, q)]
    /\ \A p, q \in DOMAIN fillers :
         p < q /\ PairPrice(p, q) >= gap(current) =>
           bestPair # NoPair /\ bestPair.totalPrice <= PairPrice(p, q)

(* Everything that the product's rules allow to be ordered with the coupon   *)
(* c: nothing more if the cart reaches the minimum, otherwise one filler     *)
(* that does, otherwise two; and what that costs.                            *)
Amounts(c) ==
  LET of(n) == {cart.baseTotal + MapThenSumSet(LAMBDA f : f.price, S) :
                  S \in {S \in SUBSET Kept : Cardinality(S) = n}}
      enough(n) == {a \in of(n) : a >= c.minOrderValue}
  IN IF enough(0) # {} THEN enough(0)
     ELSE IF enough(1) # {} THEN enough(1) ELSE enough(2)

Totals ==
  {cart.baseTotal} \union
    {t \in UNION {{a - discount(a, c) : a \in Amounts(c)} :
                 c \in {c \in coupons : Eligible(c)}} :
       t <= cart.remainingDailyBudget}

(* Swiggy answered with no percentage above 100, which the mapper lets       *)
(* through.                                                                  *)
AtMostAll(c) == c.discountType = "percentage" => c.discountValue <= 100
Moderate == \A c \in coupons : AtMostAll(c)

(* "Total = min(B, (B + fillers) - D)": unless Swiggy answered with a        *)
(* percentage above 100, the caller is given the least total over all        *)
(* coupons and all fillers, although neither all pairs nor all fillers are   *)
(* tried, and the budget is exceeded by nothing but the cart itself.         *)
CheapestOffer ==
  phase = "answered" /\ Moderate =>
    /\ winner.total \in Totals
    /\ \A t \in Totals : winner.total <= t
    /\ overBudget => winner = Baseline

(* The amounts in the answer add up to what the coupon takes off, unless a   *)
(* filler is also an item of the cart (it is then not counted as a filler)   *)
(* or two pages list it at different prices (the last counts, the first was  *)
(* used).                                                                    *)
BreakdownTellsDiscount ==
  /\ phase = "answered" /\ winner.couponCode # 0
  /\ winner.fillersAdded \intersect cart.items = {}
  /\ \A k, l \in DOMAIN menu :
       menu[k].itemId = menu[l].itemId => menu[k].price = menu[l].price
  => \E c \in coupons : /\ c.code = winner.couponCode
                        /\ discountApplied = discount(cart.baseTotal + fillerCost, c)

(* Without those exceptions, which nothing in the code rules out.            *)
BreakdownAlwaysTellsDiscount ==
  phase = "answered" /\ winner.couponCode # 0
  => \E c \in coupons : /\ c.code = winner.couponCode
                        /\ discountApplied = discount(cart.baseTotal + fillerCost, c)

(* "If every contender exceeds the budget": the answer is over the budget    *)
(* only if no coupon brings the cart as it is below it.                      *)
OverBudgetOnlyIfUnavoidable ==
  phase = "answered" /\ overBudget =>
    \A c \in coupons : c.usable /\ cart.baseTotal >= c.minOrderValue =>
      cart.baseTotal - discount(cart.baseTotal, c) > cart.remainingDailyBudget

(* "a negative total is a logic bug, not a real coupon scenario": the call   *)
(* throws for one only if Swiggy answered with a percentage above 100 --     *)
(* flat coupons, caps, minimums and fillers never bring a total below zero.  *)
ThrownOnlyAboveAll == phase = "thrown" => ~Moderate

(* The quotation itself, which such a percentage refutes.                    *)
NeverNegative == phase # "thrown"

(* Once everything is fetched the algorithm comes to a result, or throws,    *)
(* whatever the coupons are: its loops end.                                  *)
AlgorithmEnds == phase = "prepare" ~> phase \in {"publish", "answered", "thrown"}
=============================================================================
