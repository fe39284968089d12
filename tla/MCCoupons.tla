------------------------------ MODULE MCCoupons ------------------------------
(* A cart of one item that costs 6; a menu of cheap fillers, one of which is *)
(* out of stock, one the item of the cart; coupons on either side of every   *)
(* threshold.                                                                *)
EXTENDS Coupons

Dish(id, price, preferred, inStock) ==
  [itemId |-> id, price |-> price, preferred |-> preferred, inStock |-> inStock]

Tea    == Dish("tea", 1, TRUE, TRUE)
Bread  == Dish("bread", 2, FALSE, TRUE)
Salad  == Dish("salad", 2, TRUE, TRUE)
Sweet  == Dish("sweet", 3, TRUE, TRUE)
Soup   == Dish("soup", 4, FALSE, TRUE)
NoSoup == Dish("soup", 4, FALSE, FALSE)
Thali  == Dish("thali", 4, FALSE, TRUE)
DearTea == Dish("tea", 2, TRUE, TRUE)

MenuItems == {"tea", "bread", "salad", "sweet", "soup", "thali"}
MenuPages == {<<Tea>>, <<Tea, Bread>>, <<Salad, Bread>>, <<Sweet, Tea>>,
              <<NoSoup, Salad>>, <<Soup, Sweet>>, <<Sweet, Salad, Tea>>}
ClashingPages == MenuPages \union {<<Thali>>, <<DearTea>>}

Cart(budget) == [baseTotal |-> 6, remainingDailyBudget |-> budget, items |-> {"thali"}]
NoOrder == [baseTotal |-> 0, remainingDailyBudget |-> 9, items |-> {}]
SomeCarts == {Cart(4), Cart(8), Cart(12), NoOrder}

Flat(code, min, value) ==
  [code |-> code, usable |-> TRUE, minOrderValue |-> min, discountType |-> "flat",
   discountValue |-> value, maxDiscount |-> NoCap]
Percent(code, min, value, cap) ==
  [code |-> code, usable |-> TRUE, minOrderValue |-> min,
   discountType |-> "percentage", discountValue |-> value, maxDiscount |-> cap]

Expired == [Flat(9, 0, 5) EXCEPT !.usable = FALSE]
SomeCoupons == {Flat(1, 4, 2), Flat(2, 8, 4), Flat(3, 11, 7), Flat(4, 6, 9),
                Percent(5, 9, 40, NoCap), Percent(6, 7, 60, 3), Flat(7, 0, 1),
                Expired}
AnyCoupons == SomeCoupons \union {Percent(8, 0, 150, NoCap)}
=============================================================================
