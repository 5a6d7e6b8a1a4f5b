----------------------------- MODULE MCCouponUse -----------------------------
(***************************************************************************)
(* A small instance of CouponUse for TLC: a1 and a2 are the two calls of   *)
(* one POST of u1, b is a call for u2, who holds both coupons, with an     *)
(* order below the minimum. The discount of coupon 1 is larger than the    *)
(* order of u1.                                                            *)
(***************************************************************************)
EXTENDS CouponUse

MCGrants == {<<"u1", 1>>, <<"u2", 1>>, <<"u2", 2>>}
MCTerms == [k \in Coupons |->
    IF k = 1 THEN [type |-> "FIXED", amount |-> 80, minOrderAmount |-> 50]
             ELSE [type |-> "PERCENTAGE", amount |-> 10, minOrderAmount |-> 100]]
MCCallerOf == [c \in Calls |-> IF c = "b" THEN "u2" ELSE "u1"]
MCCouponOf == [c \in Calls |-> IF c = "b" THEN 2 ELSE 1]
MCTotalOf == [c \in Calls |-> IF c = "b" THEN 90 ELSE 60]
MCAfter == [c \in Calls |-> IF c = "a2" THEN "a1" ELSE None]
=============================================================================
