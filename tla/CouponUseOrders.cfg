SPECIFICATION FairSpec
CONSTANTS
    None = None
    Users = {"u1", "u2"}
    Coupons = {1, 2}
    Grants <- MCGrants
    Terms <- MCTerms
    Calls = {"a1", "a2", "b"}
    CallerOf <- MCCallerOf
    CouponOf <- MCCouponOf
    TotalOf <- MCTotalOf
    After <- MCAfter
INVARIANTS
    DiscountBacked
    UsedIsPaid
PROPERTIES
    SpentForGood
    PaidIsUsed
