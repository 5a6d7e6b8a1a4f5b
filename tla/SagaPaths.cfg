SPECIFICATION FairSpec
CONSTANTS
    None = None
    Posts = {"a", "b", "c"}
    Requests = {"d1", "s1", "d2", "s2", "d3", "s3"}
    Arrivals <- MCArrivals
    FaultSets <- MCFaultSets
    Users = {"u1", "u2"}
    Orders = {"o1", "o2"}
    Variants = {"v1"}
    DirectOf <- MCDirectOf
    SagaOf <- MCSagaOf
    Kind <- MCKind
    Caller <- MCCaller
    OrderOf <- MCOrderOf
    PaymentOf <- MCPaymentOf
    ChargeOf <- MCChargeOf
    StatusOf <- MCStatusOf
    Owner <- MCOwner
    Amount <- MCAmount
    Qty <- MCQty
    Stock0 <- MCStock0
    Balance0 <- MCBalance0
    Account0 = {"u1", "u2"}
    Order0 <- MCOrder0
INVARIANTS
    OnePaymentPerOrder
    NeverNegative
    MoneyTraceable
PROPERTIES
    FailureIsRefunded
