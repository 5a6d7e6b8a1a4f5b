SPECIFICATION Spec
CONSTANTS
    None = None
    Requests = {"p1", "p2", "c1", "c2"}
    Users = {"u1"}
    Orders = {"o1"}
    Variants = {"v1"}
    Crashable = {"p1"}
    Kind <- MCKind
    Caller <- OneCaller
    OrderOf <- MCOrderOf
    PaymentOf <- MCPaymentOf
    ChargeOf <- MCChargeOf
    StatusOf <- ToShipping
    Owner <- MCOwner
    Amount <- MCAmount
    Qty <- OneLine
    Stock0 <- Plenty
    Balance0 <- MoneyForTwo
    Account0 = {"u1"}
    Order0 <- MCOrder0
INVARIANTS
    TypeOK
    OnePaymentPerOrder
    PaidIffPayment
    StockAccounted
    CriticalSection
PROPERTIES
    CancelIsFinal
    ImplementsLedger
