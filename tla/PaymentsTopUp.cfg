SPECIFICATION Spec
CONSTANTS
    None = None
    Requests = {"p1", "p2", "h1", "h2", "h3", "s1"}
    Users = {"u1", "u2"}
    Orders = {"o1"}
    Variants = {"v1"}
    Crashable = {}
    Kind <- MCKind
    Caller <- TwoCallers
    OrderOf <- MCOrderOf
    PaymentOf <- MCPaymentOf
    ChargeOf <- MCChargeOf
    StatusOf <- ToCancelled
    Owner <- MCOwner
    Amount <- MCAmount
    Qty <- OneLine
    Stock0 <- Plenty
    Balance0 <- NoMoney
    Account0 = {}
    Order0 <- MCOrder0
INVARIANTS
    MoneyAccounted
    HistoryChains
    NeverNegative
