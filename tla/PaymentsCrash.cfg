SPECIFICATION FairSpec
CONSTANTS
    None = None
    Requests = {"p1", "p3"}
    Users = {"u1"}
    Orders = {"o1", "o2"}
    Variants = {"v1", "v2"}
    Crashable = {"p1"}
    Kind <- MCKind
    Caller <- OneCaller
    OrderOf <- MCOrderOf
    PaymentOf <- MCPaymentOf
    ChargeOf <- MCChargeOf
    StatusOf <- ToShipping
    Owner <- MCOwner
    Amount <- MCAmount
    Qty <- BothLines
    Stock0 <- LastPiece
    Balance0 <- MoneyForTwo
    Account0 = {"u1"}
    Order0 <- MCOrder0
INVARIANTS
    LocksCover
    NeverNegative
PROPERTIES
    EveryRequestEnds
    LocksComeBack
