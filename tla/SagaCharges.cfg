SPECIFICATION Spec
CONSTANTS
    None = None
    Posts = {"a"}
    Requests = {"d1", "s1"}
    Arrivals = {{"a"}}
    FaultSets <- NoFaults
    Users = {"u1"}
    Orders = {"o1"}
    Variants = {"v1"}
    DirectOf <- MCDirectOf
    SagaOf <- MCSagaOf
    Kind <- MCKind
    Caller <- MCCaller
    OrderOf <- MCOrderOf
    PaymentOf <- MCPaymentOf
    ChargeOf <- MCChargeOf
    StatusOf <- MCStatusOf
    Owner <- MCOwner
    Amount <- MCAmount
    Qty <- MCQty
    Stock0 <- MCStock0
    Balance0 <- MCBalance0
    Account0 = {"u1"}
    Order0 <- MCOrder0
INVARIANTS
    MoneyTakenOnce
