---------------------------- MODULE MCPaymentSaga ----------------------------
(***************************************************************************)
(* Small instances of PaymentSaga for TLC: the attempts d1 and s1 belong   *)
(* to request "a", d2 and s2 to request "b", which pay for order o1, and   *)
(* d3 and s3 to request "c", which pays for order o2, of another user.     *)
(***************************************************************************)
EXTENDS PaymentSaga

MCDirectOf == [p \in Posts |-> CASE p = "a" -> "d1" [] p = "b" -> "d2" [] OTHER -> "d3"]
MCSagaOf == [p \in Posts |-> CASE p = "a" -> "s1" [] p = "b" -> "s2" [] OTHER -> "s3"]
MCKind == [r \in Requests |-> "pay"]
MCCaller == [r \in Requests |-> IF r \in {"d3", "s3"} THEN "u2" ELSE "u1"]
MCOrderOf == [r \in Requests |-> IF r \in {"d3", "s3"} THEN "o2" ELSE "o1"]
MCPaymentOf == [r \in Requests |-> "d1"]
MCChargeOf == [r \in Requests |-> 0]
MCStatusOf == [r \in Requests |-> "PENDING"]
MCOwner == [o \in Orders |-> IF o = "o2" THEN "u2" ELSE "u1"]
MCAmount == [o \in Orders |-> IF o = "o2" THEN -1 ELSE 1]
MCQty == [o \in Orders |-> [v \in Variants |-> 2]]
MCStock0 == [v \in Variants |-> 4]
MCBalance0 == [u \in Users |-> 2]
MCOrder0 == [o \in Orders |-> "PENDING"]

\* Two requests for one order, or for two orders of one variant.
MCArrivals == {{"a", "b"}, {"a", "c"}}

\* With every refund and no death; with everything but a failing history line,
\* which loses a saga as a death does.
MCFaultSets == {{"record"}, {"refund", "crash"}}
NoFaults == {{}}
=============================================================================
