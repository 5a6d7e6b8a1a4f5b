----------------------------- MODULE MCPayments -----------------------------
(***************************************************************************)
(* Small instances of Payments for TLC.  A request's name says what it     *)
(* asks for: p1, p2, p3 pay, c1, c2 cancel what p1 paid, h1, h2 top up, h3 *)
(* tops up by less than nothing, s1 overwrites the status of o1.           *)
(***************************************************************************)
EXTENDS PaymentAccounts, PaymentsInvariant
LOCAL INSTANCE FiniteSetsExt

\* Total counts units; over small tables it is the sum it stands for.
ASSUME TotalIsSum ==
    \A value \in [1 .. 3 -> -2 .. 2] : \A S \in SUBSET (1 .. 3) :
        Total(value, S) = MapThenSumSet(LAMBDA x : value[x], S)

MCKind == [r \in Requests |->
             CASE r \in {"p1", "p2", "p3"} -> "pay"
               [] r \in {"c1", "c2"} -> "cancel"
               [] r \in {"h1", "h2", "h3"} -> "charge"
               [] OTHER -> "patch"]
MCOrderOf == [r \in Requests |-> IF r = "p3" THEN "o2" ELSE "o1"]
MCPaymentOf == [r \in Requests |-> "p1"]
MCChargeOf == [r \in Requests |-> IF r = "h3" THEN -1 ELSE 1]
ToShipping == [r \in Requests |-> "SHIPPING"]
ToCancelled == [r \in Requests |-> "CANCELLED"]
MCOrder0 == [o \in Orders |-> "PENDING"]
MCAmount == [o \in Orders |-> 2]

\* Everything is done by one user, who owns every order; or u2, who owns
\* nothing, makes request p2.
OneCaller == [r \in Requests |-> "u1"]
TwoCallers == [r \in Requests |-> IF r = "p2" THEN "u2" ELSE "u1"]
MCOwner == [o \in Orders |-> "u1"]

\* Every order has a line for v1 and one for v2; or only one for v1.
BothLines == [o \in Orders |-> [v \in Variants |-> 1]]
OneLine == [o \in Orders |-> [v \in Variants |-> IF v = "v1" THEN 1 ELSE 0]]

\* The last piece of everything; plenty.
LastPiece == [v \in Variants |-> 1]
Plenty == [v \in Variants |-> 2]

\* Money for two payments; none.
MoneyForTwo == [u \in Users |-> IF u = "u1" THEN 4 ELSE 0]
NoMoney == [u \in Users |-> 0]
=============================================================================
