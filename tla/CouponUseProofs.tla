--------------------------- MODULE CouponUseProofs ---------------------------
(***************************************************************************)
(* That a discount has its reasons, that no coupon is used up without a    *)
(* paid order, and that a user whose row has the number he names gets no   *)
(* discount from a used one: for any number of users, coupons, terms and   *)
(* orders.                                                                 *)
(***************************************************************************)
EXTENDS CouponUse, TLAPS

\* The inductive invariant, of one call: what happens to its order in which
\* sequence, and what the search for the coupon has left behind.
Sequence(c) ==
    /\ pc[c] = "start" => link[c] = 0 /\ discount[c] = 0
    /\ pc[c] \in {"start", "priced"} => ~Written(c)
    /\ c \in paid => Written(c)
    /\ event[c] # "none" => c \in paid

Found(c) ==
    /\ link[c] = 0 => discount[c] = 0
    /\ link[c] # 0 =>
          /\ link[c] = CouponOf[c]
          /\ Terms[CouponOf[c]].minOrderAmount <= TotalOf[c]
          /\ discount[c] = Discount(c)
          /\ \E n \in DOMAIN rows : /\ rows[n].user = CallerOf[c]
                                    /\ rows[n].coupon = CouponOf[c]

Connected(c) ==
    /\ Written(c) /\ link[c] # 0 => link[c] \in DOMAIN rows
    /\ event[c] = "handled" /\ link[c] # 0 => rows[link[c]].status = "USED"

\* The unique key of UserCoupon.
RowsDiffer ==
    \A m, n \in DOMAIN rows :
        rows[m].user = rows[n].user /\ rows[m].coupon = rows[n].coupon => m = n

CouponUseInv ==
    /\ TypeOK
    /\ RowsDiffer
    /\ \A c \in Calls : Sequence(c) /\ Found(c) /\ Connected(c)
    /\ UsedIsPaid

LEMMA InitInv == Init => CouponUseInv
<1> SUFFICES ASSUME Init
             PROVE  CouponUseInv
  OBVIOUS
<1>1. TypeOK
  BY DEF Init, TypeOK
<1>2. \A c \in Calls : Sequence(c) /\ Found(c) /\ Connected(c)
  BY CouponUseAssumption DEF Init, Sequence, Found, Connected, Written
<1>3. UsedIsPaid /\ RowsDiffer
  BY DEF Init, UsedIsPaid, RowsDiffer
<1> QED BY <1>1, <1>2, <1>3 DEF CouponUseInv

\* A discount is a number, of whatever sign and size.
LEMMA DiscountType ==
    ASSUME NEW c \in Calls
    PROVE  Discount(c) \in Int
<1> DEFINE t == Terms[CouponOf[c]]
<1>1. /\ CouponOf[c] \in Coupons /\ TotalOf[c] \in Int
      /\ t \in [type : {"PERCENTAGE", "FIXED"}, amount : Int, minOrderAmount : Int]
  BY CouponUseAssumption
<1>2. Discount(c) = IF t.type = "PERCENTAGE" THEN (TotalOf[c] * t.amount) \div 100 ELSE t.amount
  BY DEF Discount
<1>3. t.amount \in Int
  BY <1>1
<1>4. \A x, a \in Int : x * a \in Int
  OBVIOUS
<1>5. \A y \in Int : y \div 100 \in Int
  OBVIOUS
<1> HIDE DEF t
<1> QED BY <1>1, <1>2, <1>3, <1>4, <1>5

-----------------------------------------------------------------------------
(* The steps *)

LEMMA IssueStep ==
    ASSUME CouponUseInv, NEW g \in Grants, Issue(g[1], g[2])
    PROVE  CouponUseInv'
<1> DEFINE row == [user |-> g[1], coupon |-> g[2], status |-> "AVAILABLE"]
<1>1. row \in RowType
  BY CouponUseAssumption DEF RowType
<1>2. /\ rows' = Append(rows, row) /\ rows \in Seq(RowType)
      /\ UNCHANGED <<pc, discount, link, order, paid, event>>
  BY DEF Issue, callVars, CouponUseInv, TypeOK
<1> HIDE DEF row
<1>3. /\ rows' \in Seq(RowType)
      /\ DOMAIN rows' = 1 .. Len(rows) + 1 /\ DOMAIN rows = 1 .. Len(rows)
      /\ \A n \in DOMAIN rows : rows'[n] = rows[n]
      /\ rows'[Len(rows) + 1] = row
      /\ Len(rows) \in Nat
  BY <1>1, <1>2
<1>4. TypeOK'
  BY <1>2, <1>3 DEF CouponUseInv, TypeOK
<1>5. \A n \in DOMAIN rows : n \in DOMAIN rows'
  BY <1>3
<1>6. \A c \in Calls : Sequence(c)' /\ Found(c)' /\ Connected(c)'
  <2> SUFFICES ASSUME NEW c \in Calls
               PROVE  Sequence(c)' /\ Found(c)' /\ Connected(c)'
    OBVIOUS
  <2>1. Sequence(c) /\ Found(c) /\ Connected(c)
    BY DEF CouponUseInv
  <2>2. Sequence(c)'
    BY <1>2, <2>1 DEF Sequence, Written
  <2>3. Found(c)'
    BY <1>2, <1>3, <1>5, <2>1 DEF Found
  <2>4. Connected(c)'
    BY <1>2, <1>3, <1>5, <2>1 DEF Connected, Sequence, Written
  <2> QED BY <2>2, <2>3, <2>4
<1>7. UsedIsPaid'
  <2> SUFFICES ASSUME NEW n \in DOMAIN rows', rows'[n].status = "USED"
               PROVE  \E c \in paid : link[c] = n
    BY <1>2 DEF UsedIsPaid
  <2>1. n \in DOMAIN rows
    BY <1>3 DEF row
  <2> QED BY <1>3, <2>1 DEF CouponUseInv, UsedIsPaid
<1>8. RowsDiffer'
  <2>1. \A n \in DOMAIN rows : ~(rows[n].user = g[1] /\ rows[n].coupon = g[2])
    BY DEF Issue
  <2>2. row.user = g[1] /\ row.coupon = g[2]
    BY DEF row
  <2>3. RowsDiffer
    BY DEF CouponUseInv
  <2>4. \A n \in DOMAIN rows' : n \in DOMAIN rows \/ n = Len(rows) + 1
    BY <1>3
  <2> QED BY <1>3, <2>1, <2>2, <2>3, <2>4 DEF RowsDiffer
<1> QED BY <1>4, <1>6, <1>7, <1>8 DEF CouponUseInv

LEMMA PriceStep ==
    ASSUME CouponUseInv, NEW c \in Calls, Price(c)
    PROVE  CouponUseInv'
<1>1. TypeOK /\ (\A d \in Calls : Sequence(d) /\ Found(d) /\ Connected(d)) /\ UsedIsPaid
  BY DEF CouponUseInv
<1>0. RowsDiffer'
  BY DEF CouponUseInv, RowsDiffer, Price
<1>2. /\ UNCHANGED <<rows, order, paid, event>>
      /\ pc[c] = "start" /\ pc' = [pc EXCEPT ![c] = "priced"]
  BY DEF Price, Goto
<1>3. \/ /\ Owns(CallerOf[c], CouponOf[c]) /\ Enough(c)
         /\ discount' = [discount EXCEPT ![c] = Discount(c)]
         /\ link' = [link EXCEPT ![c] = CouponOf[c]]
      \/ UNCHANGED <<discount, link>>
  BY DEF Price, Link
<1>4. ~Written(c) /\ c \notin paid /\ event[c] = "none"
  BY <1>1, <1>2 DEF Sequence
<1>5. /\ discount' \in [Calls -> Int] /\ link' \in [Calls -> Coupons \cup {0}]
      /\ pc' \in [Calls -> {"start", "priced", "returned", "refused"}]
  <2>1. CASE UNCHANGED <<discount, link>>
    BY <1>1, <1>2, <2>1 DEF TypeOK
  <2>2. CASE /\ Enough(c) /\ discount' = [discount EXCEPT ![c] = Discount(c)]
             /\ link' = [link EXCEPT ![c] = CouponOf[c]]
    <3>1. Discount(c) \in Int /\ CouponOf[c] \in Coupons
      BY DiscountType, CouponUseAssumption
    <3> QED BY <1>1, <1>2, <2>2, <3>1 DEF TypeOK
  <2> QED BY <1>3, <2>1, <2>2
<1>6. \A d \in Calls \ {c} : discount'[d] = discount[d] /\ link'[d] = link[d] /\ pc'[d] = pc[d]
  BY <1>1, <1>2, <1>3 DEF TypeOK
<1>7. Found(c)'
  <2>1. CASE UNCHANGED <<discount, link>>
    BY <1>1, <1>2, <2>1 DEF Found
  <2>2. CASE /\ Owns(CallerOf[c], CouponOf[c]) /\ Enough(c)
             /\ discount' = [discount EXCEPT ![c] = Discount(c)]
             /\ link' = [link EXCEPT ![c] = CouponOf[c]]
    <3>1. discount'[c] = Discount(c) /\ link'[c] = CouponOf[c] /\ CouponOf[c] # 0
      BY <1>1, <2>2, CouponUseAssumption DEF TypeOK
    <3>2. \E n \in DOMAIN rows : /\ rows[n].user = CallerOf[c]
                                 /\ rows[n].coupon = CouponOf[c]
      BY <2>2 DEF Owns
    <3>3. Discount(c)' = Discount(c)
      BY DEF Discount
    <3> QED BY <1>2, <2>2, <3>1, <3>2, <3>3 DEF Found, Enough
  <2> QED BY <1>3, <2>1, <2>2
<1>8. Sequence(c)' /\ Connected(c)'
  BY <1>1, <1>2, <1>4 DEF TypeOK, Sequence, Connected, Written
<1>9. \A d \in Calls \ {c} : Sequence(d)' /\ Found(d)' /\ Connected(d)'
  BY <1>1, <1>2, <1>6 DEF Sequence, Found, Connected, Written
<1>10. UsedIsPaid'
  <2>1. \A d \in paid : d \in Calls \ {c}
    BY <1>1, <1>4 DEF TypeOK
  <2>2. \A d \in paid : link'[d] = link[d]
    BY <1>6, <2>1
  <2> QED BY <1>1, <1>2, <2>2 DEF UsedIsPaid
<1>11. TypeOK'
  BY <1>1, <1>2, <1>5 DEF TypeOK
<1> QED BY <1>0, <1>7, <1>8, <1>9, <1>10, <1>11 DEF CouponUseInv

\* The steps that change no row and no price: what they owe is the order of things.
LEMMA OrderStep ==
    ASSUME CouponUseInv, TypeOK', UNCHANGED <<rows, discount, link>>, paid \subseteq paid',
           \A c \in Calls : /\ Sequence(c)'
                            /\ Written(c)' /\ link[c] # 0 => link[c] \in DOMAIN rows
                            /\ event'[c] = "handled" => event[c] = "handled"
    PROVE  CouponUseInv'
<1>1. \A c \in Calls : Found(c)' /\ Connected(c)'
  BY DEF CouponUseInv, Found, Connected
<1>2. UsedIsPaid' /\ RowsDiffer'
  BY DEF CouponUseInv, UsedIsPaid, RowsDiffer
<1> QED BY <1>1, <1>2 DEF CouponUseInv

LEMMA SpendStep ==
    ASSUME CouponUseInv, NEW c \in Calls, Spend(c)
    PROVE  CouponUseInv'
<1>1. TypeOK /\ (\A d \in Calls : Sequence(d) /\ Found(d) /\ Connected(d)) /\ UsedIsPaid
  BY DEF CouponUseInv
<1>2. /\ UNCHANGED <<pc, discount, link, order, paid>>
      /\ event[c] = "read" /\ event' = [event EXCEPT ![c] = "handled"]
      /\ rows' = IF link[c] # 0 THEN [rows EXCEPT ![link[c]].status = "USED"] ELSE rows
  BY DEF Spend, Spendable, callVars
<1>3. c \in paid /\ Written(c) /\ (link[c] # 0 => link[c] \in DOMAIN rows)
  BY <1>1, <1>2 DEF Sequence, Connected
<1>4. /\ event'[c] = "handled" /\ \A d \in Calls \ {c} : event'[d] = event[d]
      /\ event' \in [Calls -> {"none", "emitted", "read", "handled", "lost"}]
  BY <1>1, <1>2 DEF TypeOK
<1>5. /\ rows' \in Seq(RowType) /\ DOMAIN rows' = DOMAIN rows
      /\ \A n \in DOMAIN rows :
            /\ rows'[n].user = rows[n].user /\ rows'[n].coupon = rows[n].coupon
            /\ rows'[n].status = IF link[c] # 0 /\ n = link[c] THEN "USED" ELSE rows[n].status
  <2>1. CASE link[c] = 0
    BY <1>1, <1>2, <2>1 DEF TypeOK
  <2>2. CASE link[c] # 0
    <3> DEFINE m == link[c]
    <3>1. rows \in Seq(RowType) /\ m \in DOMAIN rows /\ rows' = [rows EXCEPT ![m].status = "USED"]
      BY <1>1, <1>2, <1>3, <2>2 DEF TypeOK
    <3> HIDE DEF m
    <3>2. rows[m] \in RowType /\ rows'[m] = [rows[m] EXCEPT !.status = "USED"]
      BY <3>1
    <3>3. /\ rows'[m] \in RowType /\ rows'[m].status = "USED"
          /\ rows'[m].user = rows[m].user /\ rows'[m].coupon = rows[m].coupon
      BY <3>2 DEF RowType
    <3>4. /\ \A n \in DOMAIN rows \ {m} : rows'[n] = rows[n]
          /\ DOMAIN rows' = DOMAIN rows
      BY <3>1
    <3>5. rows' \in Seq(RowType)
      BY <3>1, <3>3
    <3> QED BY <2>2, <3>3, <3>4, <3>5 DEF m
  <2> QED BY <2>1, <2>2
<1>6. TypeOK'
  BY <1>1, <1>2, <1>4, <1>5 DEF TypeOK
<1>7. \A d \in Calls : Sequence(d)' /\ Found(d)'
  BY <1>1, <1>2, <1>3, <1>4, <1>5 DEF Sequence, Found, Written
<1>8. \A d \in Calls : Connected(d)'
  <2> SUFFICES ASSUME NEW d \in Calls
               PROVE  Connected(d)'
    OBVIOUS
  <2>1. (Written(d)' /\ link'[d] # 0) => link'[d] \in DOMAIN rows'
    BY <1>1, <1>2, <1>5 DEF Connected, Written
  <2>2. CASE d = c
    BY <1>2, <1>3, <1>5, <2>1, <2>2 DEF Connected
  <2>3. CASE d # c
    <3>1. event[d] = "handled" /\ link[d] # 0 => link[d] \in DOMAIN rows
      BY <1>1 DEF Sequence, Connected
    <3> QED BY <1>1, <1>2, <1>4, <1>5, <2>1, <2>3, <3>1 DEF Connected
  <2> QED BY <2>2, <2>3
<1>9. UsedIsPaid'
  BY <1>1, <1>2, <1>3, <1>5 DEF UsedIsPaid
<1>10. RowsDiffer'
  BY <1>5 DEF CouponUseInv, RowsDiffer
<1> QED BY <1>6, <1>7, <1>8, <1>9, <1>10 DEF CouponUseInv

LEMMA InvStep == CouponUseInv /\ [Next]_vars => CouponUseInv'
<1> SUFFICES ASSUME CouponUseInv, [Next]_vars
             PROVE  CouponUseInv'
  OBVIOUS
<1> USE DEF callVars
<1>1. TypeOK /\ \A c \in Calls : Sequence(c) /\ Found(c) /\ Connected(c)
  BY DEF CouponUseInv
<1>2. ASSUME NEW c \in Calls, Refuse(c)
      PROVE  CouponUseInv'
  <2>1. TypeOK' /\ UNCHANGED <<rows, discount, link, order, paid, event>>
    BY <1>1, <1>2 DEF TypeOK, Refuse, Goto
  <2>2. \A d \in Calls : pc'[d] = pc[d] \/ pc'[d] = "refused"
    BY <1>1, <1>2 DEF TypeOK, Refuse, Goto
  <2> QED BY <1>1, <2>1, <2>2, OrderStep DEF Sequence, Connected, Written
<1>3. ASSUME NEW c \in Calls, Write(c)
      PROVE  CouponUseInv'
  <2>1. TypeOK' /\ UNCHANGED <<rows, discount, link, paid, event>>
    BY <1>1, <1>3 DEF TypeOK, Write, Goto
  <2>2. \A d \in Calls : pc'[d] = pc[d] \/ (d = c /\ pc'[d] \in {"returned", "refused"})
    BY <1>1, <1>3 DEF TypeOK, Write, Goto
  <2>3. pc'[c] \in {"returned", "refused"} /\ pc[c] = "priced"
    BY <1>1, <1>3 DEF TypeOK, Write, Goto
  <2>4. \/ order' = order
        \/ order' = [order EXCEPT ![c] = "PENDING"] /\ (link[c] = 0 \/ link[c] \in DOMAIN rows)
    BY <1>3 DEF Write, CanConnect
  <2>5. /\ \A d \in Calls \ {c} : order'[d] = order[d]
        /\ order'[c] = order[c] \/ order'[c] = "PENDING"
        /\ order'[c] # order[c] => link[c] = 0 \/ link[c] \in DOMAIN rows
    BY <1>1, <2>4 DEF TypeOK
  <2>6. \A d \in Calls : Sequence(d)'
    BY <1>1, <2>1, <2>2, <2>3, <2>5 DEF Sequence, Written
  <2>7. \A d \in Calls : Written(d)' /\ link[d] # 0 => link[d] \in DOMAIN rows
    BY <1>1, <2>5 DEF Connected, Written
  <2> QED BY <2>1, <2>6, <2>7, OrderStep
<1>4. ASSUME NEW c \in Calls, Pay(c)
      PROVE  CouponUseInv'
  <2>1. PICK ok \in BOOLEAN :
           /\ order' = [order EXCEPT ![c] = IF ok THEN "PAID" ELSE @]
           /\ paid' = IF ok THEN paid \cup {c} ELSE paid
           /\ event' = [event EXCEPT ![c] = IF ok THEN "emitted" ELSE "none"]
    BY <1>4 DEF Pay, Announced
  <2>2. UNCHANGED <<rows, pc, discount, link>> /\ order[c] = "PENDING"
    BY <1>4 DEF Pay
  <2>3. /\ TypeOK' /\ paid \subseteq paid'
        /\ \A d \in Calls \ {c} : order'[d] = order[d] /\ event'[d] = event[d]
        /\ \A d \in Calls \ {c} : d \in paid' => d \in paid
        /\ order'[c] # "none" /\ event'[c] \in {"none", "emitted"}
        /\ event'[c] # "none" => c \in paid'
    BY <1>1, <2>1, <2>2 DEF TypeOK
  <2>4. \A d \in Calls : Sequence(d)'
    BY <1>1, <2>2, <2>3 DEF Sequence, Written
  <2> QED BY <1>1, <2>2, <2>3, <2>4, OrderStep DEF Connected, Written
<1>5. ASSUME NEW c \in Calls, Cancel(c) \/ SetPaid(c) \/ Lose(c)
      PROVE  CouponUseInv'
  <2>1. TypeOK' /\ UNCHANGED <<rows, pc, discount, link, paid>>
    BY <1>1, <1>5 DEF TypeOK, Cancel, SetPaid, Lose
  <2>2. \A d \in Calls : Written(d)' <=> Written(d)
    BY <1>1, <1>5 DEF TypeOK, Sequence, Cancel, SetPaid, Lose, Written
  <2>3. \A d \in Calls : /\ event'[d] # "none" <=> event[d] # "none"
                         /\ event'[d] = "handled" => event[d] = "handled"
    BY <1>1, <1>5 DEF TypeOK, Cancel, SetPaid, Lose
  <2>4. \A d \in Calls : Sequence(d)'
    BY <1>1, <2>1, <2>2, <2>3 DEF Sequence
  <2> QED BY <1>1, <2>1, <2>2, <2>3, <2>4, OrderStep DEF Connected
<1>6. CASE UNCHANGED vars
  BY <1>6 DEF vars, CouponUseInv, TypeOK, Sequence, Found, Connected, Written, UsedIsPaid,
     RowsDiffer, Discount
<1> QED
  BY <1>2, <1>3, <1>4, <1>5, <1>6, IssueStep, PriceStep, SpendStep
     DEF Next, HandlerStep, Finished

\* The invariant holds in every state of every run.
THEOREM CouponUseInvariant == Spec => []CouponUseInv
BY InitInv, InvStep, PTL DEF Spec

-----------------------------------------------------------------------------
(* What it is for *)

\* Every variable has its type: the handler never writes a row that is not there.
THEOREM TypeCorrect == Spec => []TypeOK
<1>1. CouponUseInv => TypeOK
  BY DEF CouponUseInv
<1> QED BY CouponUseInvariant, <1>1, PTL

\* A discount is given for a coupon the user has been issued, on an order whose
\* total reaches the minimum, at the coupon's terms, linked to a row that exists.
THEOREM DiscountHasReasons == Spec => []DiscountBacked
<1>1. CouponUseInv => DiscountBacked
  BY DEF CouponUseInv, Found, Connected, DiscountBacked
<1> QED BY CouponUseInvariant, <1>1, PTL

\* No row is used up by an order that was never paid.
THEOREM NotUsedForNothing == Spec => []UsedIsPaid
<1>1. CouponUseInv => UsedIsPaid
  BY DEF CouponUseInv
<1> QED BY CouponUseInvariant, <1>1, PTL

\* A user whose row has the number he names gets no second discount: the only
\* row the search could find is the one that a handler has used up.
THEOREM NoSecondDiscount == Spec => SpentForGood
<1>1. ASSUME CouponUseInv, [Next]_vars
      PROVE  [\A c, d \in Calls :
                 /\ discount'[c] # discount[c]
                 /\ link[d] # 0 /\ CouponOf[d] = CouponOf[c]
                 /\ event[d] = "handled"
                 => ~NamesOwnRow(c)]_vars
  <2> SUFFICES ASSUME NEW c \in Calls, NEW d \in Calls, discount'[c] # discount[c],
                      link[d] # 0, CouponOf[d] = CouponOf[c], event[d] = "handled",
                      NamesOwnRow(c)
               PROVE  FALSE
    OBVIOUS
  <2>1. /\ TypeOK /\ Sequence(d) /\ Found(d) /\ Connected(d) /\ RowsDiffer
    BY <1>1 DEF CouponUseInv
  <2>2. Price(c)
    <3>1. PICK e \in Calls : Price(e)
      BY <1>1 DEF Next, HandlerStep, Finished, vars, callVars, Issue, Refuse, Write, Pay,
         Cancel, SetPaid, Spend, Lose
    <3>2. \A f \in Calls \ {e} : discount'[f] = discount[f]
      BY <2>1, <3>1 DEF Price, TypeOK
    <3> QED BY <3>1, <3>2
  <2>3. Owns(CallerOf[c], CouponOf[c])
    <3>1. ~ UNCHANGED <<discount, link>>
      OBVIOUS
    <3> QED BY <2>2, <3>1 DEF Price
  <2>4. PICK n \in DOMAIN rows :
           /\ rows[n].user = CallerOf[c] /\ rows[n].coupon = CouponOf[c]
           /\ rows[n].status = "AVAILABLE"
    BY <2>3 DEF Owns
  <2>5. link[d] = CouponOf[d] /\ rows[link[d]].status = "USED"
    BY <2>1 DEF Found, Connected
  <2>6. n = CouponOf[c]
    BY <2>1, <2>4 DEF RowsDiffer, NamesOwnRow
  <2> QED BY <2>4, <2>5, <2>6
<1> QED BY CouponUseInvariant, <1>1, PTL DEF Spec, SpentForGood
=============================================================================
