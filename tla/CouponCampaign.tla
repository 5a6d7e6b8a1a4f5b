--------------------------- MODULE CouponCampaign ---------------------------
(***************************************************************************)
(* What a first-come-first-served campaign promises, whoever serves it: a  *)
(* user gets one coupon at most, in one indivisible step, and every call   *)
(* is answered once, with a success only for the coupon that it was given  *)
(* itself.  Two more promises can be made from the start, or not, and are  *)
(* never taken up again once they are dropped: that the quantity is kept,  *)
(* and that nobody is turned away for nothing.  There are no locks, no     *)
(* counts, no queue and no transactions here; module CouponIssue shows how *)
(* the code gets this from them, and when it makes the two promises.       *)
(***************************************************************************)
EXTENDS Integers, FiniteSets

CONSTANTS
    Users,       \* UserAccount rows
    Calls,       \* calls of issueFcfsCoupon
    CallerOf,    \* the user each call is for
    Quantity     \* FcfsCoupon.totalQuantity

VARIABLES
    owned,    \* the users that have their coupon
    pending,  \* the calls that have given a coupon and not answered yet
    told,     \* the answer of each call, or "none"
    kept      \* the promises that still stand

campaignVars == <<owned, pending, told, kept>>

Promises == {"quantity", "answers"}
Answers == {"ok", "lock", "refused", "issued", "empty", "error"}

CampaignInit ==
    /\ owned = {}
    /\ pending = {}
    /\ told = [c \in Calls |-> "none"]
    /\ kept \in SUBSET Promises

\* Users without a coupon get theirs, all of them at once.
Hand(users) ==
    /\ users # {}
    /\ users \cap owned = {}
    /\ owned' = owned \cup users
    /\ "quantity" \in kept => Cardinality(owned') <= Quantity
    /\ UNCHANGED <<told, kept>>

\* Call c gives its user the coupon.
HandToCaller(c) ==
    /\ told[c] = "none"
    /\ c \notin pending
    /\ Hand({CallerOf[c]})
    /\ pending' = pending \cup {c}

\* A batch of queued requests is served.
HandToQueue(users) == Hand(users) /\ UNCHANGED pending

\* Whether call c may give this answer.
Truthful(c, answer) ==
    /\ answer = "ok" => c \in pending
    /\ c \in pending => answer \in {"ok", "error"}
    /\ "answers" \in kept =>
          /\ answer = "issued" => CallerOf[c] \in owned
          /\ answer = "empty" => Cardinality(owned) >= Quantity

Answer(c, answer) ==
    /\ told[c] = "none"
    /\ Truthful(c, answer)
    /\ told' = [told EXCEPT ![c] = answer]
    /\ pending' = pending \ {c}
    /\ UNCHANGED <<owned, kept>>

\* The instance dies and the answer with it: the coupon stays.
LoseAnswer(c) ==
    /\ c \in pending
    /\ pending' = pending \ {c}
    /\ UNCHANGED <<owned, told, kept>>

\* The other path joins in.
DropPromise ==
    /\ kept' \in SUBSET kept
    /\ UNCHANGED <<owned, pending, told>>

CampaignNext ==
    \/ \E c \in Calls :
          HandToCaller(c) \/ LoseAnswer(c) \/ \E answer \in Answers : Answer(c, answer)
    \/ \E users \in SUBSET Users : HandToQueue(users)
    \/ DropPromise

CampaignSpec == CampaignInit /\ [][CampaignNext]_campaignVars
=============================================================================
