---------------------------- MODULE MCCouponIssue ----------------------------
(***************************************************************************)
(* A small instance of CouponIssue for TLC.  The calls a1 and a2 are for   *)
(* the same user: one HTTP request and the event it emits.                 *)
(***************************************************************************)
EXTENDS CouponIssue

MCCallerOf == [c \in Calls |-> IF c \in {"a1", "a2"} THEN "u1" ELSE "u2"]

\* The faults a behaviour may have; those of one set combine.
MCFaultSets == {{"abort", "query"}, {"lease"}, {"mark"}, {"crash"}}
=============================================================================
