---------------------------- MODULE MCProductCache ----------------------------
(***************************************************************************)
(* A small instance of ProductCache for TLC: one request for a detail      *)
(* and three for the popular products, all to one instance.  The unit of   *)
(* time is ten minutes, the TTLs are those of ProductService.              *)
(***************************************************************************)
EXTENDS ProductCache

MCTtl == [k \in Keys |-> IF k = "popular" THEN 1 ELSE 3]
MCInstanceOf == [r \in Requests |-> "i1"]
MCKeyOf == [r \in Requests |-> IF r \in {"p", "q", "s"} THEN "popular" ELSE "detail"]
=============================================================================
