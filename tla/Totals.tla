------------------------------- MODULE Totals -------------------------------
(***************************************************************************)
(* Sums over the rows of a table, for the properties that say where stock  *)
(* and money have gone.  A row of value n stands for n units, one of value *)
(* -n for n missing ones, and a sum is the difference of two numbers of    *)
(* units: what it does when a row comes or goes then follows from facts    *)
(* about finite sets, and no induction over the table is needed.           *)
(***************************************************************************)
EXTENDS Integers, FiniteSets

\* The units of the rows in S, when row x is worth value[x], and the missing
\* ones; a row worth less than 1 has none of the former.
Units(value, S) == UNION {{x} \X (1 .. value[x]) : x \in S}
Missing(value, S) == UNION {{x} \X (1 .. -value[x]) : x \in S}

\* The sum of value[x] over a finite set S.
Total(value, S) == Cardinality(Units(value, S)) - Cardinality(Missing(value, S))
=============================================================================
