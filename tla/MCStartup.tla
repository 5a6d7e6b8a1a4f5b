------------------------------ MODULE MCStartup ------------------------------
(***************************************************************************)
(* A small instance of Startup for TLC: i1 and i2 start from disks of      *)
(* their own.                                                              *)
(***************************************************************************)
EXTENDS Startup

MCDiskOf == [i \in Instances |-> IF i = "i2" THEN "d2" ELSE "d1"]
MCMaxStarts == [i \in Instances |-> IF i = "i2" THEN 1 ELSE 2]
=============================================================================
