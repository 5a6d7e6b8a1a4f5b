-------------------------------- MODULE MCCart --------------------------------
(***************************************************************************)
(* Small instances of Cart for TLC: user u1 adds the rows a and b,         *)
(* deletes a with d and changes b with p; user u2 tries to delete a with   *)
(* x.                                                                      *)
(***************************************************************************)
EXTENDS Cart

MCUserOf == [r \in Requests |-> IF r = "x" THEN "u2" ELSE "u1"]
MCRowOf == [e \in Updates \cup Removals |-> IF e = "p" THEN "b" ELSE "a"]
MCQuantity == [r \in Adds \cup Updates |-> 1]
=============================================================================
