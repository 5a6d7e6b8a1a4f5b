---------------------------- MODULE MCOrderOutbox ----------------------------
(***************************************************************************)
(* Small instances of OrderOutbox for TLC: every status update is about    *)
(* the first order of request "a".                                         *)
(***************************************************************************)
EXTENDS OrderOutbox

MCTarget == [u \in Updates |-> <<"a", 1>>]
FirstCall == {<<"a", 1>>}
TwoUpdates == {<<"s", 1>>, <<"t", 1>>}
=============================================================================
