------------------------------ MODULE MCKVTxn ------------------------------
(***************************************************************************)
(* Instances of KVTxn for TLC.                                             *)
(***************************************************************************)
EXTENDS KVTxnSerial

CONSTANTS c1, c2, a, b, v, w, s1, s2

MCStripeOf == [k \in Key |-> IF k = a THEN s1 ELSE s2]
MCStripeOfShared == [k \in Key |-> s1]
MCNoGarbage == {}
MCGarbage == {[tx_id |-> 0, last_lsn |-> 0]}

ClientSymmetry == Permutations(Client)
Symmetry == ClientSymmetry \cup Permutations(Value)
=============================================================================
