--------------------------- MODULE MCKVRecovery ---------------------------
(***************************************************************************)
(* Instances of KVRecovery for TLC.                                        *)
(***************************************************************************)
EXTENDS KVRecovery

CONSTANTS c1, c2, a, b, v, w, s1

MCStripeOf == [k \in Key |-> s1]
MCNoGarbage == {}
MCGarbage == {[tx_id |-> 3, last_lsn |-> 9]}

Symmetry == Permutations(Client) \cup Permutations(Value)
=============================================================================
