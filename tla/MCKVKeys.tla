------------------------------ MODULE MCKVKeys ------------------------------
(***************************************************************************)
(* Instances of KVKeys for TLC.                                            *)
(***************************************************************************)
EXTENDS KVKeys, TLC

CONSTANTS t1, t2, k1, k2, k3, k4, v, w, s1, s2

\* Keys of both kv_rwls move to another bucket when two buckets become four.
MCHash == (k1 :> 0) @@ (k2 :> 2) @@ (k3 :> 6) @@ (k4 :> 1)
MCStripeOf == (k1 :> s1) @@ (k2 :> s2) @@ (k3 :> s1) @@ (k4 :> s2)

Symmetry == Permutations(Thread) \cup Permutations(Value)
=============================================================================
