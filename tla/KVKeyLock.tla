----------------------------- MODULE KVKeyLock -----------------------------
(***************************************************************************)
(* What a kv_rwl promises, and what KVTxn takes one for: a lock that its   *)
(* owner may take again, and that is free after as many releases.  Reading *)
(* and writing are not told apart.                                         *)
(***************************************************************************)
EXTENDS Integers

CONSTANTS Thread, NoOwner, Stripe

VARIABLES
  holder,   \* who has each lock
  times     \* how often it has been taken

keyLockVars == <<holder, times>>

Init ==
  /\ holder = [s \in Stripe |-> NoOwner]
  /\ times = [s \in Stripe |-> 0]

Acquire(t, s) ==
  /\ holder[s] \in {NoOwner, t}
  /\ holder' = [holder EXCEPT ![s] = t]
  /\ times' = [times EXCEPT ![s] = @ + 1]

Release(t, s) ==
  /\ holder[s] = t
  /\ times' = [times EXCEPT ![s] = @ - 1]
  /\ holder' = [holder EXCEPT ![s] = IF times[s] = 1 THEN NoOwner ELSE t]

Next == \E t \in Thread, s \in Stripe : Acquire(t, s) \/ Release(t, s)

Spec == Init /\ [][Next]_keyLockVars
=============================================================================
