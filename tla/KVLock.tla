------------------------------- MODULE KVLock -------------------------------
(***************************************************************************)
(* The key locks: kv_rwl instruction by instruction, and the lock list of  *)
(* each thread's transaction.  kv_rwl_rlock and kv_rwl_wlock are the same  *)
(* code.  They compare owner with the thread itself before they hold the   *)
(* mutex, while other threads write it.                                    *)
(*                                                                         *)
(* The lock manager's counter is written and never read, and its rwlock is *)
(* only ever locked for reading: neither is here.  Handler threads are     *)
(* neither joined nor detached, so no pthread_t is given twice, and 0, the *)
(* owner of a free kv_rwl, is no thread's.                                 *)
(***************************************************************************)
EXTENDS Integers

CONSTANTS
  Thread,    \* the client threads
  NoOwner,   \* owner 0
  Stripe,    \* the kv_rwl objects of the lock manager
  MaxHeld    \* bound on the times a lock list names one of them

ASSUME LockConstants == NoOwner \notin Thread /\ MaxHeld \in Nat

VARIABLES
  mutex,        \* who holds the pthread mutex of each kv_rwl
  owner,        \* its owner
  lock_count,   \* its lock_count
  step,         \* the next instruction of a thread, "idle" outside the lock manager
  target,       \* the kv_rwl its call is about
  held          \* the lock list of its transaction: how often each kv_rwl is in it

lockVars == <<mutex, owner, lock_count, step, target, held>>

Step == {"idle", "compare", "again", "mutex", "count", "own",
         "compare_owner", "decrement", "disown", "release"}

LockInit ==
  /\ mutex = [s \in Stripe |-> NoOwner]
  /\ owner = [s \in Stripe |-> NoOwner]
  /\ lock_count = [s \in Stripe |-> 0]
  /\ step = [t \in Thread |-> "idle"]
  /\ target \in [Thread -> Stripe]
  /\ held = [t \in Thread |-> [s \in Stripe |-> 0]]

Go(t, label) == step' = [step EXCEPT ![t] = label]

\* kv_tx_add_lock, after the lock manager has returned.
Listed(t) == held' = [held EXCEPT ![t][target[t]] = @ + 1]

Call(t, s, label) ==
  /\ step[t] = "idle"
  /\ target' = [target EXCEPT ![t] = s]
  /\ Go(t, label)
  /\ UNCHANGED <<mutex, owner, lock_count>>

(***************************************************************************)
(* kv_lm_rlock, kv_lm_wlock.                                               *)
(***************************************************************************)
LockCall(t, s) ==
  /\ held[t][s] < MaxHeld
  /\ Call(t, s, "compare")
  /\ UNCHANGED held

Compare(t) ==
  /\ step[t] = "compare"
  /\ Go(t, IF owner[target[t]] = t THEN "again" ELSE "mutex")
  /\ UNCHANGED <<mutex, owner, lock_count, target, held>>

Again(t) ==
  /\ step[t] = "again"
  /\ lock_count' = [lock_count EXCEPT ![target[t]] = @ + 1]
  /\ Listed(t)
  /\ Go(t, "idle")
  /\ UNCHANGED <<mutex, owner, target>>

TakeMutex(t) ==
  /\ step[t] = "mutex"
  /\ mutex[target[t]] = NoOwner
  /\ mutex' = [mutex EXCEPT ![target[t]] = t]
  /\ Go(t, "count")
  /\ UNCHANGED <<owner, lock_count, target, held>>

SetCount(t) ==
  /\ step[t] = "count"
  /\ lock_count' = [lock_count EXCEPT ![target[t]] = 1]
  /\ Go(t, "own")
  /\ UNCHANGED <<mutex, owner, target, held>>

SetOwner(t) ==
  /\ step[t] = "own"
  /\ owner' = [owner EXCEPT ![target[t]] = t]
  /\ Listed(t)
  /\ Go(t, "idle")
  /\ UNCHANGED <<mutex, lock_count, target>>

(***************************************************************************)
(* kv_lm_unlock, called for each element of the lock list after it is      *)
(* taken off, and once more by a single command whose list is empty, with  *)
(* a key that is freed or given away: any kv_rwl.                          *)
(***************************************************************************)
UnlockCall(t, s) ==
  /\ held[t][s] > 0
  /\ Call(t, s, "compare_owner")
  /\ held' = [held EXCEPT ![t][s] = @ - 1]

StrayUnlock(t, s) ==
  /\ \A r \in Stripe : held[t][r] = 0
  /\ Call(t, s, "compare_owner")
  /\ UNCHANGED held

CompareOwner(t) ==
  /\ step[t] = "compare_owner"
  /\ Go(t, IF owner[target[t]] = t THEN "decrement" ELSE "idle")
  /\ UNCHANGED <<mutex, owner, lock_count, target, held>>

DecrementOnce(t) ==   \* mutant: the count is not tested for zero
  /\ step[t] = "decrement"
  /\ lock_count' = [lock_count EXCEPT ![target[t]] = @ - 1]
  /\ Go(t, "disown")
  /\ UNCHANGED <<mutex, owner, target, held>>

Decrement(t) ==
  /\ step[t] = "decrement"
  /\ lock_count' = [lock_count EXCEPT ![target[t]] = @ - 1]
  /\ Go(t, IF lock_count[target[t]] = 1 THEN "disown" ELSE "idle")
  /\ UNCHANGED <<mutex, owner, target, held>>

DisownLate(t) ==   \* mutant: the mutex is unlocked before owner is reset
  \/ /\ step[t] = "disown"
     /\ mutex' = [mutex EXCEPT ![target[t]] = NoOwner]
     /\ Go(t, "release")
     /\ UNCHANGED <<owner, lock_count, target, held>>
  \/ /\ step[t] = "release"
     /\ owner' = [owner EXCEPT ![target[t]] = NoOwner]
     /\ Go(t, "idle")
     /\ UNCHANGED <<mutex, lock_count, target, held>>

Disown(t) ==
  /\ step[t] = "disown"
  /\ owner' = [owner EXCEPT ![target[t]] = NoOwner]
  /\ Go(t, "release")
  /\ UNCHANGED <<mutex, lock_count, target, held>>

ReleaseMutex(t) ==
  /\ step[t] = "release"
  /\ mutex' = [mutex EXCEPT ![target[t]] = NoOwner]
  /\ Go(t, "idle")
  /\ UNCHANGED <<owner, lock_count, target, held>>

LockNext(t) ==
  \/ \E s \in Stripe : LockCall(t, s) \/ UnlockCall(t, s) \/ StrayUnlock(t, s)
  \/ Compare(t) \/ Again(t) \/ TakeMutex(t) \/ SetCount(t) \/ SetOwner(t)
  \/ CompareOwner(t) \/ Decrement(t) \/ Disown(t) \/ ReleaseMutex(t)

LockSpec == LockInit /\ [][\E t \in Thread : LockNext(t)]_lockVars

LockTypeOK ==
  /\ mutex \in [Stripe -> Thread \cup {NoOwner}]
  /\ owner \in [Stripe -> Thread \cup {NoOwner}]
  /\ lock_count \in [Stripe -> Nat]
  /\ step \in [Thread -> Step]
  /\ target \in [Thread -> Stripe]
  /\ held \in [Thread -> [Stripe -> Nat]]

(***************************************************************************)
(* What the instructions make of a kv_rwl.                                 *)
(***************************************************************************)

\* Outside the lock manager a thread owns exactly the locks its transaction
\* lists, and a lock it owns is counted as often as it is listed: no lock is
\* lost, none is kept for ever, and a stray unlock takes nothing away.
ListMatchesCount ==
  \A t \in Thread : step[t] = "idle" =>
    \A s \in Stripe :
      /\ owner[s] = t <=> held[t][s] > 0
      /\ owner[s] = t => mutex[s] = t /\ lock_count[s] = held[t][s]

\* The lock is taken with the mutex and given back with it.  In between, and
\* but for the instructions next to the mutex's, lock_count says how often.
Between(t, s) == target[t] = s /\ step[t] \in {"count", "own", "disown", "release"}

Times(s) ==
  IF mutex[s] = NoOwner THEN 0
  ELSE IF Between(mutex[s], s) THEN 1 ELSE lock_count[s]

KeyLock == INSTANCE KVKeyLock WITH holder <- mutex, times <- [s \in Stripe |-> Times(s)]

\* The instructions, whatever other threads do between two of them, implement
\* the lock that KVTxn takes in one step: although owner is compared without
\* the mutex, no two threads have a lock, and only its holder releases it.
ImplementsKeyLock == KeyLock!Spec
=============================================================================
