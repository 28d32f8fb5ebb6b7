--------------------------- MODULE KVKeysProofs ---------------------------
(***************************************************************************)
(* The instructions of kv_rwl, for every set of threads and of locks: they *)
(* keep owner, lock_count and the lock lists in step, and implement the    *)
(* key lock.  And the hash table under these locks, for every set of keys, *)
(* hash function and number of resizes: it is well formed, what a get has  *)
(* found stays there, and its calls implement a map.                       *)
(***************************************************************************)
EXTENDS KVKeys, SequencesExt, FiniteSetTheorems, NaturalsInduction, WellFoundedInduction, TLAPS

USE DEF lockVars

(***************************************************************************)
(* The inductive invariant.                                                *)
(***************************************************************************)

\* The owner of a kv_rwl holds its mutex, and so does a thread that is about to
\* become its owner or has just ceased to be.
OwnerHasMutex ==
  \A s \in Stripe :
    /\ owner[s] # NoOwner => mutex[s] = owner[s]
    /\ mutex[s] # NoOwner /\ owner[s] = NoOwner =>
         target[mutex[s]] = s /\ step[mutex[s]] \in {"count", "own", "release"}

\* What a thread that is inside kv_rwl has found out or done.
StepKnows(t) ==
  /\ step[t] \in {"again", "decrement", "disown"} => owner[target[t]] = t
  /\ step[t] = "mutex" => owner[target[t]] # t
  /\ step[t] \in {"count", "own", "release"} =>
       mutex[target[t]] = t /\ owner[target[t]] = NoOwner
  /\ step[t] = "own" => lock_count[target[t]] = 1

\* An unlock that is going on is no longer in the lock list and not yet off the
\* count.
Uncounted(t, s) ==
  IF target[t] = s /\ step[t] \in {"compare_owner", "decrement"} THEN 1 ELSE 0

Counted(t) ==
  \A s \in Stripe :
    IF owner[s] = t
    THEN /\ lock_count[s] = held[t][s] + Uncounted(t, s)
         /\ lock_count[s] = 0 <=> target[t] = s /\ step[t] = "disown"
    ELSE held[t][s] = 0

LockInv ==
  LockTypeOK /\ OwnerHasMutex /\ \A t \in Thread : StepKnows(t) /\ Counted(t)

(***************************************************************************)
(* Its proof, an instruction at a time.                                    *)
(***************************************************************************)
LEMMA LockInvInit == LockInit => LockInv
BY LockConstants DEF LockInit, LockInv, LockTypeOK, Step, OwnerHasMutex, StepKnows, Counted

\* The types of the variables, and what one thread's step leaves alone: where
\* the others are.
LEMMA OthersStay ==
  ASSUME LockTypeOK, NEW t \in Thread, NEW label \in Step, Go(t, label)
  PROVE  /\ step' \in [Thread -> Step]
         /\ step'[t] = label
         /\ \A u \in Thread : u # t => step'[u] = step[u]
BY DEF Go, LockTypeOK

\* A call from outside kv_rwl starts with nothing but its target.
LEMMA CallKeeps ==
  ASSUME LockInv, NEW t \in Thread, NEW s \in Stripe,
         LockCall(t, s) \/ UnlockCall(t, s) \/ StrayUnlock(t, s)
  PROVE  LockInv'
<1>1. /\ LockTypeOK /\ OwnerHasMutex /\ step[t] = "idle"
      /\ \A u \in Thread : StepKnows(u) /\ Counted(u)
  BY DEF LockInv, LockCall, UnlockCall, StrayUnlock, Call
<1>2. PICK label \in {"compare", "compare_owner"} : Call(t, s, label)
  BY DEF LockCall, UnlockCall, StrayUnlock
<1>3. /\ step'[t] = label /\ target'[t] = s /\ step' \in [Thread -> Step]
      /\ target' \in [Thread -> Stripe]
      /\ \A u \in Thread : u # t => step'[u] = step[u] /\ target'[u] = target[u]
      /\ UNCHANGED <<mutex, owner, lock_count>>
  <2>1. label \in Step /\ Go(t, label) /\ target' = [target EXCEPT ![t] = s]
    BY <1>2 DEF Call, Step
  <2>2. target \in [Thread -> Stripe] /\ UNCHANGED <<mutex, owner, lock_count>>
    BY <1>1, <1>2 DEF Call, LockTypeOK
  <2> QED BY <1>1, <2>1, <2>2, OthersStay
<1>4. /\ held' \in [Thread -> [Stripe -> Nat]]
      /\ \A u \in Thread : u # t => held'[u] = held[u]
  <2>1. held \in [Thread -> [Stripe -> Nat]] /\ held[t] \in [Stripe -> Nat]
    BY <1>1 DEF LockTypeOK
  <2>2. CASE UnlockCall(t, s)
    <3>1. held' = [held EXCEPT ![t] = [held[t] EXCEPT ![s] = held[t][s] - 1]] /\ held[t][s] > 0
      BY <2>1, <2>2 DEF UnlockCall
    <3>2. [held[t] EXCEPT ![s] = held[t][s] - 1] \in [Stripe -> Nat]
      BY <2>1, <3>1
    <3> QED BY <2>1, <3>1, <3>2
  <2>3. CASE held' = held
    BY <2>1, <2>3
  <2> QED BY <2>2, <2>3 DEF LockCall, StrayUnlock
<1>5. LockTypeOK'
  BY <1>1, <1>3, <1>4 DEF LockTypeOK
<1>6. OwnerHasMutex'
  BY <1>1, <1>3, LockConstants DEF OwnerHasMutex, LockTypeOK
<1>7. \A u \in Thread : StepKnows(u)'
  BY <1>1, <1>3 DEF StepKnows
<1>8. \A u \in Thread : u # t => Counted(u)'
  BY <1>1, <1>3, <1>4 DEF Counted, Uncounted
<1>9. Counted(t)'
  <2>1. CASE LockCall(t, s)
    BY <1>1, <1>3, <2>1 DEF LockCall, Call, Go, Counted, Uncounted, LockTypeOK
  <2>2. CASE UnlockCall(t, s)
    <3>1. /\ step'[t] = "compare_owner" /\ held[t][s] > 0 /\ held[t] \in [Stripe -> Nat]
          /\ held'[t] = [held[t] EXCEPT ![s] = @ - 1] /\ lock_count \in [Stripe -> Nat]
      BY <1>1, <2>2 DEF UnlockCall, Call, Go, LockTypeOK
    <3> QED BY <1>1, <1>3, <3>1 DEF Counted, Uncounted
  <2>3. CASE StrayUnlock(t, s)
    <3>1. \A r \in Stripe : owner[r] # t
      BY <1>1, <2>3 DEF StrayUnlock, Counted, Uncounted, LockTypeOK
    <3> QED BY <1>1, <1>3, <2>3, <3>1 DEF StrayUnlock, Counted
  <2> QED BY <2>1, <2>2, <2>3
<1> QED BY <1>5, <1>6, <1>7, <1>8, <1>9 DEF LockInv

\* The instructions of kv_rwl_rlock, kv_rwl_wlock and kv_rwl_unlock.
LEMMA InstructionKeeps ==
  ASSUME LockInv, NEW t \in Thread,
         \/ Compare(t) \/ Again(t) \/ TakeMutex(t) \/ SetCount(t) \/ SetOwner(t)
         \/ CompareOwner(t) \/ Decrement(t) \/ Disown(t) \/ ReleaseMutex(t)
  PROVE  LockInv'
<1>1. /\ LockTypeOK /\ OwnerHasMutex /\ \A u \in Thread : StepKnows(u) /\ Counted(u)
      /\ target[t] \in Stripe /\ NoOwner \notin Thread
      /\ lock_count \in [Stripe -> Nat] /\ held \in [Thread -> [Stripe -> Nat]]
      /\ owner \in [Stripe -> Thread \cup {NoOwner}]
      /\ mutex \in [Stripe -> Thread \cup {NoOwner}]
  BY LockConstants DEF LockInv, LockTypeOK
<1>2. CASE Compare(t) \/ CompareOwner(t)
  <2>1. PICK label \in Step : Go(t, label)
    BY <1>2 DEF Compare, CompareOwner, Step
  <2>2. /\ step' \in [Thread -> Step] /\ step'[t] = label
        /\ \A u \in Thread : u # t => step'[u] = step[u]
        /\ UNCHANGED <<mutex, owner, lock_count, target, held>>
    BY <1>1, <1>2, <2>1, OthersStay DEF Compare, CompareOwner
  <2>3. \/ step[t] = "compare" /\ step'[t] = IF owner[target[t]] = t THEN "again" ELSE "mutex"
        \/ step[t] = "compare_owner" /\ step'[t] = IF owner[target[t]] = t THEN "decrement" ELSE "idle"
    BY <1>1, <1>2 DEF Compare, CompareOwner, Go, LockTypeOK
  <2>4. LockTypeOK'
    BY <1>1, <2>2 DEF LockTypeOK
  <2>5. OwnerHasMutex'
    BY <1>1, <2>2, <2>3 DEF OwnerHasMutex
  <2>6. ASSUME NEW u \in Thread PROVE StepKnows(u)' /\ Counted(u)'
    BY <1>1, <2>2, <2>3 DEF StepKnows, Counted, Uncounted
  <2> QED BY <2>4, <2>5, <2>6 DEF LockInv
<1>3. CASE Again(t)
  <2>1. /\ step[t] = "again" /\ step'[t] = "idle" /\ step' \in [Thread -> Step]
        /\ \A u \in Thread : u # t => step'[u] = step[u]
        /\ UNCHANGED <<mutex, owner, target>>
    BY <1>1, <1>3, OthersStay DEF Again, Step
  <2>2. /\ lock_count' = [lock_count EXCEPT ![target[t]] = @ + 1]
        /\ held' = [held EXCEPT ![t][target[t]] = @ + 1]
        /\ owner[target[t]] = t
    BY <1>1, <1>3, <2>1 DEF Again, Listed, StepKnows
  <2>3. /\ LockTypeOK'
        /\ \A u \in Thread, s \in Stripe :
             held'[u][s] = IF u = t /\ s = target[t] THEN held[u][s] + 1 ELSE held[u][s]
        /\ \A s \in Stripe :
             lock_count'[s] = IF s = target[t] THEN lock_count[s] + 1 ELSE lock_count[s]
    BY <1>1, <2>1, <2>2 DEF LockTypeOK
  <2>4. OwnerHasMutex'
    BY <1>1, <2>1 DEF OwnerHasMutex
  <2>5. ASSUME NEW u \in Thread PROVE StepKnows(u)'
    BY <1>1, <2>1, <2>2, <2>3 DEF StepKnows, LockTypeOK
  <2>6. ASSUME NEW u \in Thread PROVE Counted(u)'
    BY <1>1, <2>1, <2>2, <2>3 DEF Counted, Uncounted
  <2> QED BY <2>3, <2>4, <2>5, <2>6 DEF LockInv
<1>4. CASE TakeMutex(t)
  <2>1. /\ step[t] = "mutex" /\ step'[t] = "count" /\ step' \in [Thread -> Step]
        /\ \A u \in Thread : u # t => step'[u] = step[u]
        /\ UNCHANGED <<owner, lock_count, target, held>>
        /\ mutex[target[t]] = NoOwner /\ mutex' = [mutex EXCEPT ![target[t]] = t]
    BY <1>1, <1>4, OthersStay DEF TakeMutex, Step
  <2>2. LockTypeOK' /\ owner[target[t]] = NoOwner
    BY <1>1, <2>1 DEF LockTypeOK, OwnerHasMutex
  <2>3. OwnerHasMutex'
    BY <1>1, <2>1, <2>2 DEF OwnerHasMutex
  <2>4. ASSUME NEW u \in Thread PROVE StepKnows(u)' /\ Counted(u)'
    BY <1>1, <2>1, <2>2 DEF StepKnows, Counted, Uncounted, LockTypeOK
  <2> QED BY <2>2, <2>3, <2>4 DEF LockInv
<1>5. CASE SetCount(t)
  <2>1. /\ step[t] = "count" /\ step'[t] = "own" /\ step' \in [Thread -> Step]
        /\ \A u \in Thread : u # t => step'[u] = step[u]
        /\ UNCHANGED <<mutex, owner, target, held>>
        /\ lock_count' = [lock_count EXCEPT ![target[t]] = 1]
    BY <1>1, <1>5, OthersStay DEF SetCount, Step
  <2>2. LockTypeOK' /\ owner[target[t]] = NoOwner /\ mutex[target[t]] = t
    BY <1>1, <2>1 DEF LockTypeOK, StepKnows
  <2>3. OwnerHasMutex'
    BY <1>1, <2>1, <2>2 DEF OwnerHasMutex
  <2>4. ASSUME NEW u \in Thread PROVE StepKnows(u)' /\ Counted(u)'
    BY <1>1, <2>1, <2>2 DEF StepKnows, Counted, Uncounted, LockTypeOK
  <2> QED BY <2>2, <2>3, <2>4 DEF LockInv
<1>6. CASE SetOwner(t)
  <2>1. /\ step[t] = "own" /\ step'[t] = "idle" /\ step' \in [Thread -> Step]
        /\ \A u \in Thread : u # t => step'[u] = step[u]
        /\ UNCHANGED <<mutex, lock_count, target>>
        /\ owner' = [owner EXCEPT ![target[t]] = t]
        /\ held' = [held EXCEPT ![t][target[t]] = @ + 1]
    BY <1>1, <1>6, OthersStay DEF SetOwner, Listed, Step
  <2>2. /\ LockTypeOK' /\ owner[target[t]] = NoOwner /\ mutex[target[t]] = t
        /\ lock_count[target[t]] = 1
        /\ \A u \in Thread, s \in Stripe :
             held'[u][s] = IF u = t /\ s = target[t] THEN held[u][s] + 1 ELSE held[u][s]
    BY <1>1, <2>1 DEF LockTypeOK, StepKnows
  <2>3. OwnerHasMutex'
    BY <1>1, <2>1, <2>2 DEF OwnerHasMutex
  <2>4. ASSUME NEW u \in Thread PROVE StepKnows(u)'
    BY <1>1, <2>1, <2>2 DEF StepKnows, LockTypeOK
  <2>5. ASSUME NEW u \in Thread PROVE Counted(u)'
    BY <1>1, <2>1, <2>2 DEF Counted, Uncounted
  <2> QED BY <2>2, <2>3, <2>4, <2>5 DEF LockInv
<1>7. CASE Decrement(t)
  <2>1. /\ step[t] = "decrement" /\ step' \in [Thread -> Step]
        /\ step'[t] = IF lock_count[target[t]] = 1 THEN "disown" ELSE "idle"
        /\ \A u \in Thread : u # t => step'[u] = step[u]
        /\ UNCHANGED <<mutex, owner, target, held>>
        /\ lock_count' = [lock_count EXCEPT ![target[t]] = @ - 1]
    BY <1>1, <1>7, OthersStay DEF Decrement, Step
  <2>2. /\ owner[target[t]] = t
        /\ lock_count[target[t]] = held[t][target[t]] + 1 /\ held[t][target[t]] \in Nat
    BY <1>1, <2>1 DEF StepKnows, Counted, Uncounted
  <2>3. /\ LockTypeOK'
        /\ \A s \in Stripe :
             lock_count'[s] = IF s = target[t] THEN lock_count[s] - 1 ELSE lock_count[s]
    BY <1>1, <2>1, <2>2 DEF LockTypeOK
  <2>4. OwnerHasMutex'
    BY <1>1, <2>1, <2>2 DEF OwnerHasMutex
  <2>5. ASSUME NEW u \in Thread PROVE StepKnows(u)'
    BY <1>1, <2>1, <2>2, <2>3 DEF StepKnows, LockTypeOK
  <2>6. ASSUME NEW u \in Thread PROVE Counted(u)'
    BY <1>1, <2>1, <2>2, <2>3 DEF Counted, Uncounted
  <2> QED BY <2>3, <2>4, <2>5, <2>6 DEF LockInv
<1>8. CASE Disown(t)
  <2>1. /\ step[t] = "disown" /\ step'[t] = "release" /\ step' \in [Thread -> Step]
        /\ \A u \in Thread : u # t => step'[u] = step[u]
        /\ UNCHANGED <<mutex, lock_count, target, held>>
        /\ owner' = [owner EXCEPT ![target[t]] = NoOwner]
    BY <1>1, <1>8, OthersStay DEF Disown, Step
  <2>2. LockTypeOK' /\ owner[target[t]] = t /\ mutex[target[t]] = t
    BY <1>1, <2>1 DEF LockTypeOK, StepKnows, OwnerHasMutex
  <2>3. OwnerHasMutex'
    BY <1>1, <2>1, <2>2 DEF OwnerHasMutex
  <2>4. ASSUME NEW u \in Thread PROVE StepKnows(u)'
    BY <1>1, <2>1, <2>2 DEF StepKnows, LockTypeOK
  <2>5. ASSUME NEW u \in Thread PROVE Counted(u)'
    BY <1>1, <2>1, <2>2 DEF Counted, Uncounted
  <2> QED BY <2>2, <2>3, <2>4, <2>5 DEF LockInv
<1>9. CASE ReleaseMutex(t)
  <2>1. /\ step[t] = "release" /\ step'[t] = "idle" /\ step' \in [Thread -> Step]
        /\ \A u \in Thread : u # t => step'[u] = step[u]
        /\ UNCHANGED <<owner, lock_count, target, held>>
        /\ mutex' = [mutex EXCEPT ![target[t]] = NoOwner]
    BY <1>1, <1>9, OthersStay DEF ReleaseMutex, Step
  <2>2. LockTypeOK' /\ owner[target[t]] = NoOwner /\ mutex[target[t]] = t
    BY <1>1, <2>1 DEF LockTypeOK, StepKnows
  <2>3. OwnerHasMutex'
    BY <1>1, <2>1, <2>2 DEF OwnerHasMutex
  <2>4. ASSUME NEW u \in Thread PROVE StepKnows(u)' /\ Counted(u)'
    BY <1>1, <2>1, <2>2 DEF StepKnows, Counted, Uncounted, LockTypeOK
  <2> QED BY <2>2, <2>3, <2>4 DEF LockInv
<1> QED BY <1>2, <1>3, <1>4, <1>5, <1>6, <1>7, <1>8, <1>9

LEMMA LockInvNext == LockInv /\ [\E t \in Thread : LockNext(t)]_lockVars => LockInv'
<1> SUFFICES ASSUME LockInv, [\E t \in Thread : LockNext(t)]_lockVars PROVE LockInv'
  OBVIOUS
<1>1. CASE UNCHANGED lockVars
  BY <1>1 DEF LockInv, LockTypeOK, OwnerHasMutex, StepKnows, Counted, Uncounted
<1>2. ASSUME NEW t \in Thread, LockNext(t) PROVE LockInv'
  BY <1>2, CallKeeps, InstructionKeeps DEF LockNext
<1> QED BY <1>1, <1>2

\* What the client threads do with the table leaves the locks alone.
LEMMA KeysAreLocks ==
  /\ Init => LockInit
  /\ [Next]_keysVars => [\E t \in Thread : LockNext(t)]_lockVars
BY DEF Init, Next, keysVars, Locking, Hashing

LEMMA LockInvAlways == Spec => []LockInv
BY LockInvInit, LockInvNext, KeysAreLocks, PTL DEF Spec

(***************************************************************************)
(* What a step is of the key lock that is implemented.                     *)
(***************************************************************************)
Stutters == mutex' = mutex /\ \A s \in Stripe : Times(s)' = Times(s)

Takes(t, s) ==
  /\ mutex[s] \in {NoOwner, t} /\ mutex' = [mutex EXCEPT ![s] = t]
  /\ \A r \in Stripe : Times(r)' = IF r = s THEN Times(r) + 1 ELSE Times(r)

Gives(t, s) ==
  /\ mutex[s] = t /\ mutex' = [mutex EXCEPT ![s] = IF Times(s) = 1 THEN NoOwner ELSE t]
  /\ \A r \in Stripe : Times(r)' = IF r = s THEN Times(r) - 1 ELSE Times(r)

LEMMA StepOfKeyLock ==
  ASSUME LockInv, NEW t \in Thread, LockNext(t)
  PROVE  Stutters \/ Takes(t, target[t]) \/ Gives(t, target[t])
<1>1. /\ LockTypeOK /\ OwnerHasMutex /\ StepKnows(t) /\ Counted(t)
      /\ target[t] \in Stripe /\ NoOwner \notin Thread
      /\ lock_count \in [Stripe -> Nat] /\ held \in [Thread -> [Stripe -> Nat]]
      /\ owner \in [Stripe -> Thread \cup {NoOwner}]
      /\ mutex \in [Stripe -> Thread \cup {NoOwner}]
      /\ step \in [Thread -> Step] /\ target \in [Thread -> Stripe]
  BY LockConstants DEF LockInv, LockTypeOK
<1>2. CASE \E s \in Stripe : LockCall(t, s) \/ UnlockCall(t, s) \/ StrayUnlock(t, s)
  <2>1. PICK s \in Stripe, label \in {"compare", "compare_owner"} : Call(t, s, label)
    BY <1>2 DEF LockCall, UnlockCall, StrayUnlock
  <2>2. /\ step[t] = "idle" /\ step'[t] = label
        /\ \A u \in Thread : u # t => step'[u] = step[u] /\ target'[u] = target[u]
        /\ UNCHANGED <<mutex, lock_count>>
    BY <1>1, <2>1 DEF Call, Go
  <2>3. Stutters
    BY <1>1, <2>2 DEF Stutters, Times, Between
  <2> QED BY <2>3
<1>3. CASE Compare(t) \/ CompareOwner(t)
  <2>1. /\ step[t] \in {"compare", "compare_owner"}
        /\ step'[t] \in {"again", "mutex", "decrement", "idle"}
        /\ \A u \in Thread : u # t => step'[u] = step[u]
        /\ UNCHANGED <<mutex, lock_count, target>>
    BY <1>1, <1>3 DEF Compare, CompareOwner, Go
  <2>2. Stutters
    BY <1>1, <2>1 DEF Stutters, Times, Between
  <2> QED BY <2>2
<1>4. CASE Again(t)
  <2>1. /\ step[t] = "again" /\ step'[t] = "idle"
        /\ \A u \in Thread : u # t => step'[u] = step[u]
        /\ UNCHANGED <<mutex, target>>
        /\ lock_count' = [lock_count EXCEPT ![target[t]] = @ + 1]
    BY <1>1, <1>4 DEF Again, Go
  <2>2. mutex[target[t]] = t
    BY <1>1, <2>1 DEF StepKnows, OwnerHasMutex
  <2>3. Takes(t, target[t])
    BY <1>1, <2>1, <2>2 DEF Takes, Times, Between
  <2> QED BY <2>3
<1>5. CASE TakeMutex(t)
  <2>1. /\ step[t] = "mutex" /\ step'[t] = "count"
        /\ \A u \in Thread : u # t => step'[u] = step[u]
        /\ UNCHANGED <<lock_count, target>>
        /\ mutex[target[t]] = NoOwner /\ mutex' = [mutex EXCEPT ![target[t]] = t]
    BY <1>1, <1>5 DEF TakeMutex, Go
  <2>2. Takes(t, target[t])
    BY <1>1, <2>1 DEF Takes, Times, Between
  <2> QED BY <2>2
<1>6. CASE SetCount(t)
  <2>1. /\ step[t] = "count" /\ step'[t] = "own"
        /\ \A u \in Thread : u # t => step'[u] = step[u]
        /\ UNCHANGED <<mutex, target>>
        /\ lock_count' = [lock_count EXCEPT ![target[t]] = 1]
    BY <1>1, <1>6 DEF SetCount, Go
  <2>2. mutex[target[t]] = t
    BY <1>1, <2>1 DEF StepKnows
  <2>3. Stutters
    BY <1>1, <2>1, <2>2 DEF Stutters, Times, Between
  <2> QED BY <2>3
<1>7. CASE SetOwner(t)
  <2>1. /\ step[t] = "own" /\ step'[t] = "idle"
        /\ \A u \in Thread : u # t => step'[u] = step[u]
        /\ UNCHANGED <<mutex, target, lock_count>>
    BY <1>1, <1>7 DEF SetOwner, Go
  <2>2. mutex[target[t]] = t /\ lock_count[target[t]] = 1
    BY <1>1, <2>1 DEF StepKnows
  <2>3. Stutters
    BY <1>1, <2>1, <2>2 DEF Stutters, Times, Between
  <2> QED BY <2>3
<1>8. CASE Decrement(t)
  <2>1. /\ step[t] = "decrement"
        /\ step'[t] = IF lock_count[target[t]] = 1 THEN "disown" ELSE "idle"
        /\ \A u \in Thread : u # t => step'[u] = step[u]
        /\ UNCHANGED <<mutex, target>>
        /\ lock_count' = [lock_count EXCEPT ![target[t]] = @ - 1]
    BY <1>1, <1>8 DEF Decrement, Go
  <2>2. mutex[target[t]] = t
    BY <1>1, <2>1 DEF StepKnows, OwnerHasMutex
  <2>3. CASE lock_count[target[t]] = 1
    <3>1. Stutters
      BY <1>1, <2>1, <2>2, <2>3 DEF Stutters, Times, Between
    <3> QED BY <3>1
  <2>4. CASE lock_count[target[t]] # 1
    <3>1. Gives(t, target[t])
      BY <1>1, <2>1, <2>2, <2>4 DEF Gives, Times, Between
    <3> QED BY <3>1
  <2> QED BY <2>3, <2>4
<1>9. CASE Disown(t)
  <2>1. /\ step[t] = "disown" /\ step'[t] = "release"
        /\ \A u \in Thread : u # t => step'[u] = step[u]
        /\ UNCHANGED <<mutex, target, lock_count>>
    BY <1>1, <1>9 DEF Disown, Go
  <2>2. Stutters
    BY <1>1, <2>1 DEF Stutters, Times, Between
  <2> QED BY <2>2
<1>10. CASE ReleaseMutex(t)
  <2>1. /\ step[t] = "release" /\ step'[t] = "idle"
        /\ \A u \in Thread : u # t => step'[u] = step[u]
        /\ UNCHANGED <<target, lock_count>>
        /\ mutex' = [mutex EXCEPT ![target[t]] = NoOwner]
    BY <1>1, <1>10 DEF ReleaseMutex, Go
  <2>2. mutex[target[t]] = t
    BY <1>1, <2>1 DEF StepKnows
  <2>3. Times(target[t]) = 1
    BY <1>1, <2>1, <2>2 DEF Times, Between
  <2>4. ASSUME NEW r \in Stripe
        PROVE  Times(r)' = IF r = target[t] THEN Times(r) - 1 ELSE Times(r)
    <3>1. CASE r = target[t]
      BY <1>1, <2>1, <2>3, <3>1 DEF Times
    <3>2. CASE r # target[t]
      BY <1>1, <2>1, <2>2, <3>2 DEF Times, Between
    <3> QED BY <3>1, <3>2
  <2>5. mutex' = [mutex EXCEPT ![target[t]] = IF Times(target[t]) = 1 THEN NoOwner ELSE t]
    BY <2>1, <2>3
  <2> QED BY <2>2, <2>4, <2>5 DEF Gives
<1> QED BY <1>2, <1>3, <1>4, <1>5, <1>6, <1>7, <1>8, <1>9, <1>10 DEF LockNext

(***************************************************************************)
(* The theorems.                                                           *)
(***************************************************************************)

\* Outside the lock manager a thread owns exactly the locks that its lock list
\* names, each as often as it is counted.
THEOREM ListsMatchCounts == Spec => []ListMatchesCount
<1>1. LockInv => ListMatchesCount
  <2> SUFFICES ASSUME LockInv, NEW t \in Thread, step[t] = "idle", NEW s \in Stripe
               PROVE  /\ owner[s] = t <=> held[t][s] > 0
                      /\ owner[s] = t => mutex[s] = t /\ lock_count[s] = held[t][s]
    BY DEF ListMatchesCount
  <2> QED BY LockConstants DEF LockInv, LockTypeOK, OwnerHasMutex, Counted, Uncounted
<1> QED BY <1>1, LockInvAlways, PTL

\* The instructions of kv_rwl implement the lock that KVTxn takes in one step:
\* one thread at a time has a lock, though owner is compared without the mutex,
\* and only its holder releases it.
THEOREM KeyLockImplemented == Spec => ImplementsKeyLock
<1>1. Init => KeyLock!Init
  <2> SUFFICES ASSUME LockInit PROVE KeyLock!Init
    BY DEF Init
  <2>1. \A s \in Stripe : Times(s) = 0
    BY DEF LockInit, Times
  <2> QED BY <2>1 DEF LockInit, KeyLock!Init
<1>2. LockInv /\ [\E t \in Thread : LockNext(t)]_lockVars => [KeyLock!Next]_(KeyLock!keyLockVars)
  <2> SUFFICES ASSUME LockInv, [\E t \in Thread : LockNext(t)]_lockVars
               PROVE  [KeyLock!Next]_(KeyLock!keyLockVars)
    OBVIOUS
  <2>1. ASSUME Stutters PROVE UNCHANGED KeyLock!keyLockVars
    BY <2>1 DEF Stutters, KeyLock!keyLockVars
  <2>2. CASE UNCHANGED lockVars
    BY <2>1, <2>2 DEF Stutters, Times, Between
  <2>3. ASSUME NEW t \in Thread, LockNext(t) PROVE [KeyLock!Next]_(KeyLock!keyLockVars)
    <3>1. target[t] \in Stripe
      BY DEF LockInv, LockTypeOK
    <3>2. CASE Takes(t, target[t])
      <4>1. KeyLock!Acquire(t, target[t])
        BY <3>1, <3>2 DEF Takes, KeyLock!Acquire
      <4> QED BY <3>1, <4>1 DEF KeyLock!Next
    <3>3. CASE Gives(t, target[t])
      <4>1. KeyLock!Release(t, target[t])
        BY <3>1, <3>3 DEF Gives, KeyLock!Release
      <4> QED BY <3>1, <4>1 DEF KeyLock!Next
    <3> QED BY <2>1, <2>3, <3>2, <3>3, StepOfKeyLock
  <2> QED BY <2>2, <2>3
<1> QED BY <1>1, <1>2, KeysAreLocks, LockInvAlways, PTL DEF Spec, ImplementsKeyLock, KeyLock!Spec

(***************************************************************************)
(* The hash table: numbers and sequences.  An induction over numbers is    *)
(* the choice of the least number that is not in a set.                    *)
(***************************************************************************)

\* A set of numbers that is not empty has a least one.
LEMMA LeastOf ==
  ASSUME NEW S \in SUBSET Nat, S # {}
  PROVE  \E m \in S : \A n \in S : m <= n
<1> DEFINE less == {p \in Nat \X Nat : p[1] < p[2]}
<1>1. IsWellFoundedOn(less, Nat)
  BY NatLessThanWellFounded DEF OpToRel
<1>2. PICK m \in S : \A n \in S : ~ (<<n, m>> \in less)
  <2> HIDE DEF less
  <2> QED BY <1>1, WFMin
<1>3. ASSUME NEW n \in S PROVE m <= n
  <2>1. n \in Nat /\ m \in Nat
    OBVIOUS
  <2>2. ~ (<<n, m>>[1] < <<n, m>>[2])
    BY <1>2, <2>1
  <2> QED BY <2>1, <2>2
<1> QED BY <1>3

\* A set that has 0, and with each number up to N the next.
LEMMA Upward ==
  ASSUME NEW N \in Nat, NEW T, 0 \in T, \A i \in 0 .. N - 1 : i \in T => i + 1 \in T
  PROVE  \A i \in 0 .. N : i \in T
<1> DEFINE Out == (0 .. N) \ T
<1> SUFFICES ASSUME Out # {} PROVE FALSE
  OBVIOUS
<1>1. Out \in SUBSET Nat
  OBVIOUS
<1>2. PICK m \in Out : \A n \in Out : m <= n
  <2> HIDE DEF Out
  <2> QED BY <1>1, LeastOf
<1>3. m # 0 /\ m - 1 \in 0 .. N - 1
  BY <1>2
<1>4. m - 1 \in T
  BY <1>2, <1>3
<1> QED BY <1>2, <1>3, <1>4

\* f is what a recursion over the numbers up to N defines.
Recursion(f, N, b, F) == f[0] = b /\ \A i \in 1 .. N : f[i] = F[i][f[i - 1]]

\* There is such a function when each step stays in S.
LEMMA Iterated ==
  ASSUME NEW N \in Nat, NEW S, NEW b \in S, NEW F, \A i \in 1 .. N : \A x \in S : F[i][x] \in S
  PROVE  \E f : Recursion(f, N, b, F) /\ \A i \in 0 .. N : f[i] \in S
<1> DEFINE Is(f, n) == f \in [0 .. n -> S] /\ f[0] = b /\ \A i \in 1 .. n : f[i] = F[i][f[i - 1]]
           T == {n \in 0 .. N : \E f : Is(f, n)}
<1>1. 0 \in T
  <2>1. Is([i \in 0 .. 0 |-> b], 0)
    OBVIOUS
  <2> HIDE DEF Is
  <2> QED BY <2>1
<1>2. ASSUME NEW n \in 0 .. N - 1, n \in T PROVE n + 1 \in T
  <2>1. PICK f : Is(f, n)
    <3> HIDE DEF Is
    <3> QED BY <1>2
  <2>2. PICK m \in 1 .. N : m = n + 1 /\ m - 1 = n
    OBVIOUS
  <2> DEFINE g == [i \in 0 .. m |-> IF i = m THEN F[m][f[n]] ELSE f[i]]
  <2>3. F[m][f[n]] \in S
    BY <2>1
  <2>4. g \in [0 .. m -> S] /\ g[0] = b
    BY <2>1, <2>2, <2>3
  <2>5. ASSUME NEW i \in 1 .. m PROVE g[i] = F[i][g[i - 1]]
    <3>1. g[i - 1] = f[i - 1]
      BY <2>2
    <3>2. CASE i = m
      BY <2>2, <3>1, <3>2
    <3>3. CASE i # m
      BY <2>1, <2>2, <3>1, <3>3
    <3> QED BY <3>2, <3>3
  <2>6. Is(g, m)
    <3> HIDE DEF g
    <3> QED BY <2>4, <2>5
  <2> HIDE DEF Is, g
  <2> QED BY <2>2, <2>6
<1>3. N \in T
  <2>1. PICK U : U = T
    OBVIOUS
  <2> HIDE DEF T
  <2>2. \A i \in 0 .. N : i \in U
    BY <1>1, <1>2, <2>1, Upward
  <2> QED BY <2>1, <2>2
<1>4. PICK f : Is(f, N)
  <2> HIDE DEF Is
  <2> QED BY <1>3
<1> QED BY <1>4 DEF Recursion

\* A function of the numbers 1 to L is a sequence of that length.
LEMMA LenOfFcn ==
  ASSUME NEW L \in Nat, NEW S, NEW s \in [1 .. L -> S]
  PROVE  Len(s) = L /\ s \in Seq(S)
OBVIOUS

\* f[i] is what the first i of the L sequences of ss make when they are joined.
Joins(f, ss, L, S) ==
  /\ f[1] = ss[1] /\ \A i \in 1 .. L : f[i] \in Seq(S)
  /\ \A i \in 1 .. L - 1 : f[i + 1] = f[i] \o ss[i + 1]

\* What FlattenSeq gives.
LEMMA Flattened ==
  ASSUME NEW L \in Nat \ {0}, NEW S, NEW ss \in [1 .. L -> Seq(S)]
  PROVE  \E f : Joins(f, ss, L, S) /\ Table!FlattenSeq(ss) = f[L]
<1>1. Len(ss) = L /\ L # 0
  BY LenOfFcn
<1> DEFINE Is(f) == f = [i \in 1 .. Len(ss) |-> IF i = 1 THEN ss[i] ELSE f[i - 1] \o ss[i]]
           F == [i \in 1 .. L - 1 |-> [s \in Seq(S) |-> s \o ss[i + 1]]]
<1>2. \E g : Is(g)
  <2>1. PICK N \in Nat : N = L - 1
    OBVIOUS
  <2>2. ss[1] \in Seq(S) /\ F \in [1 .. N -> [Seq(S) -> Seq(S)]]
    <3> SUFFICES ASSUME NEW i \in 1 .. N, NEW s \in Seq(S) PROVE s \o ss[i + 1] \in Seq(S)
      BY <2>1
    <3>1. i + 1 \in 1 .. L
      BY <2>1
    <3>2. ss[i + 1] \in Seq(S)
      BY <3>1
    <3> QED BY <3>2
  <2>3. PICK h : Recursion(h, N, ss[1], F) /\ \A i \in 0 .. N : h[i] \in Seq(S)
    <3>1. \A i \in 1 .. N : \A x \in Seq(S) : F[i][x] \in Seq(S)
      BY <2>2
    <3> HIDE DEF F
    <3> QED BY <2>2, <3>1, Iterated
  <2> DEFINE g == [i \in 1 .. L |-> h[i - 1]]
  <2>4. ASSUME NEW i \in 1 .. L PROVE g[i] = IF i = 1 THEN ss[i] ELSE g[i - 1] \o ss[i]
    <3>1. CASE i = 1
      BY <2>3, <3>1 DEF Recursion
    <3>2. CASE i # 1
      <4>1. PICK j \in 1 .. N : j = i - 1 /\ j + 1 = i
        BY <2>1, <3>2
      <4>2. h[j] = F[j][h[j - 1]] /\ h[j - 1] \in Seq(S)
        <5> HIDE DEF F
        <5> QED BY <2>3, <4>1 DEF Recursion
      <4>3. h[j] = h[j - 1] \o ss[i]
        BY <2>1, <4>1, <4>2
      <4>4. g[i] = h[j] /\ g[i - 1] = h[j - 1]
        BY <2>1, <4>1
      <4> QED BY <3>2, <4>3, <4>4
    <3> QED BY <3>1, <3>2
  <2>5. Is(g)
    <3>1. g = [i \in 1 .. L |-> g[i]]
      OBVIOUS
    <3> HIDE DEF g
    <3> QED BY <1>1, <2>4, <3>1
  <2> HIDE DEF Is, g
  <2> QED BY <2>5
<1> DEFINE f == CHOOSE f : Is(f)
<1>3. Is(f)
  <2> HIDE DEF Is
  <2> QED BY <1>2
<1>4. Table!FlattenSeq(ss) = f[L]
  BY <1>1 DEF Table!FlattenSeq
<1> HIDE DEF f
<1>5. \A i \in 1 .. L : f[i] = IF i = 1 THEN ss[i] ELSE f[i - 1] \o ss[i]
  BY <1>1, <1>3
<1>6. \A i \in 1 .. L - 1 : f[i + 1] = f[i] \o ss[i + 1]
  <2> SUFFICES ASSUME NEW i \in 1 .. L - 1 PROVE f[i + 1] = f[i] \o ss[i + 1]
    OBVIOUS
  <2>1. PICK j \in 1 .. L : j = i + 1 /\ j # 1 /\ j - 1 = i
    OBVIOUS
  <2>2. f[j] = f[j - 1] \o ss[j]
    BY <1>5, <2>1
  <2> QED BY <2>1, <2>2
<1>7. f[1] = ss[1]
  BY <1>5
<1>8. \A i \in 1 .. L : f[i] \in Seq(S)
  <2> DEFINE T == {n \in 0 .. L - 1 : f[n + 1] \in Seq(S)}
  <2>1. 0 \in T
    BY <1>7
  <2>2. ASSUME NEW n \in 0 .. (L - 1) - 1, n \in T PROVE n + 1 \in T
    <3>1. n + 1 \in 1 .. L - 1 /\ ss[n + 2] \in Seq(S) /\ n + 1 + 1 = n + 2 /\ f[n + 1] \in Seq(S)
      BY <2>2
    <3>2. f[n + 2] = f[n + 1] \o ss[n + 2]
      BY <1>6, <3>1
    <3>3. f[n + 1] \o ss[n + 2] \in Seq(S)
      BY <3>1
    <3>4. f[n + 1 + 1] \in Seq(S)
      BY <3>1, <3>2, <3>3
    <3> QED BY <3>4
  <2>3. \A n \in 0 .. L - 1 : n \in T
    <3>1. L - 1 \in Nat
      OBVIOUS
    <3> HIDE DEF T
    <3> QED BY <2>1, <2>2, <3>1, Upward
  <2>4. ASSUME NEW i \in 1 .. L PROVE f[i] \in Seq(S)
    <3>1. i - 1 \in 0 .. L - 1 /\ (i - 1) + 1 = i
      OBVIOUS
    <3> QED BY <2>3, <3>1
  <2> QED BY <2>4
<1> QED BY <1>4, <1>6, <1>7, <1>8 DEF Joins

(***************************************************************************)
(* The elements of chains and tables.                                      *)
(***************************************************************************)
Members(s) == {s[i] : i \in DOMAIN s}
OneEach(s) == \A i, j \in DOMAIN s : s[i].key = s[j].key => i = j
Stored(tab) == UNION {Members(tab[b]) : b \in DOMAIN tab}

\* A table of n chains in which every key is at most once and in its bucket.
Sound(tab, n) ==
  /\ tab \in [0 .. n - 1 -> Seq(Table!Elem)]
  /\ \A b \in 0 .. n - 1 :
       OneEach(tab[b]) /\ \A e \in Members(tab[b]) : Table!BucketOf(e.key, n) = b

\* A bucket of a table of n is one of them.
LEMMA BucketType ==
  ASSUME NEW k \in Key, NEW n \in Nat \ {0}
  PROVE  Table!BucketOf(k, n) \in 0 .. n - 1
<1>1. Hash[k] \in Nat
  BY KeysConstants
<1> QED BY <1>1 DEF Table!BucketOf

\* The members of a chain with one more element, and of two that are joined.
LEMMA Appended ==
  ASSUME NEW S, NEW s \in Seq(S), NEW e \in S
  PROVE  /\ Append(s, e) \in Seq(S) /\ Members(Append(s, e)) = Members(s) \cup {e}
         /\ OneEach(s) /\ (\A d \in Members(s) : d.key # e.key) => OneEach(Append(s, e))
<1>1. PICK n \in Nat : n = Len(s) /\ DOMAIN s = 1 .. n
  OBVIOUS
<1>2. PICK t : t = Append(s, e)
  OBVIOUS
<1>3. DOMAIN t = 1 .. n + 1 /\ t[n + 1] = e /\ \A i \in 1 .. n : t[i] = s[i]
  BY <1>1, <1>2
<1>4. Members(t) = Members(s) \cup {e}
  BY <1>1, <1>3 DEF Members
<1>5. ASSUME OneEach(s), \A d \in Members(s) : d.key # e.key PROVE OneEach(t)
  <2>1. \A i \in 1 .. n : s[i].key # e.key
    BY <1>1, <1>5 DEF Members
  <2> QED BY <1>1, <1>3, <1>5, <2>1 DEF OneEach
<1> QED BY <1>2, <1>4, <1>5

LEMMA Joined ==
  ASSUME NEW S, NEW s \in Seq(S), NEW r \in Seq(S)
  PROVE  /\ Members(s \o r) = Members(s) \cup Members(r)
         /\ OneEach(s) /\ OneEach(r) /\ (\A d \in Members(s), e \in Members(r) : d.key # e.key)
              => OneEach(s \o r)
<1>1. PICK n \in Nat, m \in Nat : n = Len(s) /\ DOMAIN s = 1 .. n /\ m = Len(r) /\ DOMAIN r = 1 .. m
  OBVIOUS
<1>2. PICK t : t = s \o r
  OBVIOUS
<1>3. /\ DOMAIN t = 1 .. n + m /\ \A i \in 1 .. n : t[i] = s[i]
      /\ \A i \in 1 .. m : t[n + i] = r[i]
  BY <1>1, <1>2
<1>4. ASSUME NEW i \in 1 .. n + m, ~(i \in 1 .. n) PROVE i - n \in 1 .. m /\ t[i] = r[i - n]
  <2>1. PICK j \in 1 .. m : j = i - n /\ n + j = i
    BY <1>4
  <2> QED BY <1>3, <2>1
<1>5. Members(t) = Members(s) \cup Members(r)
  <2>1. ASSUME NEW x \in Members(t) PROVE x \in Members(s) \cup Members(r)
    <3>1. PICK i \in 1 .. n + m : t[i] = x
      BY <1>3, <2>1 DEF Members
    <3> QED BY <1>1, <1>3, <1>4, <3>1 DEF Members
  <2>2. ASSUME NEW x \in Members(s) PROVE x \in Members(t)
    <3>1. PICK i \in 1 .. n : s[i] = x
      BY <1>1, <2>2 DEF Members
    <3>2. i \in 1 .. n + m
      OBVIOUS
    <3> QED BY <1>3, <3>1, <3>2 DEF Members
  <2>3. ASSUME NEW x \in Members(r) PROVE x \in Members(t)
    <3>1. PICK i \in 1 .. m : r[i] = x
      BY <1>1, <2>3 DEF Members
    <3>2. n + i \in 1 .. n + m
      OBVIOUS
    <3> QED BY <1>3, <3>1, <3>2 DEF Members
  <2> QED BY <2>1, <2>2, <2>3
<1>6. ASSUME OneEach(s), OneEach(r), \A d \in Members(s), e \in Members(r) : d.key # e.key,
             NEW i \in 1 .. n + m, NEW j \in 1 .. n + m, t[i].key = t[j].key
      PROVE  i = j
  <2>1. CASE i \in 1 .. n /\ j \in 1 .. n
    BY <1>1, <1>3, <1>6, <2>1 DEF OneEach
  <2>2. CASE i \notin 1 .. n /\ j \notin 1 .. n
    <3>1. i - n \in 1 .. m /\ j - n \in 1 .. m /\ r[i - n].key = r[j - n].key
      BY <1>4, <1>6, <2>2
    <3>2. i - n = j - n
      BY <1>1, <1>6, <3>1 DEF OneEach
    <3> QED BY <3>2
  <2>3. CASE i \in 1 .. n /\ j \notin 1 .. n
    <3>1. s[i] \in Members(s) /\ r[j - n] \in Members(r) /\ t[i] = s[i] /\ t[j] = r[j - n]
      BY <1>1, <1>3, <1>4, <2>3 DEF Members
    <3> QED BY <1>6, <3>1
  <2>4. CASE i \notin 1 .. n /\ j \in 1 .. n
    <3>1. s[j] \in Members(s) /\ r[i - n] \in Members(r) /\ t[j] = s[j] /\ t[i] = r[i - n]
      BY <1>1, <1>3, <1>4, <2>4 DEF Members
    <3> QED BY <1>6, <3>1
  <2> QED BY <2>1, <2>2, <2>3, <2>4
<1> QED BY <1>2, <1>3, <1>5, <1>6 DEF OneEach

\* A sequence of elements with different keys has as many members as places.
LEMMA CountOf ==
  ASSUME NEW s \in Seq(Table!Elem), OneEach(s)
  PROVE  IsFiniteSet(Members(s)) /\ Cardinality(Members(s)) = Len(s)
<1>1. PICK n \in Nat : n = Len(s) /\ DOMAIN s = 1 .. n /\ s \in [1 .. n -> Table!Elem]
  OBVIOUS
<1>2. s \in Surjection(1 .. n, Members(s)) /\ s \in Injection(1 .. n, Members(s))
  <2>1. s \in [1 .. n -> Members(s)] /\ \A e \in Members(s) : \E i \in 1 .. n : s[i] = e
    BY <1>1 DEF Members
  <2>2. \A i, j \in 1 .. n : s[i] = s[j] => i = j
    BY <1>1 DEF OneEach
  <2> QED BY <2>1, <2>2 DEF Surjection, Injection, IsInjective
<1>3. IsFiniteSet(1 .. n) /\ Cardinality(1 .. n) = n
  BY FS_Interval
<1> QED BY <1>1, <1>2, <1>3, FS_Surjection

\* kv_ht_foreach hands out the elements of the table, each once.
LEMMA ElementsAre ==
  ASSUME size \in Nat \ {0}, Sound(table, size)
  PROVE  /\ Table!Elements \in Seq(Table!Elem) /\ OneEach(Table!Elements)
         /\ Members(Table!Elements) = Stored(table)
<1> DEFINE ss == [i \in 1 .. size |-> table[i - 1]]
<1>1. \A i \in 1 .. size : i - 1 \in 0 .. size - 1 /\ ss[i] = table[i - 1] /\ ss[i] \in Seq(Table!Elem)
  BY DEF Sound
<1>2. PICK f : Joins(f, ss, size, Table!Elem) /\ Table!FlattenSeq(ss) = f[size]
  <2>1. ss \in [1 .. size -> Seq(Table!Elem)]
    BY <1>1
  <2> HIDE DEF ss
  <2> QED BY <2>1, Flattened
<1> DEFINE Below(m) == UNION {Members(table[b]) : b \in 0 .. m}
           T == {m \in 0 .. size - 1 : OneEach(f[m + 1]) /\ Members(f[m + 1]) = Below(m)}
<1>3. 0 \in T
  <2>1. f[1] = table[0] /\ 0 \in 0 .. size - 1 /\ 0 + 1 = 1 /\ 0 .. 0 = {0}
    BY <1>1, <1>2 DEF Joins
  <2>2. OneEach(f[1])
    BY <2>1 DEF Sound
  <2>3. Below(0) = Members(table[0])
    BY <2>1
  <2> QED BY <2>1, <2>2, <2>3
<1>4. ASSUME NEW m \in 0 .. size - 1 - 1, m \in T PROVE m + 1 \in T
  <2>1. PICK i \in 1 .. size - 1 : i = m + 1 /\ i \in 1 .. size /\ i + 1 \in 1 .. size /\ i \in 0 .. size - 1
                                   /\ i + 1 - 1 = i
    OBVIOUS
  <2>2. f[i + 1] = f[i] \o table[i]
    <3>1. ss[i + 1] = table[i]
      BY <1>1, <2>1
    <3>2. \A j \in 1 .. size - 1 : f[j + 1] = f[j] \o ss[j + 1]
      BY <1>2 DEF Joins
    <3> HIDE DEF ss
    <3> QED BY <3>1, <3>2
  <2>3. f[i] \in Seq(Table!Elem) /\ table[i] \in Seq(Table!Elem) /\ OneEach(f[i]) /\ OneEach(table[i])
        /\ Members(f[i]) = Below(m)
    BY <1>2, <1>4, <2>1 DEF Sound, Joins
  <2>4. \A d \in Members(f[i]), e \in Members(table[i]) : d.key # e.key
    <3> SUFFICES ASSUME NEW d \in Members(f[i]), NEW e \in Members(table[i]), d.key = e.key PROVE FALSE
      OBVIOUS
    <3>1. PICK b \in 0 .. m : d \in Members(table[b])
      BY <2>3
    <3>2. b \in 0 .. size - 1 /\ b # i
      BY <2>1
    <3>3. Table!BucketOf(d.key, size) = b /\ Table!BucketOf(e.key, size) = i
      BY <2>1, <3>1, <3>2 DEF Sound
    <3> QED BY <3>2, <3>3
  <2>5. OneEach(f[i + 1]) /\ Members(f[i + 1]) = Members(f[i]) \cup Members(table[i])
    <3>1. PICK s \in Seq(Table!Elem), r \in Seq(Table!Elem) : s = f[i] /\ r = table[i]
      BY <2>3
    <3>2. OneEach(s) /\ OneEach(r) /\ \A d \in Members(s), e \in Members(r) : d.key # e.key
      BY <2>3, <2>4, <3>1
    <3>3. OneEach(s \o r) /\ Members(s \o r) = Members(s) \cup Members(r)
      BY <3>2, Joined
    <3> QED BY <2>2, <3>1, <3>3
  <2>6. Below(i) = Below(m) \cup Members(table[i])
    <3>1. 0 .. i = (0 .. m) \cup {i}
      <4>1. \A x : x \in 0 .. i <=> x \in 0 .. m \/ x = i
        BY <2>1
      <4> QED BY <4>1
    <3> QED BY <3>1
  <2> HIDE DEF Below
  <2> QED BY <2>1, <2>3, <2>5, <2>6
<1>5. size - 1 \in T
  <2>1. PICK N \in Nat : N = size - 1
    OBVIOUS
  <2>0. PICK U : U = T
    OBVIOUS
  <2> HIDE DEF T
  <2>2. \A m \in 0 .. N : m \in U
    BY <1>3, <1>4, <2>0, <2>1, Upward
  <2> QED BY <2>0, <2>1, <2>2
<1>6. size - 1 + 1 = size /\ DOMAIN table = 0 .. size - 1
  BY DEF Sound
<1>7. Stored(table) = Below(size - 1)
  BY <1>6 DEF Stored
<1>8. Table!Elements = f[size]
  BY <1>2 DEF Table!Elements
<1> HIDE DEF Below
<1>9. f[size] \in Seq(Table!Elem) /\ OneEach(f[size]) /\ Members(f[size]) = Below(size - 1)
  BY <1>2, <1>5, <1>6 DEF Joins
<1> QED BY <1>7, <1>8, <1>9

\* Two elements of a sound table have different keys.
LEMMA KeysDiffer ==
  ASSUME NEW n \in Nat, NEW tab, Sound(tab, n), NEW d \in Stored(tab), NEW e \in Stored(tab), d.key = e.key
  PROVE  d = e
<1>1. DOMAIN tab = 0 .. n - 1
  BY DEF Sound
<1>2. PICK b \in 0 .. n - 1 : d \in Members(tab[b])
  BY <1>1 DEF Stored
<1>3. PICK c \in 0 .. n - 1 : e \in Members(tab[c])
  BY <1>1 DEF Stored
<1>4. b = c
  BY <1>2, <1>3 DEF Sound
<1>5. PICK i, j \in DOMAIN tab[b] : d = tab[b][i] /\ e = tab[b][j]
  BY <1>2, <1>3, <1>4 DEF Members
<1> QED BY <1>5 DEF Sound, OneEach

\* The end of the chain it belongs to takes an element with a key of its own.
Put(tab, n, e) == [tab EXCEPT ![Table!BucketOf(e.key, n)] = Append(@, e)]

\* The table stays sound, and holds the element too.
LEMMA Extended ==
  ASSUME NEW n \in Nat \ {0}, NEW tab, Sound(tab, n), NEW e \in Table!Elem,
         \A d \in Stored(tab) : d.key # e.key
  PROVE  Sound(Put(tab, n, e), n) /\ Stored(Put(tab, n, e)) = Stored(tab) \cup {e}
<1>0. PICK new : new = Put(tab, n, e)
  OBVIOUS
<1> DEFINE b == Table!BucketOf(e.key, n)
<1>1. b \in 0 .. n - 1 /\ DOMAIN tab = 0 .. n - 1 /\ tab[b] \in Seq(Table!Elem)
  <2>1. e.key \in Key
    BY DEF Table!Elem
  <2> QED BY <2>1, BucketType DEF Sound
<1>2. \A d \in Members(tab[b]) : d.key # e.key
  BY <1>1 DEF Stored
<1>3. /\ Append(tab[b], e) \in Seq(Table!Elem) /\ Members(Append(tab[b], e)) = Members(tab[b]) \cup {e}
      /\ OneEach(Append(tab[b], e))
  <2>1. OneEach(tab[b])
    BY <1>1 DEF Sound
  <2> QED BY <1>1, <1>2, <2>1, Appended
<1>4. /\ DOMAIN new = 0 .. n - 1 /\ new[b] = Append(tab[b], e) /\ new \in [0 .. n - 1 -> Seq(Table!Elem)]
      /\ \A c \in 0 .. n - 1 : c # b => new[c] = tab[c]
  BY <1>0, <1>1, <1>3 DEF Sound, Put
<1>5. b = Table!BucketOf(e.key, n)
  OBVIOUS
<1> HIDE DEF b
<1>6. Sound(new, n)
  BY <1>1, <1>3, <1>4, <1>5 DEF Sound
<1>7. \A d : d \in Stored(new) <=> d \in Stored(tab) \/ d = e
  <2>1. ASSUME NEW d PROVE d \in Stored(new) <=> \E c \in 0 .. n - 1 : d \in Members(new[c])
    BY <1>4 DEF Stored
  <2>2. ASSUME NEW d PROVE d \in Stored(tab) <=> \E c \in 0 .. n - 1 : d \in Members(tab[c])
    BY <1>1 DEF Stored
  <2>3. ASSUME NEW c \in 0 .. n - 1
        PROVE  Members(new[c]) = IF c = b THEN Members(tab[c]) \cup {e} ELSE Members(tab[c])
    BY <1>3, <1>4
  <2> QED BY <1>1, <2>1, <2>2, <2>3
<1> QED BY <1>0, <1>6, <1>7

\* kv_ht_resize makes a sound table of n chains with the same elements.
LEMMA ResizedIs ==
  ASSUME size \in Nat \ {0}, Sound(table, size), NEW n \in Nat \ {0}
  PROVE  Sound(Table!Resized(n), n) /\ Stored(Table!Resized(n)) = Stored(table)
<1>1. PICK E \in Seq(Table!Elem) : E = Table!Elements /\ OneEach(E) /\ Members(E) = Stored(table)
  BY ElementsAre
<1>2. PICK L \in Nat : L = Len(E) /\ DOMAIN E = 1 .. L /\ \A i \in 1 .. L : E[i] \in Table!Elem
  OBVIOUS
<1> DEFINE tabs == [0 .. n - 1 -> Seq(Table!Elem)]
           none == [b \in 0 .. n - 1 |-> <<>>]
           F == [i \in 1 .. L |-> [tab \in tabs |->
                  [tab EXCEPT ![Table!BucketOf(E[i].key, n)] = Append(@, E[i])]]]
           Is(f) == f = [i \in 0 .. Len(E) |->
                          IF i = 0 THEN none
                          ELSE [f[i - 1] EXCEPT ![Table!BucketOf(E[i].key, n)] = Append(@, E[i])]]
<1>3. none \in tabs
  OBVIOUS
<1>4. ASSUME NEW i \in 1 .. L, NEW tab \in tabs
      PROVE  /\ F[i][tab] = [tab EXCEPT ![Table!BucketOf(E[i].key, n)] = Append(@, E[i])]
             /\ F[i][tab] \in tabs
  <2>1. E[i].key \in Key /\ E[i] \in Table!Elem
    BY <1>2 DEF Table!Elem
  <2>2. PICK c \in 0 .. n - 1 : c = Table!BucketOf(E[i].key, n)
    BY <2>1, BucketType
  <2>3. [tab EXCEPT ![c] = Append(@, E[i])] \in tabs
    BY <2>1
  <2> QED BY <2>2, <2>3
<1>5. PICK h : Recursion(h, L, none, F) /\ \A i \in 0 .. L : h[i] \in tabs
  <2>1. \A i \in 1 .. L : \A tab \in tabs : F[i][tab] \in tabs
    BY <1>4
  <2> HIDE DEF F, tabs, none
  <2> QED BY <1>3, <2>1, Iterated
<1>6. \E g : Is(g)
  <2> DEFINE g == [i \in 0 .. L |-> h[i]]
  <2>1. ASSUME NEW i \in 0 .. L
        PROVE  g[i] = IF i = 0 THEN none
                      ELSE [g[i - 1] EXCEPT ![Table!BucketOf(E[i].key, n)] = Append(@, E[i])]
    <3>1. CASE i = 0
      <4> HIDE DEF none, F
      <4> QED BY <1>5, <3>1 DEF Recursion
    <3>2. CASE i # 0
      <4>1. i \in 1 .. L /\ i - 1 \in 0 .. L
        BY <3>2
      <4>2. h[i] = F[i][h[i - 1]] /\ h[i - 1] \in tabs
        <5> HIDE DEF F, tabs, none
        <5> QED BY <1>5, <4>1 DEF Recursion
      <4>3. h[i] = [h[i - 1] EXCEPT ![Table!BucketOf(E[i].key, n)] = Append(@, E[i])]
        BY <1>4, <4>1, <4>2
      <4> QED BY <3>2, <4>1, <4>3
    <3> QED BY <3>1, <3>2
  <2>2. Is(g)
    <3>1. g = [i \in 0 .. L |-> g[i]]
      OBVIOUS
    <3> HIDE DEF g, none
    <3> QED BY <1>2, <2>1, <3>1
  <2> HIDE DEF Is, g
  <2> QED BY <2>2
<1> DEFINE f == CHOOSE f : Is(f)
<1>7. Is(f)
  <2> HIDE DEF Is
  <2> QED BY <1>6
<1>8. Table!Resized(n) = f[L]
  BY <1>1, <1>2 DEF Table!Resized
<1> HIDE DEF f
<1>9. /\ f[0] = none
      /\ \A i \in 1 .. L : f[i] = [f[i - 1] EXCEPT ![Table!BucketOf(E[i].key, n)] = Append(@, E[i])]
  <2>1. \A i \in 0 .. L : f[i] = IF i = 0 THEN none
           ELSE [f[i - 1] EXCEPT ![Table!BucketOf(E[i].key, n)] = Append(@, E[i])]
    <3> HIDE DEF none
    <3> QED BY <1>2, <1>7
  <2> HIDE DEF none
  <2>2. f[0] = none
    <3>1. 0 \in 0 .. L
      OBVIOUS
    <3> QED BY <2>1, <3>1
  <2>3. ASSUME NEW i \in 1 .. L
        PROVE  f[i] = [f[i - 1] EXCEPT ![Table!BucketOf(E[i].key, n)] = Append(@, E[i])]
    <3>1. i \in 0 .. L /\ i # 0
      OBVIOUS
    <3> QED BY <2>1, <3>1
  <2> QED BY <2>2, <2>3
<1> DEFINE First(m) == {E[i] : i \in 1 .. m}
           T == {m \in 0 .. L : Sound(f[m], n) /\ Stored(f[m]) = First(m)}
<1>10. 0 \in T
  <2>1. Members(<<>>) = {} /\ OneEach(<<>>) /\ <<>> \in Seq(Table!Elem)
    BY DEF Members, OneEach
  <2>2. \A b \in 0 .. n - 1 : none[b] = <<>>
    OBVIOUS
  <2>3. Sound(none, n) /\ Stored(none) = {}
    BY <2>1, <2>2 DEF Sound, Stored
  <2> QED BY <1>9, <2>3
<1>11. ASSUME NEW m \in 0 .. L - 1, m \in T PROVE m + 1 \in T
  <2>1. PICK i \in 1 .. L : i = m + 1 /\ i - 1 = m
    OBVIOUS
  <2>2. Sound(f[m], n) /\ Stored(f[m]) = First(m) /\ E[i] \in Table!Elem
    BY <1>2, <1>11, <2>1
  <2>3. ASSUME NEW d \in First(m) PROVE d.key # E[i].key
    <3>1. PICK j \in 1 .. m : d = E[j]
      OBVIOUS
    <3>2. j \in DOMAIN E /\ i \in DOMAIN E /\ i # j
      BY <1>2, <2>1
    <3> QED BY <1>1, <3>1, <3>2 DEF OneEach
  <2>4. f[i] = [f[m] EXCEPT ![Table!BucketOf(E[i].key, n)] = Append(@, E[i])]
    BY <1>9, <2>1
  <2>5. Sound(f[i], n) /\ Stored(f[i]) = Stored(f[m]) \cup {E[i]}
    <3>0. PICK tab : tab = f[m]
      OBVIOUS
    <3>1. PICK e \in Table!Elem : e = E[i]
      BY <2>2
    <3>2. Sound(tab, n) /\ \A d \in Stored(tab) : d.key # e.key
      <4> HIDE DEF First
      <4> QED BY <2>2, <2>3, <3>0, <3>1
    <3>4. Sound(Put(tab, n, e), n) /\ Stored(Put(tab, n, e)) = Stored(tab) \cup {e}
      BY <3>2, Extended
    <3>5. f[i] = Put(tab, n, e)
      BY <2>4, <3>0, <3>1 DEF Put
    <3> QED BY <3>0, <3>1, <3>4, <3>5
  <2>6. First(i) = First(m) \cup {E[i]}
    <3>1. \A j : j \in 1 .. i <=> j \in 1 .. m \/ j = i
      BY <2>1
    <3> QED BY <3>1
  <2>7. i \in 0 .. L
    BY <2>1
  <2>8. Stored(f[i]) = First(i)
    <3> HIDE DEF First
    <3> QED BY <2>2, <2>5, <2>6
  <2> HIDE DEF First
  <2> QED BY <2>1, <2>5, <2>7, <2>8
<1>12. L \in T
  <2>1. PICK U : U = T
    OBVIOUS
  <2> HIDE DEF T
  <2>2. \A m \in 0 .. L : m \in U
    BY <1>10, <1>11, <2>1, Upward
  <2> QED BY <2>1, <2>2
<1>13. First(L) = Members(E)
  BY <1>2 DEF Members
<1> HIDE DEF First
<1> QED BY <1>1, <1>8, <1>12, <1>13

(***************************************************************************)
(* The invariant of the table and of the calls on it.                      *)
(***************************************************************************)
Present(k) == \E e \in Stored(table) : e.key = k

TableInv ==
  /\ size \in Nat \ {0} /\ Sound(table, size)
  /\ IsFiniteSet(Stored(table)) /\ count = Cardinality(Stored(table)) /\ count <= size + 1

\* A thread in a call has the key's lock; what its get has found is there.
CallsInv ==
  /\ call \in [Thread -> Key \cup {NoKey}] /\ asked \in [Thread -> Nat]
  /\ reply \in [Thread -> Value \cup {None}]
  /\ \A t \in Thread :
       /\ asked[t] <= size /\ (call[t] = NoKey => asked[t] = 0)
       /\ call[t] # NoKey => step[t] = "idle" /\ held[t][StripeOf[call[t]]] > 0
       /\ call[t] # NoKey /\ asked[t] = 0 => Present(call[t])

KeysInv == LockInv /\ TableInv /\ CallsInv

\* Two threads do not have a lock at once.
LEMMA OneHolder ==
  ASSUME LockInv, NEW t \in Thread, NEW u \in Thread, NEW s \in Stripe, held[t][s] > 0, held[u][s] > 0
  PROVE  t = u
<1>1. held[t][s] # 0 /\ held[u][s] # 0
  BY DEF LockInv, LockTypeOK
<1> QED BY <1>1 DEF LockInv, Counted

\* A chain in which a key is found is the key's, and gives its element.
LEMMA FoundIn ==
  ASSUME TableInv, NEW k \in Key, NEW b \in 0 .. size - 1, Table!HasKey(table[b], k)
  PROVE  LET i == Table!IndexOf(table[b], k)
         IN  /\ b = Table!BucketOf(k, size) /\ i \in DOMAIN table[b] /\ table[b][i].key = k
             /\ table[b][i] \in Stored(table) /\ table[b][i] \in Table!Elem
<1> DEFINE i == Table!IndexOf(table[b], k)
<1>1. i \in DOMAIN table[b] /\ table[b][i].key = k
  BY DEF Table!HasKey, Table!IndexOf
<1> HIDE DEF i
<1>2. table[b][i] \in Members(table[b]) /\ table[b] \in Seq(Table!Elem) /\ DOMAIN table = 0 .. size - 1
  BY <1>1 DEF Members, TableInv, Sound
<1>3. b = Table!BucketOf(k, size)
  BY <1>1, <1>2 DEF TableInv, Sound
<1>4. table[b][i] \in Stored(table)
  BY <1>2 DEF Stored
<1>5. table[b][i] \in Table!Elem
  BY <1>1, <1>2
<1> QED BY <1>1, <1>3, <1>4, <1>5 DEF i

\* The search in the key's chain finds it exactly when the table has it.
LEMMA LookUp ==
  ASSUME TableInv, NEW k \in Key
  PROVE  /\ Table!BucketOf(k, size) \in 0 .. size - 1
         /\ Table!HasKey(Table!Chain(k), k) <=> Present(k)
<1>1. Table!BucketOf(k, size) \in 0 .. size - 1 /\ DOMAIN table = 0 .. size - 1
  BY BucketType DEF TableInv, Sound
<1>2. ASSUME Present(k) PROVE Table!HasKey(Table!Chain(k), k)
  <2>1. PICK b \in 0 .. size - 1 : \E e \in Members(table[b]) : e.key = k
    BY <1>1, <1>2 DEF Present, Stored
  <2>2. b = Table!BucketOf(k, size)
    BY <2>1 DEF TableInv, Sound
  <2> QED BY <2>1, <2>2 DEF Members, Table!HasKey, Table!Chain
<1>3. ASSUME Table!HasKey(Table!Chain(k), k) PROVE Present(k)
  <2>1. PICK b \in 0 .. size - 1 : b = Table!BucketOf(k, size)
    BY <1>1
  <2>2. Table!HasKey(table[b], k)
    BY <1>3, <2>1 DEF Table!Chain
  <2> QED BY <2>2, FoundIn DEF Present
<1> QED BY <1>1, <1>2, <1>3

\* Without its i-th element a chain has the others.
LEMMA Removed ==
  ASSUME NEW S, NEW s \in Seq(S), OneEach(s), NEW i \in DOMAIN s
  PROVE  /\ Table!RemoveAt(s, i) \in Seq(S) /\ OneEach(Table!RemoveAt(s, i))
         /\ Members(Table!RemoveAt(s, i)) = Members(s) \ {s[i]}
<1>1. PICK n \in Nat : n = Len(s) /\ DOMAIN s = 1 .. n
  OBVIOUS
<1>2. PICK r : r = Table!RemoveAt(s, i)
  OBVIOUS
<1>3. /\ r \in Seq(S) /\ Len(r) = n - 1 /\ DOMAIN r = 1 .. n - 1
      /\ \A j \in 1 .. n - 1 : r[j] = IF j < i THEN s[j] ELSE s[j + 1]
  <2>1. PICK a : a = SubSeq(s, 1, i - 1)
    OBVIOUS
  <2>2. PICK c : c = SubSeq(s, i + 1, n)
    OBVIOUS
  <2>3. a \in Seq(S) /\ Len(a) = i - 1 /\ \A j \in 1 .. i - 1 : a[j] = s[j]
    BY <1>1, <2>1
  <2>4. c \in Seq(S) /\ Len(c) = n - i /\ \A j \in 1 .. n - i : c[j] = s[j + i]
    BY <1>1, <2>2
  <2>5. r = a \o c
    BY <1>1, <1>2, <2>1, <2>2 DEF Table!RemoveAt
  <2>6. r \in Seq(S) /\ Len(r) = n - 1
    BY <1>1, <2>3, <2>4, <2>5
  <2>7. ASSUME NEW j \in 1 .. n - 1 PROVE r[j] = IF j < i THEN s[j] ELSE s[j + 1]
    <3>1. CASE j < i
      BY <1>1, <2>3, <2>4, <2>5, <3>1
    <3>2. CASE ~ (j < i)
      <4>1. PICK m \in 1 .. n - i : m = j - (i - 1) /\ m + i = j + 1
        BY <1>1, <3>2
      <4>2. PICK p \in Nat, q \in Nat : p = Len(a) /\ q = Len(c) /\ p = i - 1 /\ q = n - i
        BY <1>1, <2>3, <2>4
      <4>3. \A l \in 1 .. q : r[p + l] = c[l]
        BY SMTT(60), <2>3, <2>4, <2>5, <4>2
      <4>4. p + m = j
        BY <3>2, <4>1, <4>2
      <4>5. r[j] = c[m]
        BY <4>1, <4>2, <4>3, <4>4
      <4> QED BY <2>4, <3>2, <4>1, <4>5
    <3> QED BY <3>1, <3>2
  <2> QED BY <2>6, <2>7
<1>4. OneEach(r)
  BY <1>1, <1>3 DEF OneEach
<1>5. ASSUME NEW x PROVE x \in Members(r) <=> x \in Members(s) /\ x # s[i]
  <2>1. ASSUME x \in Members(r) PROVE x \in Members(s) /\ x # s[i]
    <3>1. PICK j \in 1 .. n - 1 : x = r[j]
      BY <1>3, <2>1 DEF Members
    <3>2. PICK m \in 1 .. n : x = s[m] /\ m # i
      BY <1>1, <1>3, <3>1
    <3> QED BY <1>1, <3>2 DEF Members, OneEach
  <2>2. ASSUME x \in Members(s), x # s[i] PROVE x \in Members(r)
    <3>1. PICK m \in 1 .. n : x = s[m] /\ m # i
      BY <1>1, <2>2 DEF Members
    <3>2. PICK j \in 1 .. n - 1 : x = r[j]
      <4>1. CASE m < i
        BY <1>1, <1>3, <3>1, <4>1
      <4>2. CASE m > i
        <5>1. m - 1 \in 1 .. n - 1 /\ ~(m - 1 < i) /\ m - 1 + 1 = m
          BY <1>1, <4>2
        <5> QED BY <1>3, <3>1, <5>1
      <4> QED BY <1>1, <3>1, <4>1, <4>2
    <3> QED BY <1>3, <3>2 DEF Members
  <2> QED BY <2>1, <2>2
<1> QED BY <1>2, <1>3, <1>4, <1>5

\* kv_ht_del's table.
LEMMA Removes ==
  ASSUME TableInv, NEW b \in 0 .. size - 1, NEW i \in DOMAIN table[b],
         table' = [table EXCEPT ![b] = Table!RemoveAt(@, i)],
         size' = size, count' = count - 1
  PROVE  TableInv' /\ Stored(table') = Stored(table) \ {table[b][i]}
<1>1. DOMAIN table = 0 .. size - 1 /\ table[b] \in Seq(Table!Elem) /\ OneEach(table[b])
  BY DEF TableInv, Sound
<1>2. PICK s : s = table[b]
  OBVIOUS
<1>3. /\ Table!RemoveAt(s, i) \in Seq(Table!Elem) /\ OneEach(Table!RemoveAt(s, i))
      /\ Members(Table!RemoveAt(s, i)) = Members(s) \ {s[i]}
  BY <1>1, <1>2, Removed
<1>4. /\ DOMAIN table' = 0 .. size - 1 /\ table'[b] = Table!RemoveAt(s, i)
      /\ table' \in [0 .. size - 1 -> Seq(Table!Elem)]
      /\ \A c \in 0 .. size - 1 : c # b => table'[c] = table[c]
  BY <1>1, <1>2, <1>3 DEF TableInv, Sound
<1>5. Sound(table', size)
  BY <1>2, <1>3, <1>4 DEF TableInv, Sound
<1>6. ASSUME NEW d PROVE d \in Stored(table') <=> d \in Stored(table) /\ d # s[i]
  <2>1. d \in Stored(table') <=> \E c \in 0 .. size - 1 : d \in Members(table'[c])
    BY <1>4 DEF Stored
  <2>2. d \in Stored(table) <=> \E c \in 0 .. size - 1 : d \in Members(table[c])
    BY <1>1 DEF Stored
  <2>3. ASSUME NEW c \in 0 .. size - 1, c # b PROVE s[i] \notin Members(table[c])
    <3>1. s[i] \in Members(table[b])
      BY <1>2 DEF Members
    <3> QED BY <2>3, <3>1 DEF TableInv, Sound
  <2>4. Members(table'[b]) = Members(table[b]) \ {s[i]}
    BY <1>2, <1>3, <1>4
  <2>5. \A c \in 0 .. size - 1 : d \in Members(table'[c]) <=> d \in Members(table[c]) /\ d # s[i]
    BY <1>4, <2>3, <2>4
  <2> QED BY <2>1, <2>2, <2>5
<1>7. Stored(table') = Stored(table) \ {s[i]}
  BY <1>6
<1>8. s[i] \in Stored(table)
  BY <1>1, <1>2 DEF Stored, Members
<1>9. /\ IsFiniteSet(Stored(table')) /\ Cardinality(Stored(table')) = Cardinality(Stored(table)) - 1
      /\ Cardinality(Stored(table)) \in Nat
  BY ZenonT(60), <1>7, <1>8, FS_RemoveElement, FS_CardinalityType DEF TableInv
<1>10. TableInv'
  BY <1>5, <1>9 DEF TableInv
<1> QED BY <1>2, <1>7, <1>10

Revalued(s, i, e) == [s EXCEPT ![i] = e]

\* With another value for its i-th key a chain has that element instead.
LEMMA Changed ==
  ASSUME NEW s \in Seq(Table!Elem), OneEach(s), NEW i \in DOMAIN s, NEW e \in Table!Elem, e.key = s[i].key
  PROVE  /\ Revalued(s, i, e) \in Seq(Table!Elem) /\ OneEach(Revalued(s, i, e))
         /\ Members(Revalued(s, i, e)) = (Members(s) \ {s[i]}) \cup {e}
<1>1. PICK r : r = Revalued(s, i, e)
  OBVIOUS
<1>2. /\ r \in Seq(Table!Elem) /\ DOMAIN r = DOMAIN s /\ r[i] = e
      /\ \A j \in DOMAIN s : j # i => r[j] = s[j]
  BY <1>1 DEF Revalued
<1>3. OneEach(r)
  BY <1>2 DEF OneEach
<1>4. \A j \in DOMAIN s : j # i => s[j] # s[i]
  BY DEF OneEach
<1>5. ASSUME NEW x PROVE x \in Members(r) <=> x \in (Members(s) \ {s[i]}) \cup {e}
  BY <1>2, <1>4 DEF Members
<1> QED BY <1>1, <1>2, <1>3, <1>5

\* An element with its value replaced.
LEMMA OtherValue ==
  ASSUME NEW d \in Table!Elem, NEW v \in Value
  PROVE  [d EXCEPT !.val = v] = [key |-> d.key, val |-> v] /\ [key |-> d.key, val |-> v] \in Table!Elem
BY DEF Table!Elem

\* The table of kv_ht_set when the key is there.
LEMMA Replaces ==
  ASSUME TableInv, NEW b \in 0 .. size - 1, NEW i \in DOMAIN table[b], NEW v \in Value,
         table' = [table EXCEPT ![b][i].val = v],
         size' = size, count' = count
  PROVE  /\ TableInv'
         /\ Stored(table') = (Stored(table) \ {table[b][i]})
                               \cup {[key |-> table[b][i].key, val |-> v]}
<1>1. DOMAIN table = 0 .. size - 1 /\ table[b] \in Seq(Table!Elem) /\ OneEach(table[b])
  BY DEF TableInv, Sound
<1>2. PICK s \in Seq(Table!Elem) : s = table[b] /\ OneEach(s) /\ i \in DOMAIN s
  BY <1>1
<1>3. PICK d \in Table!Elem : d = s[i]
  BY <1>2
<1>new. PICK e : e = [key |-> d.key, val |-> v]
  OBVIOUS
<1>4. e \in Table!Elem /\ e = [key |-> d.key, val |-> v] /\ e = [d EXCEPT !.val = v]
  BY <1>new, OtherValue
<1>same. e.key = s[i].key
  BY <1>3, <1>4
<1>5. PICK r : r = Revalued(s, i, e)
  OBVIOUS
<1>6. /\ r \in Seq(Table!Elem) /\ OneEach(r) /\ Members(r) = (Members(s) \ {s[i]}) \cup {e}
  BY <1>2, <1>4, <1>same, <1>5, Changed
<1>7. table' = [table EXCEPT ![b] = r]
  <2>1. table' = [table EXCEPT ![b] = [table[b] EXCEPT ![i] = [table[b][i] EXCEPT !.val = v]]]
    BY <1>1
  <2> QED BY <1>2, <1>3, <1>4, <1>5, <2>1 DEF Revalued
<1>8. /\ DOMAIN table' = 0 .. size - 1 /\ table'[b] = r
      /\ table' \in [0 .. size - 1 -> Seq(Table!Elem)]
      /\ \A c \in 0 .. size - 1 : c # b => table'[c] = table[c]
  BY <1>6, <1>7 DEF TableInv, Sound
<1>9. s[i] \in Members(table[b]) /\ s[i] \in Stored(table)
  BY <1>1, <1>2 DEF Members, Stored
<1>10. Table!BucketOf(e.key, size) = b
  BY <1>same, <1>9 DEF TableInv, Sound
<1>11. Sound(table', size)
  <2>1. ASSUME NEW c \in 0 .. size - 1
        PROVE  OneEach(table'[c]) /\ \A z \in Members(table'[c]) : Table!BucketOf(z.key, size) = c
    <3>1. CASE c = b
      <4>1. \A z \in Members(s) : Table!BucketOf(z.key, size) = b
        BY <1>2 DEF TableInv, Sound
      <4> QED BY <1>6, <1>8, <1>10, <3>1, <4>1
    <3>2. CASE c # b
      BY <1>8, <3>2 DEF TableInv, Sound
    <3> QED BY <3>1, <3>2
  <2> QED BY <1>8, <2>1 DEF Sound
<1>12. ASSUME NEW x PROVE x \in Stored(table') <=> x \in (Stored(table) \ {s[i]}) \cup {e}
  <2>1. x \in Stored(table') <=> \E c \in 0 .. size - 1 : x \in Members(table'[c])
    BY <1>8 DEF Stored
  <2>2. x \in Stored(table) <=> \E c \in 0 .. size - 1 : x \in Members(table[c])
    BY <1>1 DEF Stored
  <2>3. ASSUME NEW c \in 0 .. size - 1, c # b PROVE s[i] \notin Members(table[c])
    BY <1>9, <2>3 DEF TableInv, Sound
  <2>4. ASSUME NEW c \in 0 .. size - 1
        PROVE  x \in Members(table'[c]) <=> (x \in Members(table[c]) /\ x # s[i]) \/ (c = b /\ x = e)
    <3>1. CASE c = b
      BY <1>2, <1>6, <1>8, <3>1
    <3>2. CASE c # b
      BY <1>8, <2>3, <3>2
    <3> QED BY <3>1, <3>2
  <2>5. CASE x = e
    BY <2>1, <2>4, <2>5
  <2>6. CASE x # e
    BY <2>1, <2>2, <2>4, <2>6
  <2> QED BY <2>5, <2>6
<1>13. Stored(table') = (Stored(table) \ {s[i]}) \cup {e}
  BY <1>12
<1>14. e \notin Stored(table) \ {s[i]}
  BY <1>same, <1>9, KeysDiffer DEF TableInv
<1>15. PICK R : R = Stored(table) \ {s[i]}
  OBVIOUS
<1>16. IsFiniteSet(R) /\ Cardinality(R) = Cardinality(Stored(table)) - 1
  BY <1>9, <1>15, FS_RemoveElement DEF TableInv
<1>17. IsFiniteSet(R \cup {e}) /\ Cardinality(R \cup {e}) = Cardinality(R) + 1
  BY <1>14, <1>15, <1>16, FS_AddElement
<1>18. Cardinality(Stored(table)) \in Nat
  BY FS_CardinalityType DEF TableInv
<1>19. IsFiniteSet(Stored(table')) /\ Cardinality(Stored(table')) = Cardinality(Stored(table))
  <2>1. Stored(table') = R \cup {e}
    BY <1>13, <1>15
  <2>2. PICK c \in Nat : c = Cardinality(Stored(table))
    BY <1>18
  <2>3. Cardinality(R \cup {e}) = (c - 1) + 1
    BY <1>16, <1>17, <2>2
  <2>4. Cardinality(R \cup {e}) = c
    BY <2>3
  <2>5. Cardinality(Stored(table')) = c
    BY <2>1, <2>4, Zenon
  <2> QED BY <1>17, <2>1, <2>2, <2>5, Zenon
<1>20. TableInv'
  BY <1>11, <1>19 DEF TableInv
<1> QED BY <1>2, <1>3, <1>4, <1>13, <1>20

\* The table of kv_ht_set when the key is new, resized before or not.
LEMMA Inserts ==
  ASSUME TableInv, NEW e \in Table!Elem, ~Present(e.key), NEW n, NEW grown,
         n = IF count > size THEN 2 * size ELSE size,
         grown = IF count > size THEN Table!Resized(n) ELSE table,
         table' = Put(grown, n, e), size' = n, count' = count + 1
  PROVE  TableInv' /\ Stored(table') = Stored(table) \cup {e} /\ size <= size'
<1>1. size \in Nat \ {0} /\ Sound(table, size) /\ count \in Nat /\ count <= size + 1
  BY FS_CardinalityType DEF TableInv
<1>2. n \in Nat \ {0} /\ size <= n /\ count + 1 <= n + 1
  BY <1>1
<1>3. Sound(grown, n) /\ Stored(grown) = Stored(table)
  BY <1>1, <1>2, ResizedIs
<1>4. \A d \in Stored(grown) : d.key # e.key
  BY <1>3 DEF Present
<1>5. Sound(table', n) /\ Stored(table') = Stored(table) \cup {e}
  BY <1>2, <1>3, <1>4, Extended
<1>6. e \notin Stored(table)
  BY DEF Present
<1>7. IsFiniteSet(Stored(table')) /\ Cardinality(Stored(table')) = Cardinality(Stored(table)) + 1
  BY <1>5, <1>6, FS_AddElement DEF TableInv
<1> QED BY <1>2, <1>5, <1>7 DEF TableInv

\* The invariant of the empty table.
LEMMA KeysInvInit == Init => KeysInv
<1> SUFFICES ASSUME Init PROVE KeysInv
  OBVIOUS
<1>1. LockInv
  BY LockInvInit DEF Init
<1>2. /\ size = 2 /\ count = 0 /\ table = [b \in 0 .. 1 |-> <<>>]
      /\ call = [t \in Thread |-> NoKey] /\ asked = [t \in Thread |-> 0]
      /\ reply = [t \in Thread |-> None]
  BY DEF Init, Table!HashInit
<1>3. /\ DOMAIN table = 0 .. size - 1 /\ table \in [0 .. size - 1 -> Seq(Table!Elem)]
      /\ \A b \in DOMAIN table : table[b] = <<>> /\ Members(table[b]) = {} /\ OneEach(table[b])
  BY <1>2 DEF Members, OneEach
<1>4. Sound(table, size) /\ Stored(table) = {}
  BY <1>3 DEF Sound, Stored
<1>5. TableInv
  BY <1>2, <1>4, FS_EmptySet DEF TableInv
<1>6. CallsInv
  BY <1>2 DEF CallsInv
<1> QED BY <1>1, <1>5, <1>6 DEF KeysInv

\* A step of one thread's transaction leaves the others' lock lists alone.
LEMMA OthersHold ==
  ASSUME LockTypeOK, NEW t \in Thread, LockNext(t), NEW u \in Thread, u # t
  PROVE  step'[u] = step[u] /\ held'[u] = held[u]
BY DEF LockTypeOK, LockNext, LockCall, UnlockCall, StrayUnlock, Call, Go, Listed, Compare, Again,
  TakeMutex, SetCount, SetOwner, CompareOwner, Decrement, Disown, ReleaseMutex

\* Taking and giving locks back between two calls.
LEMMA LockingKeeps ==
  ASSUME KeysInv, NEW t \in Thread, Locking(t)
  PROVE  KeysInv'
<1>1. LockNext(t) /\ call[t] = NoKey /\ LockTypeOK
      /\ UNCHANGED <<size, count, table, call, asked, reply>>
  BY DEF Locking, KeysInv, LockInv
<1>2. LockInv'
  BY <1>1, LockInvNext DEF KeysInv
<1>3. TableInv'
  BY <1>1 DEF KeysInv, TableInv
<1>4. ASSUME NEW u \in Thread
      PROVE  /\ asked'[u] <= size' /\ (call'[u] = NoKey => asked'[u] = 0)
             /\ call'[u] # NoKey => step'[u] = "idle" /\ held'[u][StripeOf[call'[u]]] > 0
             /\ call'[u] # NoKey /\ asked'[u] = 0 => Present(call[u])'
  <2>1. call'[u] # NoKey => u # t
    BY <1>1
  <2> QED BY <1>1, <2>1, OthersHold DEF KeysInv, CallsInv, Present
<1>5. CallsInv'
  BY <1>1, <1>4 DEF KeysInv, CallsInv
<1> QED BY <1>2, <1>3, <1>5 DEF KeysInv

\* The locks, when only the table is used.
LEMMA HashingLocks ==
  ASSUME KeysInv, UNCHANGED lockVars
  PROVE  LockInv'
BY LockInvNext DEF KeysInv

\* The end of a call, when what other threads' gets have found is still there.
LEMMA CallEnds ==
  ASSUME KeysInv, UNCHANGED lockVars, NEW t \in Thread, NEW v \in Value \cup {None},
         Table!Returns(t, v), TableInv', size <= size',
         \A u \in Thread \ {t} : call[u] # NoKey /\ asked[u] = 0 =>
           \E e \in Stored(table') : e.key = call[u]
  PROVE  KeysInv' /\ asked' = [asked EXCEPT ![t] = 0] /\ reply' = [reply EXCEPT ![t] = v]
<1>1. LockInv'
  BY HashingLocks
<1>2. /\ call' = [call EXCEPT ![t] = NoKey] /\ asked' = [asked EXCEPT ![t] = 0]
      /\ reply' = [reply EXCEPT ![t] = v] /\ step' = step /\ held' = held
  BY DEF Table!Returns, lockVars
<1>3. CallsInv /\ TableInv
  BY DEF KeysInv
<1>4. /\ call' \in [Thread -> Key \cup {NoKey}] /\ asked' \in [Thread -> Nat]
      /\ reply' \in [Thread -> Value \cup {None}]
  BY <1>2, <1>3 DEF CallsInv
<1>5. size \in Nat /\ size' \in Nat
  BY <1>3 DEF TableInv
<1>6. ASSUME NEW u \in Thread
      PROVE  /\ asked'[u] <= size' /\ (call'[u] = NoKey => asked'[u] = 0)
             /\ call'[u] # NoKey => step'[u] = "idle" /\ held'[u][StripeOf[call'[u]]] > 0
             /\ call'[u] # NoKey /\ asked'[u] = 0 => Present(call[u])'
  <2>1. CASE u = t
    BY <1>2, <1>3, <1>5, <2>1 DEF CallsInv
  <2>2. CASE u # t
    <3>1. call'[u] = call[u] /\ asked'[u] = asked[u]
      BY <1>2, <1>3, <2>2 DEF CallsInv
    <3>2. asked[u] <= size /\ asked[u] \in Nat
      BY <1>3 DEF CallsInv
    <3>3. asked'[u] <= size'
      BY <1>5, <3>1, <3>2
    <3>4. call'[u] # NoKey /\ asked'[u] = 0 => Present(call[u])'
      BY <2>2, <3>1 DEF Present
    <3> QED BY <1>2, <1>3, <3>1, <3>3, <3>4 DEF CallsInv
  <2> QED BY <2>1, <2>2
<1>7. CallsInv'
  BY <1>4, <1>6 DEF CallsInv
<1> QED BY <1>1, <1>2, <1>7 DEF KeysInv

(***************************************************************************)
(* The map that the table stands for, and what a step is of it.            *)
(***************************************************************************)
ValueIn(tab, n, k) ==
  LET chain == tab[Table!BucketOf(k, n)]
  IN  IF Table!HasKey(chain, k) THEN chain[Table!IndexOf(chain, k)].val ELSE None

TheMap == [k \in Key |-> ValueIn(table, size, k)]

\* The value of the element that has the key.
LEMMA ValueIs ==
  ASSUME NEW n \in Nat \ {0}, NEW tab, Sound(tab, n), NEW k \in Key
  PROVE  /\ \A e \in Stored(tab) : e.key = k => ValueIn(tab, n, k) = e.val
         /\ (\A e \in Stored(tab) : e.key # k) => ValueIn(tab, n, k) = None
<1>1. PICK b \in 0 .. n - 1 : b = Table!BucketOf(k, n) /\ b \in DOMAIN tab
  BY BucketType DEF Sound
<1>2. PICK s : s = tab[b]
  OBVIOUS
<1>3. ValueIn(tab, n, k) = IF Table!HasKey(s, k) THEN s[Table!IndexOf(s, k)].val ELSE None
  BY <1>1, <1>2 DEF ValueIn
<1>4. ASSUME Table!HasKey(s, k)
      PROVE  s[Table!IndexOf(s, k)] \in Stored(tab) /\ s[Table!IndexOf(s, k)].key = k
  <2>1. PICK i : i = Table!IndexOf(s, k)
    OBVIOUS
  <2>2. i \in DOMAIN s /\ s[i].key = k
    BY <1>4, <2>1 DEF Table!HasKey, Table!IndexOf
  <2>3. s[i] \in Stored(tab)
    BY <1>1, <1>2, <2>2 DEF Stored, Members
  <2> QED BY <2>1, <2>2, <2>3
<1>5. ASSUME NEW e \in Stored(tab), e.key = k PROVE ValueIn(tab, n, k) = e.val
  <2>1. PICK c \in 0 .. n - 1 : e \in Members(tab[c])
    BY DEF Stored, Sound
  <2>2. c = b
    BY <1>1, <1>5, <2>1 DEF Sound
  <2>3. Table!HasKey(s, k)
    BY <1>2, <1>5, <2>1, <2>2 DEF Members, Table!HasKey
  <2>4. PICK d : d = s[Table!IndexOf(s, k)]
    OBVIOUS
  <2>5. d \in Stored(tab) /\ d.key = k
    BY <1>4, <2>3, <2>4
  <2>6. d = e
    BY <1>5, <2>5, KeysDiffer
  <2> QED BY <1>3, <2>3, <2>4, <2>6
<1>6. ASSUME \A e \in Stored(tab) : e.key # k PROVE ValueIn(tab, n, k) = None
  BY <1>3, <1>4, <1>6
<1> QED BY <1>5, <1>6

\* The elements of other keys are the same, and of k there is that of v, or none.
LEMMA MapChanges ==
  ASSUME TableInv, TableInv', NEW k \in Key, NEW v \in Value \cup {None},
         \A e : e.key # k => (e \in Stored(table') <=> e \in Stored(table)),
         \/ \E e \in Stored(table') : e.key = k /\ e.val = v
         \/ v = None /\ \A e \in Stored(table') : e.key # k
  PROVE  TheMap' = [TheMap EXCEPT ![k] = v]
<1>1. size \in Nat \ {0} /\ Sound(table, size)
  BY DEF TableInv
<1>2. size' \in Nat \ {0} /\ Sound(table', size')
  BY DEF TableInv
<1>3. ASSUME NEW l \in Key
      PROVE  ValueIn(table', size', l) = IF l = k THEN v ELSE ValueIn(table, size, l)
  <2>1. CASE l = k
    BY <1>2, <2>1, ValueIs
  <2>2. CASE l # k
    <3>1. CASE \E e \in Stored(table) : e.key = l
      <4>1. PICK e \in Stored(table) : e.key = l
        BY <3>1
      <4>2. e \in Stored(table')
        BY <2>2, <4>1
      <4> QED BY <1>1, <1>2, <2>2, <4>1, <4>2, ValueIs
    <3>2. CASE \A e \in Stored(table) : e.key # l
      <4>1. \A e \in Stored(table') : e.key # l
        BY <2>2, <3>2
      <4> QED BY <1>1, <1>2, <2>2, <3>2, <4>1, ValueIs
    <3> QED BY <3>1, <3>2
  <2> QED BY <2>1, <2>2
<1> QED BY <1>3 DEF TheMap

\* What a search finds in a chain of the table is the map's.
LEMMA SearchIs ==
  ASSUME TableInv, NEW k \in Key
  PROVE  /\ TheMap[k] \in Value \cup {None}
         /\ Table!HasKey(Table!Chain(k), k) =>
              TheMap[k] = Table!Chain(k)[Table!IndexOf(Table!Chain(k), k)].val
         /\ ~Table!HasKey(Table!Chain(k), k) => TheMap[k] = None
<1>1. TheMap[k] = IF Table!HasKey(Table!Chain(k), k)
                  THEN Table!Chain(k)[Table!IndexOf(Table!Chain(k), k)].val ELSE None
  BY DEF TheMap, ValueIn, Table!Chain
<1>2. PICK b \in 0 .. size - 1 : b = Table!BucketOf(k, size)
  BY LookUp
<1>3. ASSUME Table!HasKey(table[b], k) PROVE table[b][Table!IndexOf(table[b], k)].val \in Value
  <2>1. table[b][Table!IndexOf(table[b], k)] \in Table!Elem
    BY <1>3, FoundIn
  <2> QED BY <2>1 DEF Table!Elem
<1>4. Table!Chain(k) = table[b]
  BY <1>2 DEF Table!Chain
<1> QED BY <1>1, <1>3, <1>4

\* What a step is of the map, with what it does to the deletions that are going on.
Gets(t) ==
  /\ TheMap' = TheMap /\ size' = size /\ asked' = asked
  /\ \E k \in Key : reply' = [reply EXCEPT ![t] = TheMap[k]]

Sets(t) ==
  /\ asked' = asked
  /\ \E k \in Key, v \in Value :
       /\ TheMap' = [TheMap EXCEPT ![k] = v] /\ reply' = [reply EXCEPT ![t] = TheMap[k]]
       /\ size' = size \/ (size' > size /\ TheMap[k] = None)

Asks(t) ==
  /\ TheMap' = TheMap /\ size' = size /\ reply' = reply
  /\ asked[t] = 0 /\ asked' = [asked EXCEPT ![t] = size]

Deletes(t) ==
  /\ asked[t] # 0 /\ asked' = [asked EXCEPT ![t] = 0] /\ size' = size
  /\ \E k \in Key :
       TheMap' = [TheMap EXCEPT ![k] = None] /\ reply' = [reply EXCEPT ![t] = TheMap[k]]

Misses(t) ==
  /\ asked[t] # 0 /\ asked[t] # size /\ asked' = [asked EXCEPT ![t] = 0] /\ size' = size
  /\ TheMap' = TheMap /\ reply' = [reply EXCEPT ![t] = None]

Stays == TheMap' = TheMap /\ size' = size /\ asked' = asked /\ reply' = reply

\* A step that leaves the table alone.
LEMMA TableStays ==
  ASSUME TableInv, size' = size, count' = count, table' = table
  PROVE  TableInv' /\ TheMap' = TheMap /\ Stored(table') = Stored(table)
BY DEF TableInv, TheMap

\* A call that leaves the table alone and ends.
LEMMA CallEndsThere ==
  ASSUME KeysInv, UNCHANGED lockVars, NEW t \in Thread, NEW v \in Value \cup {None},
         Table!Returns(t, v), UNCHANGED <<size, count, table>>
  PROVE  /\ KeysInv' /\ asked' = [asked EXCEPT ![t] = 0] /\ reply' = [reply EXCEPT ![t] = v]
         /\ TheMap' = TheMap /\ size' = size
<1>1. TableInv' /\ TheMap' = TheMap /\ Stored(table') = Stored(table)
  BY TableStays DEF KeysInv
<1>2. size <= size'
  BY DEF KeysInv, TableInv
<1>3. \A u \in Thread \ {t} : call[u] # NoKey /\ asked[u] = 0 =>
        \E e \in Stored(table') : e.key = call[u]
  BY <1>1 DEF KeysInv, CallsInv, Present
<1> QED BY <1>1, <1>2, <1>3, CallEnds

\* A call that begins and has not taken effect.
LEMMA CallBegins ==
  ASSUME KeysInv, UNCHANGED lockVars, NEW t \in Thread, NEW k \in Key, step[t] = "idle",
         held[t][StripeOf[k]] > 0, call[t] = NoKey, NEW n \in {0, size},
         call' = [call EXCEPT ![t] = k], asked' = [asked EXCEPT ![t] = n],
         n = 0 => Present(k), UNCHANGED <<size, count, table, reply>>
  PROVE  KeysInv'
<1>1. LockInv'
  BY HashingLocks
<1>2. CallsInv /\ TableInv /\ size \in Nat \ {0} /\ step' = step /\ held' = held /\ NoKey # k
  BY KeysConstants DEF KeysInv, TableInv, lockVars
<1>3. TableInv' /\ Stored(table') = Stored(table)
  BY <1>2, TableStays
<1>4. /\ call' \in [Thread -> Key \cup {NoKey}] /\ asked' \in [Thread -> Nat]
      /\ reply' \in [Thread -> Value \cup {None}]
  BY <1>2 DEF CallsInv
<1>5. ASSUME NEW u \in Thread
      PROVE  /\ asked'[u] <= size' /\ (call'[u] = NoKey => asked'[u] = 0)
             /\ call'[u] # NoKey => step'[u] = "idle" /\ held'[u][StripeOf[call'[u]]] > 0
             /\ call'[u] # NoKey /\ asked'[u] = 0 => Present(call[u])'
  <2>1. CASE u = t
    <3>1. call'[u] = k /\ asked'[u] = n
      BY <1>2, <2>1 DEF CallsInv
    <3>2. n = 0 => Present(call[u])'
      BY <1>3, <3>1 DEF Present
    <3> QED BY <1>2, <2>1, <3>1, <3>2
  <2>2. CASE u # t
    <3>1. call'[u] = call[u] /\ asked'[u] = asked[u]
      BY <1>2, <2>2 DEF CallsInv
    <3>2. call'[u] # NoKey /\ asked'[u] = 0 => Present(call[u])'
      BY <1>2, <1>3, <3>1 DEF CallsInv, Present
    <3> QED BY <1>2, <3>1, <3>2 DEF CallsInv
  <2> QED BY <2>1, <2>2
<1>6. CallsInv'
  BY <1>4, <1>5 DEF CallsInv
<1> QED BY <1>1, <1>3, <1>6 DEF KeysInv

\* The steps of kv_ht_get, kv_ht_set and kv_ht_del.
LEMMA GetElemKeeps ==
  ASSUME KeysInv, UNCHANGED lockVars, NEW t \in Thread, NEW k \in Key, step[t] = "idle",
         held[t][StripeOf[k]] > 0, Table!GetElem(t, k)
  PROVE  KeysInv' /\ (Gets(t) \/ Stays)
<1>1. /\ call[t] = NoKey /\ UNCHANGED <<size, count, table>>
      /\ CallsInv /\ TableInv /\ asked[t] = 0 /\ asked = [asked EXCEPT ![t] = 0]
  BY DEF Table!GetElem, KeysInv, CallsInv
<1>2. CASE Table!HasKey(Table!Chain(k), k) /\ call' = [call EXCEPT ![t] = k] /\ UNCHANGED <<asked, reply>>
  <2>1. Present(k)
    BY <1>1, <1>2, LookUp
  <2>2. KeysInv'
    <3>1. 0 \in {0, size} /\ asked' = [asked EXCEPT ![t] = 0] /\ UNCHANGED <<size, count, table, reply>>
      BY <1>1, <1>2
    <3> QED BY <1>1, <1>2, <2>1, <3>1, CallBegins
  <2>3. TheMap' = TheMap
    BY <1>1, TableStays
  <2> QED BY <1>1, <1>2, <2>2, <2>3 DEF Stays
<1>3. CASE ~Table!HasKey(Table!Chain(k), k) /\ Table!Returns(t, None)
  <2>1. TheMap[k] = None
    BY <1>1, <1>3, SearchIs
  <2>2. /\ KeysInv' /\ asked' = [asked EXCEPT ![t] = 0] /\ reply' = [reply EXCEPT ![t] = None]
        /\ TheMap' = TheMap /\ size' = size
    BY <1>1, <1>3, CallEndsThere
  <2> QED BY <1>1, <2>1, <2>2 DEF Gets
<1> QED BY <1>2, <1>3 DEF Table!GetElem

LEMMA GetValueKeeps ==
  ASSUME KeysInv, UNCHANGED lockVars, NEW t \in Thread, Table!GetValue(t)
  PROVE  KeysInv' /\ Gets(t)
<1>1. /\ call[t] # NoKey /\ UNCHANGED <<size, count, table>>
      /\ CallsInv /\ TableInv /\ asked[t] = 0 /\ asked = [asked EXCEPT ![t] = 0]
  BY DEF Table!GetValue, KeysInv, CallsInv
<1>2. PICK k \in Key : k = call[t] /\ Present(k)
  BY <1>1 DEF CallsInv
<1>3. Table!HasKey(Table!Chain(k), k)
  BY <1>1, <1>2, LookUp
<1>4. TheMap[k] \in Value \cup {None} /\ Table!Returns(t, TheMap[k])
  BY <1>1, <1>2, <1>3, SearchIs DEF Table!GetValue
<1>5. /\ KeysInv' /\ asked' = [asked EXCEPT ![t] = 0] /\ reply' = [reply EXCEPT ![t] = TheMap[k]]
      /\ TheMap' = TheMap /\ size' = size
  BY <1>1, <1>4, CallEndsThere
<1> QED BY <1>1, <1>5 DEF Gets

LEMMA ReplaceKeeps ==
  ASSUME KeysInv, UNCHANGED lockVars, NEW t \in Thread, NEW k \in Key, NEW v \in Value,
         call[t] = NoKey, Table!Replace(t, k, v)
  PROVE  KeysInv' /\ Sets(t)
<1>1. CallsInv /\ TableInv /\ asked[t] = 0 /\ asked = [asked EXCEPT ![t] = 0]
  BY DEF KeysInv, CallsInv
<1>2. PICK b \in 0 .. size - 1 : b = Table!BucketOf(k, size)
  BY <1>1, LookUp
<1>3. PICK i : i = Table!IndexOf(table[b], k)
  OBVIOUS
<1>4. /\ Table!HasKey(table[b], k) /\ Table!Chain(k) = table[b]
      /\ table' = [table EXCEPT ![b][i].val = v] /\ UNCHANGED <<size, count>>
      /\ Table!Returns(t, Table!Chain(k)[Table!IndexOf(Table!Chain(k), k)].val)
  BY <1>2, <1>3 DEF Table!Replace, Table!Chain
<1>5. /\ i \in DOMAIN table[b] /\ table[b][i].key = k /\ table[b][i] \in Stored(table)
  BY <1>1, <1>3, <1>4, FoundIn
<1>old. PICK d : d = table[b][i]
  OBVIOUS
<1>new. PICK e : e = [key |-> d.key, val |-> v]
  OBVIOUS
<1>6. e.key = k /\ e.val = v
  BY <1>5, <1>old, <1>new
<1>7. TableInv' /\ Stored(table') = (Stored(table) \ {d}) \cup {e}
  BY <1>1, <1>4, <1>5, <1>old, <1>new, Replaces
<1>8. TheMap[k] \in Value \cup {None} /\ Table!Returns(t, TheMap[k])
  BY <1>1, <1>4, SearchIs
<1>9. TheMap' = [TheMap EXCEPT ![k] = v]
  <2>1. \A x : x.key # k => (x \in Stored(table') <=> x \in Stored(table))
    BY <1>5, <1>old, <1>6, <1>7
  <2>2. \E x \in Stored(table') : x.key = k /\ x.val = v
    BY <1>6, <1>7
  <2>3. v \in Value \cup {None}
    OBVIOUS
  <2> QED BY <1>1, <1>7, <2>1, <2>2, <2>3, MapChanges
<1>10. \A u \in Thread \ {t} : call[u] # NoKey /\ asked[u] = 0 =>
         \E x \in Stored(table') : x.key = call[u]
  <2>1. ASSUME NEW u \in Thread \ {t}, call[u] # NoKey /\ asked[u] = 0
        PROVE  \E x \in Stored(table') : x.key = call[u]
    <3>1. PICK x \in Stored(table) : x.key = call[u]
      BY <1>1, <2>1 DEF CallsInv, Present
    <3> QED BY <1>5, <1>old, <1>6, <1>7, <3>1
  <2> QED BY <2>1
<1>11. size <= size'
  BY <1>1, <1>4 DEF TableInv
<1>12. KeysInv' /\ asked' = [asked EXCEPT ![t] = 0] /\ reply' = [reply EXCEPT ![t] = TheMap[k]]
  BY <1>7, <1>8, <1>10, <1>11, CallEnds
<1> QED BY <1>1, <1>4, <1>9, <1>12 DEF Sets

LEMMA InsertKeeps ==
  ASSUME KeysInv, UNCHANGED lockVars, NEW t \in Thread, NEW k \in Key, NEW v \in Value,
         call[t] = NoKey, Table!Insert(t, k, v)
  PROVE  KeysInv' /\ Sets(t)
<1>1. CallsInv /\ TableInv /\ asked[t] = 0 /\ asked = [asked EXCEPT ![t] = 0]
  BY DEF KeysInv, CallsInv
<1>new. PICK e : e = [key |-> k, val |-> v]
  OBVIOUS
<1>2. e = [key |-> k, val |-> v] /\ e.key = k /\ e.val = v
  BY <1>new
<1>3. PICK n : n = IF count > size THEN 2 * size ELSE size
  OBVIOUS
<1>4. PICK grown : grown = IF count > size THEN Table!Resized(n) ELSE table
  OBVIOUS
<1>5. /\ ~Table!HasKey(Table!Chain(k), k)
      /\ table' = Put(grown, n, e) /\ size' = n /\ count' = count + 1
      /\ Table!Returns(t, None)
  BY <1>2, <1>3, <1>4 DEF Table!Insert, Put
<1>6. TheMap[k] = None /\ ~Present(e.key)
  BY <1>1, <1>2, <1>5, SearchIs, LookUp
<1>7. e \in Table!Elem
  BY <1>2 DEF Table!Elem
<1>8. TableInv' /\ Stored(table') = Stored(table) \cup {e} /\ size <= size'
  BY <1>1, <1>3, <1>4, <1>5, <1>6, <1>7, Inserts
<1>9. TheMap' = [TheMap EXCEPT ![k] = v]
  <2>1. \A x : x.key # k => (x \in Stored(table') <=> x \in Stored(table))
    BY <1>2, <1>8
  <2>2. \E x \in Stored(table') : x.key = k /\ x.val = v
    BY <1>2, <1>8
  <2>3. v \in Value \cup {None}
    OBVIOUS
  <2> QED BY <1>1, <1>8, <2>1, <2>2, <2>3, MapChanges
<1>10. \A u \in Thread \ {t} : call[u] # NoKey /\ asked[u] = 0 =>
         \E x \in Stored(table') : x.key = call[u]
  BY <1>1, <1>8 DEF CallsInv, Present
<1>11. KeysInv' /\ asked' = [asked EXCEPT ![t] = 0] /\ reply' = [reply EXCEPT ![t] = None]
  <2>1. None \in Value \cup {None}
    OBVIOUS
  <2> QED BY <1>5, <1>8, <1>10, <2>1, CallEnds
<1>12. size' = size \/ size' > size
  BY <1>3, <1>5, <1>1 DEF TableInv
<1> QED BY <1>1, <1>6, <1>9, <1>11, <1>12 DEF Sets

LEMMA ChooseBucketKeeps ==
  ASSUME KeysInv, UNCHANGED lockVars, NEW t \in Thread, NEW k \in Key, step[t] = "idle",
         held[t][StripeOf[k]] > 0, Table!ChooseBucket(t, k)
  PROVE  KeysInv' /\ Asks(t)
<1>1. /\ call[t] = NoKey /\ UNCHANGED <<size, count, table, reply>>
      /\ call' = [call EXCEPT ![t] = k] /\ asked' = [asked EXCEPT ![t] = size]
      /\ CallsInv /\ TableInv /\ asked[t] = 0 /\ size \in {0, size} /\ size # 0
  BY DEF Table!ChooseBucket, KeysInv, CallsInv, TableInv
<1>2. KeysInv'
  BY <1>1, CallBegins
<1>3. TheMap' = TheMap
  BY <1>1, TableStays
<1> QED BY <1>1, <1>2, <1>3 DEF Asks

\* A deletion looks in one of the buckets, the key's own unless the table has grown.
LEMMA Asked ==
  ASSUME KeysInv, NEW t \in Thread, asked[t] # 0
  PROVE  /\ call[t] \in Key /\ held[t][StripeOf[call[t]]] > 0
         /\ Table!BucketOf(call[t], asked[t]) \in 0 .. size - 1
<1>1. CallsInv /\ TableInv
  BY DEF KeysInv
<1>2. call[t] \in Key /\ call[t] # NoKey
  BY <1>1 DEF CallsInv
<1>3. asked[t] \in Nat \ {0} /\ asked[t] <= size /\ size \in Nat
  BY <1>1 DEF CallsInv, TableInv
<1>4. Table!BucketOf(call[t], asked[t]) \in 0 .. asked[t] - 1
  BY <1>2, <1>3, BucketType
<1> QED BY <1>1, <1>2, <1>3, <1>4 DEF CallsInv

LEMMA DeleteKeeps ==
  ASSUME KeysInv, UNCHANGED lockVars, NEW t \in Thread, Table!Delete(t)
  PROVE  KeysInv' /\ Deletes(t)
<1>1. asked[t] # 0 /\ CallsInv /\ TableInv /\ LockInv
  BY DEF Table!Delete, KeysInv
<1>2. PICK k \in Key : k = call[t] /\ held[t][StripeOf[k]] > 0
  BY <1>1, Asked
<1>3. PICK b \in 0 .. size - 1 : b = Table!BucketOf(k, asked[t])
  BY <1>1, <1>2, Asked
<1>4. PICK i : i = Table!IndexOf(table[b], k)
  OBVIOUS
<1>5. PICK s : s = table[b]
  OBVIOUS
<1>6. /\ Table!HasKey(table[b], k) /\ table' = [table EXCEPT ![b] = Table!RemoveAt(@, i)]
      /\ size' = size /\ count' = count - 1 /\ Table!Returns(t, table[b][i].val)
  BY <1>2, <1>3, <1>4 DEF Table!Delete
<1>7. /\ b = Table!BucketOf(k, size) /\ i \in DOMAIN table[b] /\ table[b][i].key = k
      /\ table[b][i] \in Stored(table)
  BY <1>1, <1>4, <1>6, FoundIn
<1>8. PICK d : d = table[b][i]
  OBVIOUS
<1>9. TableInv' /\ Stored(table') = Stored(table) \ {d}
  BY <1>1, <1>6, <1>7, <1>8, Removes
<1>10. TheMap[k] \in Value \cup {None} /\ Table!Returns(t, TheMap[k])
  <2>1. Table!Chain(k) = table[b]
    BY <1>7 DEF Table!Chain
  <2> QED BY <1>1, <1>4, <1>6, <2>1, SearchIs
<1>11. \A e \in Stored(table) : e.key = k => e = d
  BY <1>1, <1>7, <1>8, KeysDiffer DEF TableInv
<1>12. TheMap' = [TheMap EXCEPT ![k] = None]
  <2>1. \A x : x.key # k => (x \in Stored(table') <=> x \in Stored(table))
    BY <1>7, <1>8, <1>9
  <2>2. \A x \in Stored(table') : x.key # k
    BY <1>9, <1>11
  <2>3. None \in Value \cup {None}
    OBVIOUS
  <2> QED BY <1>1, <1>9, <2>1, <2>2, <2>3, MapChanges
<1>13. \A u \in Thread \ {t} : call[u] # NoKey /\ asked[u] = 0 =>
         \E x \in Stored(table') : x.key = call[u]
  <2>1. ASSUME NEW u \in Thread \ {t}, call[u] # NoKey /\ asked[u] = 0
        PROVE  \E x \in Stored(table') : x.key = call[u]
    <3>1. /\ call[u] \in Key /\ held[u][StripeOf[call[u]]] > 0
          /\ \E x \in Stored(table) : x.key = call[u]
      BY <1>1, <2>1 DEF CallsInv, Present
    <3>2. call[u] # k
      BY <1>1, <1>2, <3>1, OneHolder, KeysConstants
    <3> QED BY <1>7, <1>8, <1>9, <3>1, <3>2
  <2> QED BY <2>1
<1>14. size <= size'
  BY <1>1, <1>6 DEF TableInv
<1>15. KeysInv' /\ asked' = [asked EXCEPT ![t] = 0] /\ reply' = [reply EXCEPT ![t] = TheMap[k]]
  BY <1>9, <1>10, <1>13, <1>14, CallEnds
<1> QED BY <1>1, <1>6, <1>12, <1>15 DEF Deletes

LEMMA NotFoundKeeps ==
  ASSUME KeysInv, UNCHANGED lockVars, NEW t \in Thread, Table!NotFound(t)
  PROVE  KeysInv' /\ (Deletes(t) \/ Misses(t))
<1>1. /\ asked[t] # 0 /\ CallsInv /\ TableInv /\ Table!Returns(t, None)
      /\ UNCHANGED <<size, count, table>>
  BY DEF Table!NotFound, KeysInv
<1>2. PICK k \in Key : k = call[t]
  BY <1>1, Asked
<1>3. /\ KeysInv' /\ asked' = [asked EXCEPT ![t] = 0] /\ reply' = [reply EXCEPT ![t] = None]
      /\ TheMap' = TheMap /\ size' = size
  BY <1>1, CallEndsThere
<1>4. CASE asked[t] = size
  <2>1. ~Table!HasKey(Table!Chain(k), k)
    BY <1>2, <1>4 DEF Table!NotFound, Table!Chain
  <2>2. TheMap[k] = None
    BY <1>1, <2>1, SearchIs
  <2>3. TheMap' = [TheMap EXCEPT ![k] = None]
    BY <1>3, <2>2 DEF TheMap
  <2> QED BY <1>1, <1>3, <2>2, <2>3 DEF Deletes
<1>5. CASE asked[t] # size
  BY <1>1, <1>3, <1>5 DEF Misses
<1> QED BY <1>4, <1>5

MapStep(t) == Gets(t) \/ Sets(t) \/ Asks(t) \/ Deletes(t) \/ Misses(t) \/ Stays

LEMMA HashingKeeps ==
  ASSUME KeysInv, NEW t \in Thread, Hashing(t)
  PROVE  KeysInv' /\ MapStep(t)
<1>1. step[t] = "idle" /\ UNCHANGED lockVars
  BY DEF Hashing
<1>2. CASE Table!Continue(t)
  BY <1>1, <1>2, GetValueKeeps, DeleteKeeps, NotFoundKeeps DEF Table!Continue, MapStep
<1>3. ASSUME NEW k \in Key, held[t][StripeOf[k]] > 0, Table!Begin(t, k) PROVE KeysInv' /\ MapStep(t)
  <2>1. CASE Table!GetElem(t, k)
    BY <1>1, <1>3, <2>1, GetElemKeeps DEF MapStep
  <2>2. CASE Table!ChooseBucket(t, k)
    BY <1>1, <1>3, <2>2, ChooseBucketKeeps DEF MapStep
  <2>3. ASSUME NEW v \in Value, Table!SetElem(t, k, v) PROVE KeysInv' /\ MapStep(t)
    BY <1>1, <2>3, ReplaceKeeps, InsertKeeps DEF Table!SetElem, MapStep
  <2> QED BY <1>3, <2>1, <2>2, <2>3 DEF Table!Begin
<1> QED BY <1>2, <1>3 DEF Hashing

\* Every step keeps the invariant, and is a step of the map or none.
LEMMA KeysInvNext ==
  ASSUME KeysInv, [Next]_keysVars
  PROVE  KeysInv' /\ (Stays \/ \E t \in Thread : MapStep(t))
<1>1. CASE UNCHANGED keysVars
  <2>1. UNCHANGED <<lockVars, size, count, table, call, asked, reply>>
    BY <1>1 DEF keysVars
  <2>2. TableInv' /\ TheMap' = TheMap
    BY <2>1, TableStays DEF KeysInv
  <2>3. LockInv'
    BY <2>1, HashingLocks
  <2>4. CallsInv'
    BY <2>1 DEF KeysInv, CallsInv, Present, lockVars
  <2> QED BY <2>1, <2>2, <2>3, <2>4 DEF KeysInv, Stays
<1>2. ASSUME NEW t \in Thread, Locking(t) PROVE KeysInv' /\ Stays
  <2>1. UNCHANGED <<size, count, table, asked, reply>>
    BY <1>2 DEF Locking
  <2>2. TheMap' = TheMap
    BY <2>1 DEF TheMap
  <2> QED BY <1>2, <2>1, <2>2, LockingKeeps DEF Stays
<1> QED BY <1>1, <1>2, HashingKeeps DEF Next

LEMMA KeysInvAlways == Spec => []KeysInv
<1>1. KeysInv /\ [Next]_keysVars => KeysInv'
  BY KeysInvNext
<1> QED BY KeysInvInit, <1>1, PTL DEF Spec

\* At every moment each key is at most once in the table, in the bucket that it is
\* looked for, and count is the number of elements: whatever calls and resizes of
\* kv_ht_set, kv_ht_get and kv_ht_del came before.
THEOREM TableWellFormed == Spec => []WellFormed
<1>1. KeysInv => WellFormed
  <2> SUFFICES ASSUME KeysInv PROVE WellFormed
    OBVIOUS
  <2>1. /\ TableInv /\ Sound(table, size) /\ size \in Nat \ {0} /\ DOMAIN table = 0 .. size - 1
        /\ count = Cardinality(Stored(table)) /\ count <= size + 1
    BY DEF KeysInv, TableInv, Sound
  <2>2. count = Len(Table!Elements)
    <3>1. PICK E \in Seq(Table!Elem) : E = Table!Elements /\ OneEach(E) /\ Members(E) = Stored(table)
      BY <2>1, ElementsAre
    <3> QED BY <2>1, <3>1, CountOf
  <2>3. ASSUME NEW b \in 0 .. size - 1
        PROVE  /\ table[b] \in Seq(Table!Elem)
               /\ \A i, j \in DOMAIN table[b] :
                    /\ Table!BucketOf(table[b][i].key, size) = b
                    /\ table[b][i].key = table[b][j].key => i = j
    BY <2>1 DEF Sound, OneEach, Members
  <2> QED BY <2>1, <2>2, <2>3 DEF WellFormed, Table!WellFormed
<1> QED BY <1>1, KeysInvAlways, PTL

\* An element that kv_ht_get has found, and whose value it reads after it has
\* released the table's lock, is still in the table: nobody frees it in between.
THEOREM FoundStays == Spec => []FoundIsThere
<1>1. KeysInv => FoundIsThere
  <2> SUFFICES ASSUME KeysInv, NEW t \in Thread, call[t] # NoKey, asked[t] = 0
               PROVE  Table!HasKey(Table!Chain(call[t]), call[t])
    BY DEF FoundIsThere, Table!FoundIsThere
  <2>1. call[t] \in Key /\ Present(call[t]) /\ TableInv
    BY DEF KeysInv, CallsInv
  <2> QED BY <2>1, LookUp
<1> QED BY <1>1, KeysInvAlways, PTL

(***************************************************************************)
(* The table implements the map.                                           *)
(***************************************************************************)
\* The empty table is the empty map.
LEMMA MapInit == Init => Table!Map!Init
<1> SUFFICES ASSUME Init PROVE Table!Map!Init
  OBVIOUS
<1>1. /\ size = 2 /\ table = [b \in 0 .. 1 |-> <<>>]
      /\ asked = [t \in Thread |-> 0] /\ reply = [t \in Thread |-> None]
  BY DEF Init, Table!HashInit
<1>2. ASSUME NEW k \in Key PROVE ~Table!HasKey(Table!Chain(k), k)
  <2>1. PICK b \in 0 .. 1 : b = Table!BucketOf(k, size)
    BY <1>1, BucketType
  <2>2. Table!Chain(k) = <<>>
    BY <1>1, <2>1 DEF Table!Chain
  <2> QED BY <2>2 DEF Table!HasKey
<1>3. Table!Deleting = {}
  BY <1>1 DEF Table!Deleting
<1> QED BY <1>1, <1>2, <1>3 DEF Table!Map!Init

Outgrown == {t \in Table!Deleting : asked[t] # size}

\* The abstract map's steps, in terms of TheMap.
LEMMA MapActions ==
  ASSUME NEW t \in Thread
  PROVE  /\ \A k \in Key :
              Table!Map!Get(t, k) <=> /\ reply' = [reply EXCEPT ![t] = TheMap[k]]
                                      /\ UNCHANGED <<TheMap, Table!Deleting, Outgrown>>
         /\ \A k \in Key, v \in Value :
              Table!Map!Set(t, k, v) <=>
                /\ TheMap' = [TheMap EXCEPT ![k] = v] /\ reply' = [reply EXCEPT ![t] = TheMap[k]]
                /\ Outgrown' \in {Outgrown} \cup (IF TheMap[k] = None THEN {Table!Deleting} ELSE {})
                /\ UNCHANGED Table!Deleting
         /\ Table!Map!StartDel(t) <=>
              /\ t \notin Table!Deleting /\ Table!Deleting' = Table!Deleting \cup {t}
              /\ UNCHANGED <<TheMap, Outgrown, reply>>
         /\ \A k \in Key :
              Table!Map!Del(t, k) <=>
                /\ t \in Table!Deleting
                /\ TheMap' = [TheMap EXCEPT ![k] = None] /\ reply' = [reply EXCEPT ![t] = TheMap[k]]
                /\ Table!Deleting' = Table!Deleting \ {t} /\ Outgrown' = Outgrown \ {t}
         /\ Table!Map!MissedDel(t) <=>
              /\ t \in Outgrown /\ reply' = [reply EXCEPT ![t] = None]
              /\ Table!Deleting' = Table!Deleting \ {t} /\ Outgrown' = Outgrown \ {t}
              /\ UNCHANGED TheMap
BY DEF Table!Map!Get, Table!Map!Set, Table!Map!StartDel, Table!Map!Del,
  Table!Map!MissedDel, Table!Map!Ended, Table!Map!Answer, TheMap, ValueIn, Table!Chain, Outgrown

\* A step that changes nothing is none of the map's.
LEMMA MapStays ==
  ASSUME Stays
  PROVE  UNCHANGED Table!Map!mapVars
<1>1. Table!Deleting' = Table!Deleting /\ Outgrown' = Outgrown
  BY DEF Stays, Table!Deleting, Outgrown
<1>2. Table!Map!mapVars = <<TheMap, Table!Deleting, Outgrown, reply>>
  BY DEF Table!Map!mapVars, TheMap, ValueIn, Table!Chain, Outgrown
<1>3. Table!Map!mapVars' = <<TheMap', Table!Deleting', Outgrown', reply'>>
  BY DEF Table!Map!mapVars, TheMap, ValueIn, Table!Chain, Outgrown
<1> QED BY <1>1, <1>2, <1>3 DEF Stays

\* Each of the table's steps is one of the map's, or none.
LEMMA MapNext ==
  ASSUME KeysInv, KeysInv', NEW t \in Thread, MapStep(t)
  PROVE  Table!Map!Next \/ UNCHANGED Table!Map!mapVars
<1>1. /\ asked \in [Thread -> Nat] /\ size \in Nat \ {0} /\ size' \in Nat \ {0}
      /\ \A u \in Thread : asked[u] <= size
      /\ TheMap \in [Key -> Value \cup {None}]
  <2>1. TheMap \in [Key -> Value \cup {None}]
    BY SearchIs DEF KeysInv, TheMap
  <2> QED BY <2>1 DEF KeysInv, CallsInv, TableInv
<1>2. ASSUME asked' = asked, size' = size
      PROVE  Table!Deleting' = Table!Deleting /\ Outgrown' = Outgrown
  BY <1>2 DEF Table!Deleting, Outgrown
<1>3. ASSUME asked[t] # 0, asked' = [asked EXCEPT ![t] = 0], size' = size
      PROVE  /\ t \in Table!Deleting
             /\ Table!Deleting' = Table!Deleting \ {t} /\ Outgrown' = Outgrown \ {t}
  BY <1>1, <1>3 DEF Table!Deleting, Outgrown
<1>4. CASE Gets(t)
  <2>1. PICK k \in Key : reply' = [reply EXCEPT ![t] = TheMap[k]]
    BY <1>4 DEF Gets
  <2>2. Table!Map!Get(t, k)
    BY <1>2, <1>4, <2>1, MapActions DEF Gets
  <2> QED BY <2>2 DEF Table!Map!Next
<1>5. CASE Sets(t)
  <2>1. PICK k \in Key, v \in Value :
          /\ TheMap' = [TheMap EXCEPT ![k] = v] /\ reply' = [reply EXCEPT ![t] = TheMap[k]]
          /\ size' = size \/ (size' > size /\ TheMap[k] = None)
    BY <1>5 DEF Sets
  <2>2. Table!Deleting' = Table!Deleting
    BY <1>5 DEF Sets, Table!Deleting
  <2>3. size' > size => Outgrown' = Table!Deleting
    BY <1>1, <1>5 DEF Sets, Table!Deleting, Outgrown
  <2>4. size' = size => Outgrown' = Outgrown
    BY <1>2, <1>5 DEF Sets
  <2>5. Outgrown' \in {Outgrown} \cup (IF TheMap[k] = None THEN {Table!Deleting} ELSE {})
    BY <2>1, <2>3, <2>4
  <2>6. Table!Map!Set(t, k, v)
    BY <2>1, <2>2, <2>5, MapActions
  <2> QED BY <2>6 DEF Table!Map!Next
<1>6. CASE Asks(t)
  <2>1. /\ t \notin Table!Deleting /\ Table!Deleting' = Table!Deleting \cup {t}
        /\ Outgrown' = Outgrown
    BY <1>1, <1>6 DEF Asks, Table!Deleting, Outgrown
  <2>2. Table!Map!StartDel(t)
    BY <1>6, <2>1, MapActions DEF Asks
  <2> QED BY <2>2 DEF Table!Map!Next
<1>7. CASE Deletes(t)
  <2>1. PICK k \in Key :
          TheMap' = [TheMap EXCEPT ![k] = None] /\ reply' = [reply EXCEPT ![t] = TheMap[k]]
    BY <1>7 DEF Deletes
  <2>2. Table!Map!Del(t, k)
    BY <1>3, <1>7, <2>1, MapActions DEF Deletes
  <2> QED BY <2>2 DEF Table!Map!Next
<1>8. CASE Misses(t)
  <2>1. t \in Outgrown
    BY <1>3, <1>8 DEF Misses, Outgrown
  <2>2. Table!Map!MissedDel(t)
    BY <1>3, <1>8, <2>1, MapActions DEF Misses
  <2> QED BY <2>2 DEF Table!Map!Next
<1>9. CASE Stays
  BY <1>9, MapStays
<1> QED BY <1>4, <1>5, <1>6, <1>7, <1>8, <1>9 DEF MapStep

\* Every kv_ht_set, kv_ht_get and kv_ht_del under the key's lock is one step on a
\* map of keys to values, which a resize does not change; only a deletion whose
\* bucket was computed before a resize may find nothing.
THEOREM MapImplemented == Spec => ImplementsMap
<1>1. KeysInv /\ KeysInv' /\ [Next]_keysVars => [Table!Map!Next]_(Table!Map!mapVars)
  <2> SUFFICES ASSUME KeysInv, KeysInv', [Next]_keysVars
               PROVE  Table!Map!Next \/ UNCHANGED Table!Map!mapVars
    OBVIOUS
  <2>1. CASE Stays
    BY <2>1, MapStays
  <2>2. ASSUME NEW t \in Thread, MapStep(t)
        PROVE  Table!Map!Next \/ UNCHANGED Table!Map!mapVars
    BY <2>2, MapNext
  <2> QED BY <2>1, <2>2, KeysInvNext
<1> QED BY MapInit, KeysInvAlways, <1>1, PTL
        DEF Spec, ImplementsMap, Table!ImplementsMap, Table!Map!Spec
=============================================================================
