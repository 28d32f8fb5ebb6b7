--------------------------- MODULE KVValueProofs ---------------------------
(***************************************************************************)
(* What the log says of the values of keys: before-images, the hash table  *)
(* as the log replayed, and committed values outside the transactions that *)
(* hold a key's lock.  For every set of clients, keys, values and locks    *)
(* and every bound.                                                        *)
(***************************************************************************)
EXTENDS KVTxnProofs

USE DEF vars, logVars, lockVars

(***************************************************************************)
(* The inductive invariant.                                                *)
(***************************************************************************)

\* The updates a client's transaction has logged of a key.
Own(c, k) == UpdatesOf(log, {txid[c]}, k)

IsLargest(S, m)  == m \in S /\ \A j \in S : j <= m
IsSmallest(S, m) == m \in S /\ \A j \in S : m <= j

\* What the log as it is leaves of key k.
Now(k) == Replayed(k, lsn + 1)

\* A client whose transaction is neither committed nor rolled back.
Dirty(c) == txid[c] # 0 /\ pc[c] \notin {"set_commit", "set_end", "unlock"}

Undoes(c) == pc[c] \in {"rollback", "set_clr", "undo_apply"}

\* Between two updates of a key that a transaction has logged, the key's
\* changes are the transaction's updates.
Unmixed ==
  \A i, j \in DOMAIN log :
    /\ i < j /\ log[i].type = "UPDATE" /\ log[j].type = "UPDATE"
    /\ log[i].tx = log[j].tx /\ log[i].key = log[j].key
    => \A m \in Changes(log[i].key) :
         i < m /\ m < j => log[m].type = "UPDATE" /\ log[m].tx = log[i].tx

\* What a client has read under its lock is still so, and what it has logged is
\* the log's last word.
CommandHolds(c) ==
  \A k \in Key : cmd[c].key = k =>
    /\ pc[c] \in {"reply", "log", "set_update", "apply"} => old[c] = ht[k]
    /\ pc[c] \in {"set_update", "apply"} => Now(k) = ToLog(cmd[c].val)

\* Behind a transaction's update nobody else changes the key before the
\* transaction releases its locks.
KeepsOut(c) ==
  txid[c] # 0 /\ pc[c] # "unlock" =>
    \A k \in Key : \A i \in Own(c, k) : \A j \in Changes(k) :
      i < j => log[j].tx = txid[c]

\* A transaction logs CLR records only in its rollback, and COMMIT at its end.
LogsInOrder(c) ==
  \A i \in DOMAIN log : txid[c] # 0 /\ log[i].tx = txid[c] =>
    /\ log[i].type = "CLR" => Undoes(c) \/ pc[c] \in {"set_end", "unlock"}
    /\ log[i].type = "COMMIT" => ~Dirty(c) /\ pc[c] # "set_end"

\* In a rollback, the log leaves of a key the value that the last update up to
\* the cursor gave it, or when there is none the value before the first.
Undone(c, k) ==
  \A u \in Own(c, k) :
    /\ IsLargest({i \in Own(c, k) : i <= cursor[c]}, u) => Now(k) = log[u].new
    /\ cursor[c] < u /\ IsSmallest(Own(c, k), u) => Now(k) = log[u].old

RollbackOf(c, k) ==
  /\ pc[c] = "rollback" => Undone(c, k)
  /\ pc[c] \in {"set_clr", "undo_apply"} =>
       IF log[cursor[c]].key = k THEN Now(k) = log[cursor[c]].old ELSE Undone(c, k)
  /\ pc[c] = "set_clr" /\ log[cursor[c]].key = k => ToLog(ht[k]) = log[cursor[c]].new

RollbackHolds(c) == Undoes(c) => \A k \in Key : RollbackOf(c, k)

\* Before the first update of a transaction that has not ended, the key has its
\* committed value.
BeganCommitted(c) ==
  Dirty(c) => \A k \in Key : \A u \in Own(c, k) :
    IsSmallest(Own(c, k), u) => log[u].old = ToLog(Committed(log)[k])

ValueOK(c) ==
  CommandHolds(c) /\ KeepsOut(c) /\ LogsInOrder(c) /\ RollbackHolds(c) /\ BeganCommitted(c)

\* A key that nobody is changing has its committed value in the log.
CleanCommitted ==
  \A k \in Key : (\A c \in Client : Dirty(c) => Own(c, k) = {}) =>
    ToLog(Committed(log)[k]) = Now(k)

\* A transaction's BEGIN record is its first.
BeginsFirst == \A i \in DOMAIN log : log[i].type = "BEGIN" => log[i].prev = 0

ValueInv ==
  /\ TxnInv
  /\ BeforeImage /\ WriteAhead /\ Unmixed /\ BeginsFirst /\ CleanCommitted
  /\ \A c \in Client : ValueOK(c)

(***************************************************************************)
(* Largest and smallest members of sets of line numbers.                   *)
(***************************************************************************)
LEMMA LargestIs ==
  ASSUME NEW S \in SUBSET Nat, NEW m, IsLargest(S, m)
  PROVE  Max(S) = m
<1>1. m \in S /\ m \in Nat /\ \A j \in S : j <= m /\ j \in Nat
  BY DEF IsLargest
<1>2. ASSUME NEW x \in S, \A j \in S : x >= j PROVE x = m
  BY <1>1, <1>2
<1> QED BY <1>1, <1>2 DEF Max

LEMMA LargestExists ==
  ASSUME NEW n \in Nat, NEW S \in SUBSET (0 .. n), S # {}
  PROVE  \E m \in S : IsLargest(S, m)
<1> DEFINE down == {d \in Nat : n - d \in S}
<1>1. down \in SUBSET Nat /\ down # {}
  <2>1. PICK s \in S : TRUE
    OBVIOUS
  <2>2. n - s \in Nat /\ n - (n - s) = s
    OBVIOUS
  <2> QED BY <2>1, <2>2
<1>2. Min(down) \in down /\ \A d \in down : Min(down) <= d
  <2> HIDE DEF down
  <2> QED BY <1>1, MinType
<1>3. ASSUME NEW s \in S PROVE s <= n - Min(down)
  <2>1. n - s \in Nat /\ n - (n - s) = s /\ s \in Nat
    OBVIOUS
  <2>2. n - s \in down
    BY <2>1
  <2>3. Min(down) <= n - s /\ Min(down) \in Nat
    BY <1>2, <2>2
  <2> HIDE DEF down
  <2> QED BY <2>1, <2>3
<1>4. n - Min(down) \in S
  BY <1>2
<1> QED BY <1>3, <1>4 DEF IsLargest

LEMMA SmallestExists ==
  ASSUME NEW S \in SUBSET Nat, S # {}
  PROVE  \E m \in S : IsSmallest(S, m)
BY MinType DEF IsSmallest

(***************************************************************************)
(* What a log gives back, and what one record more changes.                *)
(***************************************************************************)

\* The changes of a key before line i.
Before(k, i) == {j \in Changes(k) : j < i}

\* What is replayed is the new value of the last change.
LEMMA ReplayedIs ==
  ASSUME TypeOK, NEW k, NEW i \in Nat
  PROVE  /\ Before(k, i) = {} => Replayed(k, i) = Empty
         /\ \A m : IsLargest(Before(k, i), m) => Replayed(k, i) = log[m].new
         /\ Before(k, i) # {} => \E m \in Before(k, i) : IsLargest(Before(k, i), m)
<1>1. Before(k, i) \in SUBSET (0 .. Len(log)) /\ Len(log) \in Nat
  BY LogIsSeq DEF Before, Changes
<1>2. Replayed(k, i) = IF Before(k, i) = {} THEN Empty ELSE log[Max(Before(k, i))].new
  BY DEF Replayed, Before
<1>3. ASSUME NEW m, IsLargest(Before(k, i), m) PROVE Replayed(k, i) = log[m].new
  <2>1. Before(k, i) \in SUBSET Nat
    BY <1>1
  <2>2. Before(k, i) # {}
    BY <1>3 DEF IsLargest
  <2> QED BY <1>2, <1>3, <2>1, <2>2, LargestIs
<1>4. Before(k, i) # {} => \E m \in Before(k, i) : IsLargest(Before(k, i), m)
  BY <1>1, LargestExists
<1> QED BY <1>2, <1>3, <1>4

\* Record r changes key k.
Changing(r, k) == r.type \in {"UPDATE", "CLR"} /\ r.key = k

\* One record more in the log.
LEMMA AppendedChanges ==
  ASSUME TypeOK, NEW r \in Record, log' = Append(log, r), NEW k
  PROVE  /\ Changes(k)' = Changes(k) \cup (IF Changing(r, k) THEN {Len(log) + 1} ELSE {})
         /\ \A tx : UpdatesOf(log', {tx}, k) = UpdatesOf(log, {tx}, k) \cup
              (IF r.type = "UPDATE" /\ r.key = k /\ r.tx = tx THEN {Len(log) + 1} ELSE {})
<1>1. /\ DOMAIN log' = 1 .. Len(log) + 1 /\ DOMAIN log = 1 .. Len(log) /\ Len(log) \in Nat
      /\ \A i \in 1 .. Len(log) : log'[i] = log[i]
      /\ log'[Len(log) + 1] = r
  BY Appended, LogIsSeq
<1>2. \A i : i \in DOMAIN log' <=> i \in DOMAIN log \/ i = Len(log) + 1
  BY <1>1
<1>3. Changes(k)' = {i \in DOMAIN log' : log'[i].type \in {"UPDATE", "CLR"} /\ log'[i].key = k}
  BY DEF Changes
<1> QED BY <1>1, <1>2, <1>3 DEF Changes, UpdatesOf, Changing

\* What the whole log leaves of key k.
Latest(k) == Replayed(k, Len(log) + 1)

\* What the records before a line leave of a key is not changed by one behind.
LEMMA AppendedLatest ==
  ASSUME TypeOK, NEW r \in Record, log' = Append(log, r), NEW k
  PROVE  /\ \A i \in 1 .. Len(log) + 1 : Replayed(k, i)' = Replayed(k, i)
         /\ Latest(k)' = IF Changing(r, k) THEN r.new ELSE Latest(k)
<1>0. PICK n \in Nat : n = Len(log) + 1
  BY LogIsSeq
<1>1. /\ DOMAIN log' = 1 .. n /\ DOMAIN log = 1 .. n - 1 /\ n - 1 \in Nat
      /\ \A i \in 1 .. n - 1 : log'[i] = log[i]
      /\ log'[n] = r /\ Len(log) + 1 = n /\ Len(log') + 1 = n + 1
  BY <1>0, Appended, LogIsSeq
<1>2. Changes(k)' = Changes(k) \cup (IF Changing(r, k) THEN {n} ELSE {})
  BY <1>0, AppendedChanges
<1>3. Changes(k) \in SUBSET (1 .. n - 1)
  BY <1>1 DEF Changes
<1>4. ASSUME NEW i \in 1 .. n PROVE Replayed(k, i)' = Replayed(k, i)
  <2>1. Before(k, i)' = Before(k, i)
    BY <1>1, <1>2, <1>3 DEF Before
  <2>2. CASE Before(k, i) = {}
    BY <2>1, <2>2 DEF Replayed, Before
  <2>3. CASE Before(k, i) # {}
    <3>1. PICK m \in Before(k, i) : IsLargest(Before(k, i), m)
      BY <1>1, <2>3, ReplayedIs
    <3>2. Max(Before(k, i)) = m /\ log'[m] = log[m]
      <4>1. Before(k, i) \in SUBSET Nat
        BY <1>1, <1>3 DEF Before
      <4> QED BY <1>1, <1>3, <3>1, <4>1, LargestIs DEF Before
    <3> QED BY <2>1, <2>3, <3>2 DEF Replayed, Before
  <2> QED BY <2>2, <2>3
<1>5. Latest(k) = Replayed(k, n) /\ Latest(k)' = Replayed(k, n + 1)'
  BY <1>1 DEF Latest
<1>6. Before(k, n + 1)' = Before(k, n) \cup (IF Changing(r, k) THEN {n} ELSE {})
  BY <1>1, <1>2, <1>3 DEF Before
<1>7. ASSUME Changing(r, k) PROVE Latest(k)' = r.new
  <2>1. IsLargest(Before(k, n + 1)', n) /\ Before(k, n + 1)' \in SUBSET Nat
    BY <1>1, <1>3, <1>6, <1>7 DEF IsLargest, Before
  <2>2. Max(Before(k, n + 1)') = n
    BY <2>1, LargestIs
  <2>3. Before(k, n + 1)' # {}
    BY <2>1 DEF IsLargest
  <2> QED BY <1>1, <1>5, <2>2, <2>3 DEF Replayed, Before
<1>8. ASSUME ~ Changing(r, k) PROVE Latest(k)' = Latest(k)
  <2>1. Before(k, n + 1)' = Before(k, n)' /\ n \in 1 .. n
    BY <1>1, <1>2, <1>3, <1>6, <1>8 DEF Before
  <2>2. Replayed(k, n + 1)' = Replayed(k, n)'
    BY <2>1 DEF Replayed, Before
  <2> QED BY <1>4, <1>5, <2>1, <2>2
<1> QED BY <1>0, <1>4, <1>7, <1>8

LEMMA AppendedReplays ==
  ASSUME TypeOK, LogOK, NEW r \in Record, log' = Append(log, r), lsn' = lsn + 1, NEW k
  PROVE  /\ \A i \in 1 .. Len(log) + 1 : Replayed(k, i)' = Replayed(k, i)
         /\ Now(k)' = IF Changing(r, k) THEN r.new ELSE Now(k)
<1>1. Len(log') = Len(log) + 1
  BY Appended
<1>2. Now(k) = Latest(k) /\ Now(k)' = Latest(k)'
  BY <1>1 DEF Now, Latest, LogOK
<1> QED BY <1>2, AppendedLatest

\* A record that does not change a key.
LEMMA Unchanging ==
  ASSUME TypeOK, LogOK, NEW r \in Record, log' = Append(log, r), lsn' = lsn + 1, NEW k,
         ~Changing(r, k)
  PROVE  Now(k)' = Now(k) /\ Changes(k)' = Changes(k)
<1>1. Changes(k)' = Changes(k) \cup (IF Changing(r, k) THEN {Len(log) + 1} ELSE {})
  BY AppendedChanges
<1>2. Now(k)' = IF Changing(r, k) THEN r.new ELSE Now(k)
  BY AppendedReplays
<1> QED BY <1>1, <1>2

(***************************************************************************)
(* Committed values.                                                       *)
(***************************************************************************)

\* A logged value survives the way to the hash table and back.
LEMMA ThereAndBack == \A x \in LogValue : ToLog(FromLog(x)) = x
BY LogConstants DEF ToLog, FromLog, LogValue

\* The committed value of a key is that of the last committed update.
LEMMA CommittedIs ==
  ASSUME NEW l \in Seq(Record), NEW k \in Key
  PROVE  LET wins == UpdatesOf(l, Winners(l), k) IN
         /\ wins = {} => Committed(l)[k] = None
         /\ \A m : IsLargest(wins, m) => Committed(l)[k] = FromLog(l[m].new)
         /\ wins # {} => \E m \in wins : IsLargest(wins, m)
<1> DEFINE wins == UpdatesOf(l, Winners(l), k)
<1>1. Len(l) \in Nat /\ DOMAIN l = 1 .. Len(l)
  BY LenProperties
<1>2. wins \in SUBSET (0 .. Len(l))
  BY <1>1 DEF UpdatesOf
<1>3. Committed(l)[k] = IF wins = {} THEN None ELSE FromLog(l[Max(wins)].new)
  BY DEF Committed
<1> HIDE DEF wins
<1>4. ASSUME NEW m, IsLargest(wins, m) PROVE Committed(l)[k] = FromLog(l[m].new)
  <2>1. wins \in SUBSET Nat /\ wins # {}
    BY <1>1, <1>2, <1>4 DEF IsLargest
  <2>2. Max(wins) = m
    BY <1>4, <2>1, LargestIs
  <2> QED BY <1>3, <2>1, <2>2
<1>5. wins # {} => \E m \in wins : IsLargest(wins, m)
  BY <1>1, <1>2, LargestExists
<1> QED BY <1>3, <1>4, <1>5 DEF wins

LEMMA WinnersGrow ==
  ASSUME TypeOK, NEW r \in Record, log' = Append(log, r)
  PROVE  Winners(log') = Winners(log) \cup (IF r.type = "COMMIT" THEN {r.tx} ELSE {})
<1>1. PICK n \in Nat : n = Len(log) + 1
  BY LogIsSeq
<1>2. /\ DOMAIN log' = 1 .. n /\ DOMAIN log = 1 .. n - 1 /\ n - 1 \in Nat
      /\ \A i \in 1 .. n - 1 : log'[i] = log[i]
      /\ log'[n] = r
  BY <1>1, Appended, LogIsSeq
<1>3. ASSUME NEW x
      PROVE  x \in Winners(log') <=> x \in Winners(log) \/ (r.type = "COMMIT" /\ x = r.tx)
  <2>1. x \in Winners(log') <=> \E i \in 1 .. n : log'[i].type = "COMMIT" /\ log'[i].tx = x
    BY <1>2 DEF Winners
  <2>2. x \in Winners(log) <=> \E i \in 1 .. n - 1 : log[i].type = "COMMIT" /\ log[i].tx = x
    BY <1>2 DEF Winners
  <2>3. \A i : i \in 1 .. n <=> i \in 1 .. n - 1 \/ i = n
    BY <1>2
  <2> QED BY <1>2, <2>1, <2>2, <2>3
<1> QED BY <1>3

\* A record that commits no update of a key leaves its committed value.
LEMMA CommittedKept ==
  ASSUME TypeOK, NEW r \in Record, log' = Append(log, r), NEW k \in Key,
         r.type = "COMMIT" => UpdatesOf(log, {r.tx}, k) = {},
         r.type = "UPDATE" => r.tx \notin Winners(log)
  PROVE  Committed(log')[k] = Committed(log)[k]
<1> DEFINE wins == UpdatesOf(log, Winners(log), k)
<1>1. PICK n \in Nat : n = Len(log) + 1
  BY LogIsSeq
<1>2. /\ DOMAIN log' = 1 .. n /\ DOMAIN log = 1 .. n - 1 /\ n - 1 \in Nat
      /\ \A i \in 1 .. n - 1 : log'[i] = log[i]
      /\ log'[n] = r
  BY <1>1, Appended, LogIsSeq
<1>3. log \in Seq(Record) /\ log' \in Seq(Record)
  BY AppendKeeps DEF TypeOK
<1>4. UpdatesOf(log', Winners(log'), k) = wins
  <2>1. ASSUME NEW i PROVE i \in UpdatesOf(log', Winners(log'), k) <=> i \in wins
    <3>1. CASE i \in 1 .. n - 1
      <4>1. i \in UpdatesOf(log', Winners(log'), k) <=>
              log[i].type = "UPDATE" /\ log[i].key = k /\ log[i].tx \in Winners(log')
        BY <1>2, <3>1 DEF UpdatesOf
      <4>2. i \in wins <=>
              log[i].type = "UPDATE" /\ log[i].key = k /\ log[i].tx \in Winners(log)
        BY <1>2, <3>1 DEF UpdatesOf
      <4>3. ASSUME r.type = "COMMIT", log[i].type = "UPDATE", log[i].key = k PROVE log[i].tx # r.tx
        <5>1. i \notin UpdatesOf(log, {r.tx}, k)
          BY <4>3
        <5> QED BY <1>2, <3>1, <4>3, <5>1 DEF UpdatesOf
      <4> QED BY <4>1, <4>2, <4>3, WinnersGrow
    <3>2. CASE i = n
      <4>1. i \notin wins
        BY <1>2, <3>2 DEF UpdatesOf
      <4>2. i \in UpdatesOf(log', Winners(log'), k) => r.type = "UPDATE" /\ r.tx \in Winners(log')
        BY <1>2, <3>2 DEF UpdatesOf
      <4> QED BY <4>1, <4>2, WinnersGrow
    <3>3. CASE i \notin 1 .. n
      BY <1>2, <3>3 DEF UpdatesOf
    <3> QED BY <3>1, <3>2, <3>3
  <2> QED BY <2>1
<1>5. CASE wins = {}
  BY <1>3, <1>4, <1>5, CommittedIs
<1>6. CASE wins # {}
  <2>1. PICK m \in wins : IsLargest(wins, m)
    BY <1>3, <1>6, CommittedIs
  <2>2. log'[m] = log[m]
    BY <1>2 DEF UpdatesOf
  <2> HIDE DEF wins
  <2>3. Committed(log')[k] = FromLog(log'[m].new) /\ Committed(log)[k] = FromLog(log[m].new)
    BY <1>3, <1>4, <2>1, CommittedIs DEF wins
  <2> QED BY <2>2, <2>3
<1> QED BY <1>5, <1>6

(***************************************************************************)
(* Whose locks: the clients that change a key or may roll a change back.   *)
(***************************************************************************)
LEMMA UndoingIs ==
  ASSUME TxnInv, NEW c \in Client, Undoes(c)
  PROVE  /\ cursor[c] \in DOMAIN log /\ cursor[c] \in 1 .. Len(log)
         /\ HasLog(log, cursor[c]) /\ Undoing(c) = log[cursor[c]] /\ log[cursor[c]] \in Record
         /\ log[cursor[c]].tx = txid[c] /\ txid[c] # 0
         /\ pc[c] # "rollback" => log[cursor[c]].type = "UPDATE"
         /\ log[cursor[c]].type = "UPDATE" =>
              log[cursor[c]].key \in Key /\ cursor[c] \in Own(c, log[cursor[c]].key)
<1>1. TypeOK /\ LogOK /\ ThreadOK /\ CursorOwn(c)
  BY DEF TxnInv, LockInv, ClientOK
<1>2. /\ cursor[c] \in 1 .. Len(log) /\ log[cursor[c]].tx = txid[c] /\ txid[c] # 0
      /\ pc[c] # "rollback" => log[cursor[c]].type = "UPDATE"
  BY <1>1 DEF Undoes, CursorOwn, ThreadOK
<1>3. cursor[c] \in DOMAIN log /\ log[cursor[c]] \in Record
  BY <1>1, <1>2, LogIsSeq
<1>4. HasLog(log, cursor[c]) /\ Undoing(c) = log[cursor[c]]
  BY <1>1, <1>2, GetLogAt DEF Undoing
<1>5. log[cursor[c]].type = "UPDATE" => log[cursor[c]].key \in Key
  BY <1>1, <1>3 DEF LogOK, RecordOK
<1> QED BY <1>2, <1>3, <1>4, <1>5 DEF Own, UpdatesOf

LEMMA OwnsLock ==
  ASSUME TxnInv, NEW d \in Client, NEW k
  PROVE  /\ txid[d] # 0 /\ pc[d] # "unlock" /\ Own(d, k) # {} => owner[StripeOf[k]] = d
         /\ Pending(d, k) => owner[StripeOf[k]] = d
<1>1. WritesOwned(d) /\ ThreadOK
  BY DEF TxnInv, LockInv, ClientOK
<1>2. ASSUME txid[d] # 0, pc[d] # "unlock", Own(d, k) # {} PROVE owner[StripeOf[k]] = d
  <2>1. PICK i \in Own(d, k) : TRUE
    BY <1>2
  <2>2. i \in DOMAIN log /\ log[i].tx = txid[d] /\ log[i].type = "UPDATE" /\ log[i].key = k
    BY DEF Own, UpdatesOf
  <2> QED BY <1>1, <1>2, <2>2 DEF WritesOwned
<1>3. ASSUME Pending(d, k) PROVE owner[StripeOf[k]] = d
  <2>1. CASE pc[d] \in {"set_update", "apply"}
    BY <1>1, <1>3, <2>1 DEF Pending, WritesOwned
  <2>2. CASE pc[d] \in {"set_clr", "undo_apply"}
    <3>1. Undoing(d).key = k
      BY <1>3, <2>2 DEF Pending
    <3>2. Undoes(d) /\ pc[d] \notin {"rollback", "unlock"}
      BY <2>2 DEF Undoes
    <3>3. cursor[d] \in Own(d, k) /\ txid[d] # 0
      BY <3>1, <3>2, UndoingIs
    <3> QED BY <1>2, <3>2, <3>3
  <2> QED BY <1>3, <2>1, <2>2 DEF Pending
<1> QED BY <1>2, <1>3

\* What a step of somebody else leaves of client d's keys.
LEMMA OthersValue ==
  ASSUME TxnInv, NEW d \in Client, ValueOK(d), Frame(d), old'[d] = old[d],
         txid[d] # 0 => Without(log, log', txid[d]),
         \A k \in Key : owner[StripeOf[k]] = d =>
           /\ ht'[k] = ht[k] /\ Now(k)' = Now(k) /\ Changes(k)' = Changes(k)
           /\ Committed(log')[k] = Committed(log)[k]
  PROVE  ValueOK(d)'
<1>1. TypeOK /\ LogOK /\ ThreadOK /\ WritesOwned(d)
  BY DEF TxnInv, LockInv, ClientOK
<1>2. UNCHANGED <<pc[d], cmd[d], txid[d], cursor[d], old[d]>>
  BY DEF Frame
<1> HIDE DEF Frame
<1>3. ASSUME txid[d] # 0
      PROVE  \A i : i \in DOMAIN log' /\ log'[i].tx = txid[d] <=> i \in DOMAIN log /\ log[i].tx = txid[d]
  BY <1>3 DEF Without
<1>4. ASSUME txid[d] # 0, NEW i \in DOMAIN log PROVE i \in DOMAIN log' /\ log'[i] = log[i]
  BY <1>4 DEF Without
<1>5. ASSUME txid[d] # 0, NEW k PROVE Own(d, k)' = Own(d, k)
  BY <1>2, <1>3, <1>4, <1>5 DEF Own, UpdatesOf
<1>6. CommandHolds(d)'
  <2> SUFFICES ASSUME NEW k \in Key, cmd[d].key = k,
                      pc[d] \in {"reply", "log", "set_update", "apply"}
               PROVE  ht'[k] = ht[k] /\ Now(k)' = Now(k)
    BY <1>2 DEF CommandHolds, ValueOK
  <2> QED BY <1>1 DEF WritesOwned
<1>7. KeepsOut(d)'
  <2> SUFFICES ASSUME txid[d] # 0, pc[d] # "unlock", NEW k \in Key,
                      NEW i \in Own(d, k), NEW j \in Changes(k), i < j
               PROVE  log'[j].tx = txid[d]
    <3>1. \A k \in Key : txid[d] # 0 /\ pc[d] # "unlock" /\ Own(d, k) # {} => Changes(k)' = Changes(k)
      BY OwnsLock
    <3> QED BY <1>2, <1>5, <3>1 DEF KeepsOut
  <2>1. log[j].tx = txid[d]
    BY DEF KeepsOut, ValueOK
  <2> QED BY <1>4, <2>1 DEF Changes
<1>8. LogsInOrder(d)'
  <2> SUFFICES ASSUME txid[d] # 0, NEW i \in DOMAIN log', log'[i].tx = txid[d]
               PROVE  /\ log'[i].type = "CLR" => Undoes(d) \/ pc[d] \in {"set_end", "unlock"}
                      /\ log'[i].type = "COMMIT" => ~Dirty(d) /\ pc[d] # "set_end"
    BY <1>2 DEF LogsInOrder, Undoes, Dirty
  <2> QED BY <1>3, <1>4 DEF LogsInOrder, ValueOK
<1>9. ASSUME txid[d] # 0, pc[d] # "unlock", NEW k \in Key, Undone(d, k)
      PROVE  Undone(d, k)'
  <2>1. Own(d, k)' = Own(d, k)
    BY <1>5, <1>9
  <2>2. ASSUME NEW u \in Own(d, k) PROVE log'[u] = log[u] /\ Now(k)' = Now(k)
    <3>1. owner[StripeOf[k]] = d
      BY <1>9, OwnsLock
    <3> QED BY <1>4, <1>9, <3>1 DEF Own, UpdatesOf
  <2> QED BY <1>2, <1>9, <2>1, <2>2 DEF Undone
<1>10. RollbackHolds(d)'
  <2> SUFFICES ASSUME Undoes(d), NEW k \in Key PROVE RollbackOf(d, k)'
    BY <1>2 DEF RollbackHolds, Undoes
  <2>1. /\ cursor[d] \in DOMAIN log /\ txid[d] # 0 /\ pc[d] # "unlock"
        /\ pc[d] # "rollback" /\ log[cursor[d]].key = k => Own(d, k) # {}
    BY UndoingIs DEF Undoes
  <2>2. log'[cursor[d]] = log[cursor[d]]
    BY <1>4, <2>1
  <2>3. Undone(d, k) => Undone(d, k)'
    BY <1>9, <2>1
  <2>4. pc[d] # "rollback" /\ log[cursor[d]].key = k => Now(k)' = Now(k) /\ ht'[k] = ht[k]
    BY <2>1, OwnsLock
  <2>5. RollbackOf(d, k)
    BY DEF ValueOK, RollbackHolds
  <2> QED BY <1>2, <2>2, <2>3, <2>4, <2>5 DEF RollbackOf
<1>11. BeganCommitted(d)'
  <2> SUFFICES ASSUME Dirty(d), NEW k \in Key, NEW u \in Own(d, k), IsSmallest(Own(d, k), u)
               PROVE  log'[u].old = ToLog(Committed(log')[k])
    BY <1>2, <1>5 DEF BeganCommitted, Dirty
  <2>1. log[u].old = ToLog(Committed(log)[k])
    BY DEF BeganCommitted, ValueOK
  <2>2. owner[StripeOf[k]] = d
    BY OwnsLock DEF Dirty
  <2> QED BY <1>4, <2>1, <2>2 DEF Own, UpdatesOf, Dirty
<1> QED BY <1>6, <1>7, <1>8, <1>10, <1>11 DEF ValueOK

(***************************************************************************)
(* A client's logging steps.                                               *)
(***************************************************************************)

\* Where client c is when it appends record r, and where it goes.
Appends(c, r) ==
  \/ pc[c] = "begin_log" /\ pc'[c] = "set_begin" /\ r.type = "BEGIN" /\ r.prev = 0
  \/ /\ pc[c] = "log" /\ pc'[c] = "set_update" /\ r.type = "UPDATE"
     /\ r.key = cmd[c].key /\ r.old = ToLog(old[c]) /\ r.new = ToLog(cmd[c].val)
  \/ pc[c] \in {"commit_log", "ready"} /\ pc'[c] = "set_commit" /\ r.type = "COMMIT"
  \/ pc[c] = "ready" /\ pc'[c] = "set_abort" /\ r.type = "ABORT"
  \/ /\ pc[c] = "rollback" /\ pc'[c] = "set_clr" /\ r.type = "CLR"
     /\ log[cursor[c]].type = "UPDATE" /\ cursor'[c] = cursor[c]
     /\ r.key = log[cursor[c]].key /\ r.undo_next = log[cursor[c]].prev
     /\ r.old = log[cursor[c]].new /\ r.new = log[cursor[c]].old
  \/ /\ pc[c] = "rollback" /\ pc'[c] = "set_end" /\ r.type = "END"
     /\ log[cursor[c]].type = "BEGIN"

LogStep(c, r) ==
  /\ r \in Record /\ log' = Append(log, r) /\ lsn' = lsn + 1
  /\ r.lsn = lsn + 1 /\ r.tx = txid[c] /\ r.prev = last_lsn[c] /\ txid[c] # 0
  /\ Appends(c, r) /\ pc'[c] \in Setting /\ new_lsn'[c] = lsn + 1
  /\ UNCHANGED <<transaction_id, tx_list, ht, lockVars, ckpt, cmd, txid, last_lsn, old>>

LEMMA LoggingIs ==
  ASSUME TxnInv, NEW c \in Client, Logging(c)
  PROVE  \E r \in Record : LogStep(c, r)
<1>0. /\ lsn + 1 \in Nat /\ last_lsn[c] \in Nat /\ txid[c] \in Nat
      /\ pc \in [Client -> PC] /\ new_lsn \in [Client -> Nat]
      /\ ThreadOK /\ TypeOK /\ LastKnown(c)
  BY DEF TxnInv, LockInv, TypeOK, ClientOK
<1>1. ASSUME NEW type \in LogType
      PROVE  /\ TxRecord(lsn + 1, last_lsn[c], txid[c], type) \in Record
             /\ TxRecord(lsn + 1, last_lsn[c], txid[c], type).lsn = lsn + 1
             /\ TxRecord(lsn + 1, last_lsn[c], txid[c], type).prev = last_lsn[c]
             /\ TxRecord(lsn + 1, last_lsn[c], txid[c], type).tx = txid[c]
             /\ TxRecord(lsn + 1, last_lsn[c], txid[c], type).type = type
  <2>1. TxRecord(lsn + 1, last_lsn[c], txid[c], type) \in Record
    BY <1>0, TxRecordType
  <2> QED BY <2>1 DEF TxRecord
<1>2. ASSUME NEW r, NEW label \in Setting, WriteLog(c, r), Goto(c, label)
      PROVE  /\ log' = Append(log, r) /\ lsn' = lsn + 1 /\ new_lsn'[c] = lsn + 1
             /\ pc'[c] = label /\ pc'[c] \in Setting
  BY <1>0, <1>2 DEF WriteLog, Goto
<1>3. CASE BeginLog(c)
  <2> DEFINE r == TxRecord(lsn + 1, last_lsn[c], txid[c], "BEGIN")
  <2>1. r \in Record /\ r.lsn = lsn + 1 /\ r.prev = last_lsn[c] /\ r.tx = txid[c] /\ r.type = "BEGIN"
    BY <1>1 DEF LogType
  <2> HIDE DEF r
  <2>2. /\ WriteLog(c, r) /\ Goto(c, "set_begin") /\ pc[c] = "begin_log"
        /\ UNCHANGED <<transaction_id, tx_list, ht, lockVars, ckpt, cmd, txid, last_lsn, old>>
    BY <1>3 DEF BeginLog, At, r
  <2>3. txid[c] # 0 /\ last_lsn[c] = 0
    BY <1>0, <2>2 DEF ThreadOK, LastKnown, Setting
  <2>4. LogStep(c, r)
    BY <1>2, <2>1, <2>2, <2>3 DEF LogStep, Appends, Setting
  <2> QED BY <2>1, <2>4
<1>4. CASE UpdateLog(c)
  <2> DEFINE r == DataRecord(lsn + 1, last_lsn[c], txid[c], "UPDATE", 0, cmd[c].key,
                             ToLog(old[c]), ToLog(cmd[c].val))
  <2>1. /\ r.lsn = lsn + 1 /\ r.prev = last_lsn[c] /\ r.tx = txid[c] /\ r.type = "UPDATE"
        /\ r.key = cmd[c].key /\ r.old = ToLog(old[c]) /\ r.new = ToLog(cmd[c].val)
    BY DEF DataRecord
  <2>2. r \in Record
    <3>1. old[c] \in HtValue /\ cmd[c].val \in HtValue /\ cmd[c].key \in Key \cup {NoKey}
      BY <1>0 DEF TypeOK, Cmd
    <3>2. "UPDATE" \in LogType /\ 0 \in Nat
      BY DEF LogType
    <3> QED BY <1>0, <3>1, <3>2, LogValues, DataRecordType
  <2>3. /\ WriteLog(c, r) /\ Goto(c, "set_update") /\ pc[c] = "log"
        /\ UNCHANGED <<transaction_id, tx_list, ht, lockVars, ckpt, cmd, txid, last_lsn, old>>
    BY <1>4 DEF UpdateLog, At
  <2> HIDE DEF r
  <2>4. txid[c] # 0
    BY <1>0, <2>3 DEF ThreadOK
  <2>5. LogStep(c, r)
    BY <1>2, <2>1, <2>2, <2>3, <2>4 DEF LogStep, Appends, Setting
  <2> QED BY <2>2, <2>5
<1>5. CASE CommitLog(c)
  <2> DEFINE r == TxRecord(lsn + 1, last_lsn[c], txid[c], "COMMIT")
  <2>1. r \in Record /\ r.lsn = lsn + 1 /\ r.prev = last_lsn[c] /\ r.tx = txid[c] /\ r.type = "COMMIT"
    BY <1>1 DEF LogType
  <2> HIDE DEF r
  <2>2. /\ WriteLog(c, r) /\ Goto(c, "set_commit") /\ pc[c] \in {"commit_log", "ready"}
        /\ UNCHANGED <<transaction_id, tx_list, ht, lockVars, ckpt, cmd, txid, last_lsn, old>>
    BY <1>5 DEF CommitLog, At, r
  <2>3. txid[c] # 0
    BY <1>0, <1>5 DEF CommitLog, At, ThreadOK
  <2>4. LogStep(c, r)
    BY <1>2, <2>1, <2>2, <2>3 DEF LogStep, Appends, Setting
  <2> QED BY <2>1, <2>4
<1>6. CASE AbortLog(c)
  <2> DEFINE r == TxRecord(lsn + 1, last_lsn[c], txid[c], "ABORT")
  <2>1. r \in Record /\ r.lsn = lsn + 1 /\ r.prev = last_lsn[c] /\ r.tx = txid[c] /\ r.type = "ABORT"
    BY <1>1 DEF LogType
  <2> HIDE DEF r
  <2>2. /\ WriteLog(c, r) /\ Goto(c, "set_abort") /\ pc[c] = "ready" /\ txid[c] # 0
        /\ UNCHANGED <<transaction_id, tx_list, ht, lockVars, ckpt, cmd, txid, last_lsn, old>>
    BY <1>6 DEF AbortLog, At, r
  <2>3. LogStep(c, r)
    BY <1>2, <2>1, <2>2 DEF LogStep, Appends, Setting
  <2> QED BY <2>1, <2>3
<1>7. CASE ClrLog(c)
  <2>1. Undoes(c) /\ pc[c] = "rollback"
    BY <1>7 DEF ClrLog, At, Undoes
  <2>2. Undoing(c) = log[cursor[c]] /\ Undoing(c) \in Record /\ txid[c] # 0
    BY <2>1, UndoingIs
  <2> DEFINE r == DataRecord(lsn + 1, last_lsn[c], txid[c], "CLR", UndoNext(c),
                             Undoing(c).key, Undoing(c).new, Undoing(c).old)
  <2>3. /\ r.lsn = lsn + 1 /\ r.prev = last_lsn[c] /\ r.tx = txid[c] /\ r.type = "CLR"
        /\ r.key = log[cursor[c]].key /\ r.undo_next = log[cursor[c]].prev
        /\ r.old = log[cursor[c]].new /\ r.new = log[cursor[c]].old
    BY <2>2 DEF DataRecord, UndoNext
  <2>4. r \in Record
    <3>1. /\ Undoing(c).key \in Key \cup {NoKey}
          /\ Undoing(c).new \in LogValue /\ Undoing(c).old \in LogValue
          /\ UndoNext(c) \in Nat
      BY <2>2 DEF Record, UndoNext
    <3>2. "CLR" \in LogType
      BY DEF LogType
    <3> QED BY <1>0, <3>1, <3>2, DataRecordType
  <2>5. /\ WriteLog(c, r) /\ Goto(c, "set_clr") /\ Undoing(c).type = "UPDATE" /\ cursor' = cursor
        /\ UNCHANGED <<transaction_id, tx_list, ht, lockVars, ckpt, cmd, txid, last_lsn, old>>
    BY <1>7 DEF ClrLog
  <2> HIDE DEF r
  <2>6. LogStep(c, r)
    BY <1>2, <2>1, <2>2, <2>3, <2>4, <2>5 DEF LogStep, Appends, Setting
  <2> QED BY <2>4, <2>6
<1>8. CASE EndLog(c)
  <2> DEFINE r == TxRecord(lsn + 1, last_lsn[c], txid[c], "END")
  <2>1. r \in Record /\ r.lsn = lsn + 1 /\ r.prev = last_lsn[c] /\ r.tx = txid[c] /\ r.type = "END"
    BY <1>1 DEF LogType
  <2> HIDE DEF r
  <2>2. /\ WriteLog(c, r) /\ Goto(c, "set_end") /\ pc[c] = "rollback" /\ Undoing(c).type = "BEGIN"
        /\ UNCHANGED <<transaction_id, tx_list, ht, lockVars, ckpt, cmd, txid, last_lsn, old>>
    BY <1>8 DEF EndLog, At, r
  <2>3. txid[c] # 0 /\ Undoing(c) = log[cursor[c]]
    BY <2>2, UndoingIs DEF Undoes
  <2>4. LogStep(c, r)
    BY <1>2, <2>1, <2>2, <2>3 DEF LogStep, Appends, Setting
  <2> QED BY <2>1, <2>4
<1> QED BY <1>3, <1>4, <1>5, <1>6, <1>7, <1>8 DEF Logging

\* As long as a transaction has only logged updates, its last of a key is the
\* key's last change.
LEMMA OwnIsLast ==
  ASSUME ValueInv, NEW c \in Client, txid[c] # 0, ~Undoes(c), pc[c] \notin {"set_end", "unlock"},
         NEW k \in Key, NEW u, IsLargest(Own(c, k), u)
  PROVE  IsLargest(Changes(k), u) /\ Now(k) = log[u].new
<1>1. /\ TypeOK /\ KeepsOut(c) /\ LogsInOrder(c)
      /\ DOMAIN log = 1 .. Len(log) /\ Len(log) \in Nat /\ lsn = Len(log)
  BY LogIsSeq DEF ValueInv, ValueOK, TxnInv, LockInv, LogOK
<1>2. u \in Own(c, k) /\ u \in Changes(k)
  BY DEF IsLargest, Own, UpdatesOf, Changes
<1>3. ASSUME NEW j \in Changes(k), u < j PROVE FALSE
  <2>1. j \in DOMAIN log /\ log[j].type \in {"UPDATE", "CLR"} /\ log[j].key = k
    BY DEF Changes
  <2>2. log[j].tx = txid[c]
    BY <1>1, <1>2, <1>3 DEF KeepsOut
  <2>3. log[j].type = "UPDATE"
    BY <1>1, <2>1, <2>2 DEF LogsInOrder
  <2>4. j \in Own(c, k)
    BY <2>1, <2>2, <2>3 DEF Own, UpdatesOf
  <2> QED BY <1>1, <1>2, <1>3, <2>1, <2>4 DEF IsLargest, Own, UpdatesOf
<1>4. Changes(k) \in SUBSET (1 .. Len(log))
  BY <1>1 DEF Changes
<1>5. IsLargest(Changes(k), u)
  BY <1>1, <1>2, <1>3, <1>4 DEF IsLargest
<1>6. Before(k, lsn + 1) = Changes(k) /\ lsn + 1 \in Nat
  BY <1>1, <1>4 DEF Before
<1>7. Now(k) = log[u].new
  BY <1>1, <1>5, <1>6, ReplayedIs DEF Now
<1> QED BY <1>5, <1>7

\* A change that is logged is of a key whose lock the client owns, carries the
\* value the log had for the key, and that is the hash table's value.
LEMMA ChangeIsSound ==
  ASSUME ValueInv, NEW c \in Client, NEW r \in Record, LogStep(c, r), NEW k \in Key, Changing(r, k)
  PROVE  owner[StripeOf[k]] = c /\ r.old = Now(k) /\ ToLog(ht[k]) = Now(k)
<1>1. TxnInv /\ TypeOK /\ WritesOwned(c) /\ CommandHolds(c) /\ RollbackHolds(c)
  BY DEF ValueInv, ValueOK, TxnInv, LockInv, ClientOK
<1>2. /\ pc[c] \in {"log", "rollback"}
      /\ pc[c] = "log" => cmd[c].key = k /\ r.old = ToLog(old[c])
      /\ pc[c] = "rollback" => /\ log[cursor[c]].type = "UPDATE" /\ log[cursor[c]].key = k
                               /\ r.old = log[cursor[c]].new
  BY DEF LogStep, Appends, Changing
<1>3. owner[StripeOf[k]] = c
  <2>1. CASE pc[c] = "log"
    BY <1>1, <1>2, <2>1 DEF WritesOwned
  <2>2. CASE pc[c] = "rollback"
    <3>1. cursor[c] \in Own(c, k) /\ txid[c] # 0
      BY <1>1, <1>2, <2>2, UndoingIs DEF Undoes
    <3> QED BY <1>1, <2>2, <3>1, OwnsLock
  <2> QED BY <1>2, <2>1, <2>2
<1>4. ToLog(ht[k]) = Now(k)
  <2>1. ASSUME NEW d \in Client, Pending(d, k) PROVE FALSE
    <3>1. d = c
      BY <1>1, <1>3, <2>1, OwnsLock
    <3> QED BY <1>2, <2>1, <3>1 DEF Pending
  <2> QED BY <2>1 DEF ValueInv, WriteAhead, Now
<1>5. r.old = Now(k)
  <2>1. CASE pc[c] = "log"
    BY <1>1, <1>2, <1>4, <2>1 DEF CommandHolds
  <2>2. CASE pc[c] = "rollback"
    <3>1. cursor[c] \in Own(c, k) /\ Own(c, k) \in SUBSET Nat /\ Undone(c, k)
      <4>1. cursor[c] \in Own(c, k)
        BY <1>1, <1>2, <2>2, UndoingIs DEF Undoes
      <4>2. Own(c, k) \in SUBSET Nat
        BY <1>1, LogIsSeq DEF Own, UpdatesOf
      <4>3. Undone(c, k)
        BY <1>1, <2>2 DEF RollbackHolds, RollbackOf, Undoes
      <4> QED BY <4>1, <4>2, <4>3
    <3>2. IsLargest({i \in Own(c, k) : i <= cursor[c]}, cursor[c])
      BY <3>1 DEF IsLargest
    <3> QED BY <1>2, <2>2, <3>1, <3>2 DEF Undone
  <2> QED BY <1>2, <2>1, <2>2
<1> QED BY <1>3, <1>4, <1>5

\* What one record more leaves of the parts that speak of the whole log.
LEMMA LoggedWhole ==
  ASSUME ValueInv, NEW c \in Client, NEW r \in Record, LogStep(c, r)
  PROVE  BeforeImage' /\ Unmixed' /\ BeginsFirst'
<1>0. PICK n \in Nat : n = Len(log) + 1
  BY LogIsSeq DEF ValueInv, TxnInv, LockInv
<1>1. /\ TypeOK /\ LogOK /\ TxnInv /\ LogsInOrder(c) /\ KeepsOut(c)
      /\ log' = Append(log, r) /\ lsn' = lsn + 1
  BY DEF ValueInv, ValueOK, TxnInv, LockInv, LogStep
<1>2. /\ DOMAIN log' = 1 .. n /\ DOMAIN log = 1 .. n - 1 /\ n - 1 \in Nat
      /\ \A i \in 1 .. n - 1 : log'[i] = log[i]
      /\ log'[n] = r /\ lsn + 1 = n
  BY <1>0, <1>1, Appended, LogIsSeq DEF LogOK
<1>3. ASSUME NEW k, NEW i \in 1 .. n PROVE Replayed(k, i)' = Replayed(k, i)
  BY <1>0, <1>1, <1>3, AppendedReplays
<1>4. BeforeImage'
  <2> SUFFICES ASSUME NEW k \in Key, NEW i \in Changes(k)' PROVE log'[i].old = Replayed(k, i)'
    BY DEF BeforeImage
  <2>1. i \in 1 .. n /\ log'[i].type \in {"UPDATE", "CLR"} /\ log'[i].key = k
    BY <1>2 DEF Changes
  <2>2. CASE i = n
    <3>1. Changing(r, k) /\ n \in 1 .. n
      BY <1>2, <2>1, <2>2 DEF Changing
    <3>2. r.old = Now(k)
      BY <3>1, ChangeIsSound
    <3>3. Now(k) = Replayed(k, n)
      BY <1>2 DEF Now
    <3> QED BY <1>2, <1>3, <2>2, <3>1, <3>2, <3>3
  <2>3. CASE i # n
    <3>1. i \in Changes(k) /\ log'[i] = log[i]
      BY <1>2, <2>1, <2>3 DEF Changes
    <3>2. log[i].old = Replayed(k, i)
      BY <3>1 DEF ValueInv, BeforeImage
    <3> QED BY <1>3, <2>1, <3>1, <3>2
  <2> QED BY <2>2, <2>3
<1>5. Unmixed'
  <2> SUFFICES ASSUME NEW i \in 1 .. n, NEW j \in 1 .. n, i < j,
                      log'[i].type = "UPDATE", log'[j].type = "UPDATE",
                      log'[i].tx = log'[j].tx, log'[i].key = log'[j].key,
                      NEW m \in 1 .. n, i < m, m < j,
                      log'[m].type \in {"UPDATE", "CLR"}, log'[m].key = log'[i].key
               PROVE  log'[m].type = "UPDATE" /\ log'[m].tx = log'[i].tx
    BY <1>2 DEF Unmixed, Changes
  <2>1. /\ i \in 1 .. n - 1 /\ m \in 1 .. n - 1 /\ log'[i] = log[i] /\ log'[m] = log[m]
        /\ m \in Changes(log[i].key) /\ log[i].key \in Key
    <3>1. i \in 1 .. n - 1 /\ m \in 1 .. n - 1
      OBVIOUS
    <3>2. log'[i] = log[i] /\ log'[m] = log[m]
      BY <1>2, <3>1
    <3>3. log[i].key \in Key
      BY <1>1, <1>2, <3>1, <3>2 DEF LogOK, RecordOK
    <3> QED BY <1>2, <3>1, <3>2, <3>3 DEF Changes
  <2>2. CASE j # n
    <3>1. j \in 1 .. n - 1 /\ log'[j] = log[j]
      BY <1>2, <2>2
    <3> QED BY <1>2, <2>1, <3>1 DEF ValueInv, Unmixed
  <2>3. CASE j = n
    <3>1. r.type = "UPDATE" /\ r.tx = txid[c] /\ txid[c] # 0 /\ pc[c] = "log"
      BY <1>2, <2>3 DEF LogStep, Appends
    <3>2. i \in Own(c, log[i].key)
      BY <1>2, <2>1, <2>3, <3>1 DEF Own, UpdatesOf
    <3>3. log[m].tx = txid[c]
      BY <1>1, <2>1, <3>1, <3>2 DEF KeepsOut
    <3>4. log[m].type # "CLR"
      BY <1>1, <1>2, <2>1, <3>1, <3>3 DEF LogsInOrder, Undoes
    <3> QED BY <1>2, <2>1, <2>3, <3>1, <3>3, <3>4
  <2> QED BY <2>2, <2>3
<1>6. BeginsFirst'
  <2>1. r.type = "BEGIN" => r.prev = 0
    BY DEF LogStep, Appends
  <2> QED BY <1>2, <2>1 DEF ValueInv, BeginsFirst
<1> QED BY <1>4, <1>5, <1>6

\* The record the rollback of a client has reached after a step.
LEMMA UndoingNext ==
  ASSUME TxnInv', NEW c \in Client, pc'[c] \in {"rollback", "set_clr", "undo_apply"}
  PROVE  cursor'[c] \in DOMAIN log' /\ Undoing(c)' = log'[cursor'[c]]
<1>1. /\ log' \in Seq(Record) /\ \A i \in DOMAIN log' : log'[i].lsn = i
      /\ cursor'[c] \in 1 .. Len(log')
  BY DEF TxnInv, LockInv, TypeOK, LogOK, RecordOK, ClientOK, CursorOwn
<1>2. cursor'[c] \in DOMAIN log' /\ DOMAIN log' = 1 .. Len(log') /\ Len(log') \in Nat
  BY <1>1, LenProperties
<1>3. ASSUME NEW l \in Seq(Record), \A i \in DOMAIN l : l[i].lsn = i, NEW n \in DOMAIN l
      PROVE  GetLog(l, n) = l[n]
  <2> DEFINE First(i) == l[i].lsn = n /\ \A j \in 1 .. i - 1 : l[j].lsn # n
  <2>1. DOMAIN l = 1 .. Len(l) /\ Len(l) \in Nat
    BY LenProperties
  <2>2. \A i \in DOMAIN l : First(i) <=> i = n
    BY <1>3, <2>1
  <2>3. (CHOOSE i \in DOMAIN l : First(i)) = n
    <3> HIDE DEF First
    <3> QED BY <2>2
  <2>4. GetLog(l, n) = l[CHOOSE i \in DOMAIN l : First(i)]
    BY DEF GetLog
  <2> QED BY <2>3, <2>4
<1>4. Undoing(c)' = GetLog(log', cursor'[c])
  BY DEF Undoing
<1> QED BY <1>1, <1>2, <1>3, <1>4

\* A change still to be made is still to be made after somebody else's step.
LEMMA PendingKept ==
  ASSUME TxnInv, TxnInv', NEW d \in Client, Frame(d),
         log' = log \/ \E r \in Record : log' = Append(log, r),
         NEW k, Pending(d, k)
  PROVE  Pending(d, k)'
<1>1. UNCHANGED <<pc[d], cmd[d], cursor[d]>>
  BY DEF Frame
<1> HIDE DEF Frame
<1>2. CASE pc[d] \in {"set_update", "apply"}
  BY <1>1, <1>2 DEF Pending
<1>3. CASE pc[d] \in {"set_clr", "undo_apply"}
  <2>1. Undoing(d) = log[cursor[d]] /\ cursor[d] \in 1 .. Len(log)
    BY <1>3, UndoingIs DEF Undoes
  <2>2. Undoing(d)' = log'[cursor'[d]]
    BY <1>1, <1>3, UndoingNext
  <2>3. log'[cursor[d]] = log[cursor[d]]
    BY <2>1, Appended DEF TxnInv, LockInv
  <2> QED BY <1>1, <1>3, <2>1, <2>2, <2>3 DEF Pending
<1> QED BY <1>2, <1>3 DEF Pending

LEMMA LoggedAhead ==
  ASSUME ValueInv, TxnInv', NEW c \in Client, NEW r \in Record, LogStep(c, r),
         \A d \in Client : d # c => Frame(d)
  PROVE  WriteAhead'
<1> SUFFICES ASSUME NEW k \in Key, ToLog(ht'[k]) # Now(k)' PROVE \E d \in Client : Pending(d, k)'
  BY DEF WriteAhead, Now
<1>1. /\ TypeOK /\ LogOK /\ TxnInv /\ log' = Append(log, r) /\ lsn' = lsn + 1 /\ ht' = ht
  BY DEF ValueInv, TxnInv, LockInv, LogStep
<1>2. CASE Changing(r, k)
  <2>1. CASE pc[c] = "log"
    <3>1. pc'[c] = "set_update" /\ cmd'[c].key = k
      BY <1>2, <2>1 DEF LogStep, Appends, Changing
    <3> QED BY <3>1 DEF Pending
  <2>2. CASE pc[c] = "rollback"
    <3>1. pc'[c] = "set_clr" /\ log[cursor[c]].key = k /\ cursor'[c] = cursor[c]
      BY <1>2, <2>2 DEF LogStep, Appends, Changing
    <3>2. cursor[c] \in 1 .. Len(log)
      BY <1>1, <2>2, UndoingIs DEF Undoes
    <3>3. Undoing(c)' = log[cursor[c]]
      BY <1>1, <3>1, <3>2, UndoingNext, Appended
    <3> QED BY <3>1, <3>3 DEF Pending
  <2> QED BY <1>2, <2>1, <2>2 DEF LogStep, Appends, Changing
<1>3. CASE ~Changing(r, k)
  <2>1. Now(k)' = Now(k)
    BY <1>1, <1>3, AppendedReplays
  <2>2. PICK d \in Client : Pending(d, k)
    BY <1>1, <2>1 DEF ValueInv, WriteAhead, Now
  <2>3. d # c
    BY <2>2 DEF Pending, LogStep, Appends
  <2> QED BY <1>1, <2>2, <2>3, PendingKept
<1> QED BY <1>2, <1>3

LEMMA LoggedOwn ==
  ASSUME ValueInv, NEW c \in Client, NEW r \in Record, LogStep(c, r)
  PROVE  ValueOK(c)'
<1>0. PICK n \in Nat : n = Len(log) + 1
  BY LogIsSeq DEF ValueInv, TxnInv, LockInv
<1>1. /\ TypeOK /\ LogOK /\ TxnInv /\ ValueOK(c)
      /\ log' = Append(log, r) /\ lsn' = lsn + 1 /\ ht' = ht
      /\ cmd'[c] = cmd[c] /\ txid'[c] = txid[c] /\ old'[c] = old[c] /\ r.tx = txid[c] /\ txid[c] # 0
  BY DEF ValueInv, TxnInv, LockInv, LogStep
<1>2. /\ DOMAIN log' = 1 .. n /\ DOMAIN log = 1 .. n - 1 /\ n - 1 \in Nat
      /\ \A i \in 1 .. n - 1 : log'[i] = log[i]
      /\ log'[n] = r /\ lsn + 1 = n
  BY <1>0, <1>1, Appended, LogIsSeq DEF LogOK
<1>3. ASSUME NEW k
      PROVE  /\ Changes(k)' = Changes(k) \cup (IF Changing(r, k) THEN {n} ELSE {})
             /\ Own(c, k)' = Own(c, k) \cup (IF r.type = "UPDATE" /\ r.key = k THEN {n} ELSE {})
             /\ Changes(k) \in SUBSET (1 .. n - 1) /\ Own(c, k) \in SUBSET (1 .. n - 1)
             /\ Now(k)' = IF Changing(r, k) THEN r.new ELSE Now(k)
  <2>1. Changes(k) \in SUBSET (1 .. n - 1) /\ Own(c, k) \in SUBSET (1 .. n - 1)
    BY <1>2 DEF Changes, Own, UpdatesOf
  <2>2. Own(c, k)' = UpdatesOf(log', {txid[c]}, k)
    BY <1>1 DEF Own
  <2>3. Own(c, k)' = Own(c, k) \cup (IF r.type = "UPDATE" /\ r.key = k THEN {n} ELSE {})
    <3>1. PICK tx : tx = txid[c]
      OBVIOUS
    <3>2. UpdatesOf(log', {tx}, k) = UpdatesOf(log, {tx}, k) \cup
            (IF r.type = "UPDATE" /\ r.key = k /\ r.tx = tx THEN {Len(log) + 1} ELSE {})
      BY ZenonT(60), <1>1, AppendedChanges
    <3> QED BY <1>0, <1>1, <2>2, <3>1, <3>2 DEF Own
  <2> QED BY <1>0, <1>1, <2>1, <2>3, AppendedChanges, AppendedReplays
<1>4. CommandHolds(c)'
  <2> SUFFICES ASSUME NEW k \in Key, cmd[c].key = k, pc'[c] = "set_update"
               PROVE  old[c] = ht[k] /\ Now(k)' = ToLog(cmd[c].val)
    BY <1>1 DEF CommandHolds, LogStep, Setting
  <2>1. pc[c] = "log" /\ r.type = "UPDATE" /\ r.key = k /\ r.new = ToLog(cmd[c].val)
    BY DEF LogStep, Appends
  <2> QED BY <1>1, <1>3, <2>1 DEF ValueOK, CommandHolds, Changing
<1>5. KeepsOut(c)'
  <2> SUFFICES ASSUME NEW k \in Key, NEW i \in Own(c, k)', NEW j \in Changes(k)', i < j
               PROVE  log'[j].tx = txid[c]
    BY <1>1 DEF KeepsOut
  <2>1. CASE j = n
    BY <1>1, <1>2, <2>1
  <2>2. CASE j # n
    <3>1. j \in Changes(k) /\ j \in 1 .. n - 1
      BY <1>3, <2>2
    <3>2. i \in Own(c, k)
      BY <1>3, <3>1
    <3>3. log[j].tx = txid[c]
      BY <1>1, <3>1, <3>2 DEF ValueOK, KeepsOut, LogStep, Appends
    <3> QED BY <1>2, <3>1, <3>3
  <2> QED BY <2>1, <2>2
<1>6. LogsInOrder(c)'
  <2> SUFFICES ASSUME NEW i \in 1 .. n, log'[i].tx = txid[c]
               PROVE  /\ log'[i].type = "CLR" => pc'[c] \in {"set_clr", "set_end"}
                      /\ log'[i].type = "COMMIT" => pc'[c] = "set_commit"
    BY <1>1, <1>2 DEF LogsInOrder, Undoes, Dirty
  <2>1. CASE i = n
    BY <1>2, <2>1 DEF LogStep, Appends
  <2>2. CASE i # n
    <3>1. i \in DOMAIN log /\ log'[i] = log[i]
      BY <1>2, <2>2
    <3>2. /\ log[i].type = "CLR" => Undoes(c) \/ pc[c] \in {"set_end", "unlock"}
          /\ log[i].type = "COMMIT" => ~Dirty(c) /\ pc[c] # "set_end"
      BY <1>1, <3>1 DEF ValueOK, LogsInOrder
    <3> QED BY <1>1, <3>1, <3>2 DEF LogStep, Appends, Undoes, Dirty
  <2> QED BY <2>1, <2>2
<1>7. RollbackHolds(c)'
  <2> SUFFICES ASSUME pc'[c] = "set_clr", NEW k \in Key PROVE RollbackOf(c, k)'
    BY DEF RollbackHolds, Undoes, LogStep, Appends
  <2>1. /\ pc[c] = "rollback" /\ r.type = "CLR" /\ cursor'[c] = cursor[c]
        /\ r.key = log[cursor[c]].key /\ r.old = log[cursor[c]].new /\ r.new = log[cursor[c]].old
    BY DEF LogStep, Appends
  <2>2. log'[cursor[c]] = log[cursor[c]] /\ Undone(c, k)
    BY <1>1, <1>2, <2>1, UndoingIs DEF Undoes, ValueOK, RollbackHolds, RollbackOf
  <2>3. CASE r.key = k
    <3>1. Changing(r, k)
      BY <2>1, <2>3 DEF Changing
    <3>2. Now(k)' = log[cursor[c]].old
      BY <1>3, <2>1, <3>1
    <3>3. ToLog(ht[k]) = log[cursor[c]].new
      BY <2>1, <3>1, ChangeIsSound
    <3> QED BY <1>1, <2>1, <2>2, <2>3, <3>2, <3>3 DEF RollbackOf
  <2>4. CASE r.key # k
    <3>1. Now(k)' = Now(k) /\ Own(c, k)' = Own(c, k)
      BY <1>3, <2>1, <2>4 DEF Changing
    <3>2. \A u \in Own(c, k) : log'[u] = log[u]
      BY <1>2, <1>3
    <3>3. Undone(c, k)'
      BY <2>1, <2>2, <3>1, <3>2 DEF Undone
    <3> QED BY <2>1, <2>2, <2>4, <3>3 DEF RollbackOf
  <2> QED BY <2>3, <2>4
<1>8. BeganCommitted(c)'
  <2> SUFFICES ASSUME Dirty(c)', NEW k \in Key, NEW u \in Own(c, k)', IsSmallest(Own(c, k)', u)
               PROVE  log'[u].old = ToLog(Committed(log')[k])
    BY DEF BeganCommitted
  <2>1. Dirty(c) /\ pc[c] # "unlock" /\ r.type # "COMMIT"
    BY <1>1 DEF Dirty, LogStep, Appends
  <2>2. Committed(log')[k] = Committed(log)[k]
    <3>1. txid[c] \notin Winners(log)
      BY <1>1, <2>1 DEF Winners, ValueOK, LogsInOrder
    <3> QED BY <1>1, <2>1, <3>1, CommittedKept
  <2>3. CASE u \in Own(c, k)
    <3>1. IsSmallest(Own(c, k), u)
      BY <1>3, <2>3 DEF IsSmallest
    <3> QED BY <1>1, <1>2, <1>3, <2>1, <2>2, <2>3, <3>1 DEF ValueOK, BeganCommitted
  <2>4. CASE u \notin Own(c, k)
    <3>1. u = n /\ r.type = "UPDATE" /\ r.key = k
      BY <1>3, <2>4
    <3>2. Own(c, k) = {}
      <4>1. ASSUME NEW i \in Own(c, k) PROVE FALSE
        BY <1>3, <3>1 DEF IsSmallest
      <4> QED BY <4>1
    <3>3. r.old = Now(k) /\ owner[StripeOf[k]] = c
      BY <3>1, ChangeIsSound DEF Changing
    <3>4. ASSUME NEW d \in Client, Dirty(d), Own(d, k) # {} PROVE FALSE
      <4>1. owner[StripeOf[k]] = d
        BY <1>1, <3>4, OwnsLock DEF Dirty
      <4> QED BY <3>2, <3>3, <3>4, <4>1
    <3>5. ToLog(Committed(log)[k]) = Now(k)
      BY <3>4 DEF ValueInv, CleanCommitted
    <3> QED BY <1>2, <2>2, <3>1, <3>3, <3>5
  <2> QED BY <2>3, <2>4
<1> QED BY <1>4, <1>5, <1>6, <1>7, <1>8 DEF ValueOK

\* What a logging step leaves of keys whose lock the client does not own.
LEMMA LoggedElsewhere ==
  ASSUME ValueInv, NEW c \in Client, NEW r \in Record, LogStep(c, r),
         NEW k \in Key, owner[StripeOf[k]] # c
  PROVE  /\ ~Changing(r, k) /\ Own(c, k) = {}
         /\ Now(k)' = Now(k) /\ Changes(k)' = Changes(k)
         /\ Committed(log')[k] = Committed(log)[k]
<1>1. /\ TypeOK /\ LogOK /\ TxnInv /\ LogsInOrder(c)
      /\ log' = Append(log, r) /\ lsn' = lsn + 1 /\ r.tx = txid[c] /\ txid[c] # 0 /\ pc[c] # "unlock"
  BY DEF ValueInv, ValueOK, TxnInv, LockInv, LogStep, Appends
<1>2. ~Changing(r, k)
  BY ChangeIsSound
<1>3. Own(c, k) = {}
  BY <1>1, OwnsLock
<1>4. r.type = "UPDATE" => r.tx \notin Winners(log)
  BY <1>1 DEF Winners, LogsInOrder, LogStep, Appends, Dirty
<1>5. Committed(log')[k] = Committed(log)[k]
  <2>1. UpdatesOf(log, {r.tx}, k) = {}
    BY <1>1, <1>3 DEF Own
  <2> QED BY <1>1, <1>4, <2>1, CommittedKept
<1>6. Now(k)' = Now(k) /\ Changes(k)' = Changes(k)
  BY <1>1, <1>2, Unchanging
<1> QED BY <1>2, <1>3, <1>5, <1>6

LEMMA LoggedOthers ==
  ASSUME ValueInv, NEW c \in Client, NEW r \in Record, LogStep(c, r),
         NEW d \in Client, d # c, Frame(d)
  PROVE  ValueOK(d)'
<1>1. TxnInv /\ TypeOK /\ ValueOK(d) /\ TxIds /\ old'[d] = old[d] /\ ht' = ht
  BY DEF ValueInv, TxnInv, LockInv, LogStep
<1>2. txid[d] # 0 => Without(log, log', txid[d])
  <2>1. txid[d] # 0 => txid[c] # txid[d]
    BY <1>1 DEF TxIds
  <2> QED BY <1>1, <2>1, StepWithout DEF LogStep
<1>3. ASSUME NEW k \in Key, owner[StripeOf[k]] = d
      PROVE  /\ ht'[k] = ht[k] /\ Now(k)' = Now(k) /\ Changes(k)' = Changes(k)
             /\ Committed(log')[k] = Committed(log)[k]
  BY <1>1, <1>3, LoggedElsewhere
<1> QED BY <1>1, <1>2, <1>3, OthersValue

LEMMA LoggedClean ==
  ASSUME ValueInv, NEW c \in Client, NEW r \in Record, LogStep(c, r),
         \A d \in Client : d # c => Frame(d)
  PROVE  CleanCommitted'
<1> SUFFICES ASSUME NEW k \in Key, \A d \in Client : Dirty(d)' => Own(d, k)' = {}
             PROVE  ToLog(Committed(log')[k]) = Now(k)'
  BY DEF CleanCommitted
<1>0. PICK n \in Nat : n = Len(log) + 1
  BY LogIsSeq DEF ValueInv, TxnInv, LockInv
<1>1. /\ TypeOK /\ LogOK /\ TxnInv /\ ValueOK(c) /\ TxIds
      /\ log' = Append(log, r) /\ lsn' = lsn + 1 /\ r.tx = txid[c] /\ txid[c] # 0
      /\ txid'[c] = txid[c] /\ pc[c] \notin {"unlock", "set_end", "set_commit"}
      /\ log \in Seq(Record) /\ log' \in Seq(Record)
  BY AppendKeeps DEF ValueInv, TxnInv, LockInv, LogStep, Appends, TypeOK
<1>2. /\ DOMAIN log' = 1 .. n /\ DOMAIN log = 1 .. n - 1 /\ n - 1 \in Nat
      /\ \A i \in 1 .. n - 1 : log'[i] = log[i]
      /\ log'[n] = r /\ lsn + 1 = n
  BY <1>0, <1>1, Appended, LogIsSeq DEF LogOK
<1>3. Changes(k) \in SUBSET (1 .. n - 1) /\ Own(c, k) \in SUBSET (1 .. n - 1)
  BY <1>2 DEF Changes, Own, UpdatesOf
<1>4. ASSUME NEW d \in Client, d # c, Dirty(d) PROVE Own(d, k) = {}
  <2>1. txid'[d] = txid[d] /\ pc'[d] = pc[d]
    BY <1>4 DEF Frame
  <2>2. Own(d, k) \subseteq Own(d, k)'
    BY <1>2, <2>1 DEF Own, UpdatesOf
  <2>3. Dirty(d)'
    BY <1>4, <2>1 DEF Dirty
  <2> QED BY <2>2, <2>3
<1>5. ASSUME Own(c, k) = {} PROVE ToLog(Committed(log)[k]) = Now(k)
  BY <1>4, <1>5 DEF ValueInv, CleanCommitted
<1>6. r.type = "UPDATE" => r.tx \notin Winners(log)
  BY <1>1 DEF Winners, ValueOK, LogsInOrder, LogStep, Appends, Dirty
<1>7. ASSUME ~Changing(r, k) PROVE Now(k)' = Now(k) /\ Changes(k)' = Changes(k)
  BY <1>1, <1>7, Unchanging
<1>8. ASSUME r.type = "COMMIT" => Own(c, k) = {}
      PROVE  Committed(log')[k] = Committed(log)[k]
  BY <1>1, <1>6, <1>8, CommittedKept DEF Own
<1>9. CASE r.type = "COMMIT"
  <2>1. Now(k)' = Now(k) /\ Changes(k)' = Changes(k)
    BY <1>7, <1>9 DEF Changing
  <2>2. CASE Own(c, k) = {}
    BY <1>5, <1>8, <2>1, <2>2
  <2>3. CASE Own(c, k) # {}
    <3>1. PICK u \in Own(c, k) : IsLargest(Own(c, k), u)
      <4>1. Own(c, k) \in SUBSET (0 .. n)
        BY <1>3
      <4> QED BY <2>3, <4>1, LargestExists
    <3>2. IsLargest(Changes(k), u) /\ Now(k) = log[u].new
      <4>1. ~Undoes(c)
        BY <1>9 DEF Undoes, LogStep, Appends
      <4> QED BY <1>1, <3>1, <4>1, OwnIsLast
    <3>3. u \in 1 .. n - 1 /\ log'[u] = log[u] /\ log[u] \in Record
      BY <1>1, <1>2, <1>3
    <3>4. u \in UpdatesOf(log', Winners(log'), k)
      <4>1. log[u].type = "UPDATE" /\ log[u].key = k /\ log[u].tx = r.tx
        BY <1>1 DEF Own, UpdatesOf
      <4>2. r.tx \in Winners(log')
        BY <1>1, <1>9, WinnersGrow
      <4> QED BY <1>2, <3>3, <4>1, <4>2 DEF UpdatesOf
    <3>5. UpdatesOf(log', Winners(log'), k) \subseteq Changes(k)
      BY <2>1 DEF UpdatesOf, Changes
    <3>6. IsLargest(UpdatesOf(log', Winners(log'), k), u)
      BY <3>2, <3>4, <3>5 DEF IsLargest
    <3>7. Committed(log')[k] = FromLog(log'[u].new)
      BY <1>1, <3>6, CommittedIs
    <3>8. log[u].new \in LogValue
      BY <3>3 DEF Record
    <3> QED BY <2>1, <3>2, <3>3, <3>7, <3>8, ThereAndBack
  <2> QED BY <2>2, <2>3
<1>10. CASE r.type = "END"
  <2>1. Now(k)' = Now(k) /\ Committed(log')[k] = Committed(log)[k]
    BY <1>7, <1>8, <1>10 DEF Changing
  <2>2. CASE Own(c, k) = {}
    BY <1>5, <2>1, <2>2
  <2>3. CASE Own(c, k) # {}
    <3>1. PICK u \in Own(c, k) : IsSmallest(Own(c, k), u)
      BY <1>3, <2>3, SmallestExists
    <3>2. pc[c] = "rollback" /\ log[cursor[c]].type = "BEGIN"
      BY <1>10 DEF LogStep, Appends
    <3>3. cursor[c] \in DOMAIN log /\ log[cursor[c]].tx = txid[c]
      BY <1>1, <3>2, UndoingIs DEF Undoes
    <3>4. cursor[c] < u
      <4>1. log[cursor[c]].prev = 0 /\ RecordOK(cursor[c])
        BY <1>1, <3>2, <3>3 DEF ValueInv, BeginsFirst, LogOK
      <4>2. \A j \in 1 .. cursor[c] - 1 : log[j].tx # txid[c]
        BY <1>1, <1>2, <3>3, <4>1 DEF RecordOK
      <4>3. log[u].tx = txid[c] /\ log[u].type = "UPDATE" /\ u \in 1 .. n - 1
        BY <1>3 DEF Own, UpdatesOf
      <4>4. u # cursor[c]
        BY <3>2, <4>3
      <4> QED BY <1>2, <3>3, <4>2, <4>3, <4>4
    <3>5. Now(k) = log[u].old
      BY <1>1, <3>1, <3>2, <3>4 DEF ValueOK, RollbackHolds, RollbackOf, Undone, Undoes
    <3>6. log[u].old = ToLog(Committed(log)[k])
      BY <1>1, <3>1 DEF ValueOK, BeganCommitted, Dirty
    <3> QED BY <2>1, <3>5, <3>6
  <2> QED BY <2>2, <2>3
<1>11. CASE r.type \notin {"COMMIT", "END"}
  <2>1. Dirty(c)'
    BY <1>1, <1>11 DEF Dirty, LogStep, Appends
  <2>2. Own(c, k)' = {}
    BY <2>1
  <2>3. Own(c, k) = {} /\ ~(r.type = "UPDATE" /\ r.key = k)
    <3>1. \A i \in Own(c, k) : i \in Own(c, k)'
      BY <1>1, <1>2 DEF Own, UpdatesOf
    <3>2. r.type = "UPDATE" /\ r.key = k => n \in Own(c, k)'
      BY <1>1, <1>2 DEF Own, UpdatesOf
    <3> QED BY <2>2, <3>1, <3>2
  <2>4. ~(r.type = "CLR" /\ r.key = k)
    BY <1>1, <2>3, UndoingIs DEF LogStep, Appends, Undoes
  <2>5. ~Changing(r, k)
    BY <2>3, <2>4 DEF Changing
  <2> QED BY <1>5, <1>7, <1>8, <2>3, <2>5
<1> QED BY <1>9, <1>10, <1>11

(***************************************************************************)
(* A client's other steps.                                                 *)
(***************************************************************************)
LEMMA SameLog ==
  ASSUME UNCHANGED <<log, lsn>>, NEW k
  PROVE  /\ Now(k)' = Now(k) /\ Changes(k)' = Changes(k)
         /\ Committed(log')[k] = Committed(log)[k]
BY DEF Now, Replayed, Changes

\* A step of a rollback from an update, undone, or another record to the one
\* before it.
LEMMA UndoneBack ==
  ASSUME ValueInv, NEW c \in Client, Undoes(c), NEW k \in Key,
         IF cursor[c] \in Own(c, k) THEN Now(k) = log[cursor[c]].old ELSE Undone(c, k),
         cursor'[c] = log[cursor[c]].prev, UNCHANGED <<log, lsn, txid[c]>>
  PROVE  Undone(c, k)'
<1> DEFINE p == log[cursor[c]].prev
<1>1. /\ TypeOK /\ LogOK /\ TxnInv
      /\ DOMAIN log = 1 .. Len(log) /\ Len(log) \in Nat
      /\ cursor[c] \in 1 .. Len(log) /\ log[cursor[c]].tx = txid[c] /\ txid[c] # 0
  BY UndoingIs, LogIsSeq DEF ValueInv, TxnInv, LockInv
<1>2. /\ p \in 0 .. cursor[c] - 1
      /\ \A j \in 1 .. cursor[c] - 1 : log[j].tx = txid[c] => j <= p
  BY <1>1 DEF LogOK, RecordOK
<1>3. Own(c, k)' = Own(c, k) /\ Now(k)' = Now(k)
  BY SameLog DEF Own
<1>4. \A i \in Own(c, k) : i \in 1 .. Len(log) /\ log[i].tx = txid[c]
                          /\ log[i].type = "UPDATE" /\ log[i].key = k
  BY <1>1 DEF Own, UpdatesOf
<1>5. \A i \in Own(c, k) : i # cursor[c] => (i <= cursor[c] <=> i <= p)
  BY <1>1, <1>2, <1>4
<1> HIDE DEF p
<1>6. CASE cursor[c] \notin Own(c, k)
  <2>1. {i \in Own(c, k) : i <= cursor[c]} = {i \in Own(c, k) : i <= p}
    BY <1>5, <1>6
  <2>2. \A u \in Own(c, k) : p < u <=> cursor[c] < u
    BY <1>1, <1>2, <1>4, <1>5, <1>6
  <2>3. Undone(c, k) /\ cursor'[c] = p
    BY <1>6 DEF p
  <2> QED BY <1>3, <2>1, <2>2, <2>3 DEF Undone
<1>7. CASE cursor[c] \in Own(c, k)
  <2>1. Now(k) = log[cursor[c]].old /\ cursor'[c] = p
    BY <1>7 DEF p
  <2>2. ASSUME NEW u \in Own(c, k), IsLargest({i \in Own(c, k) : i <= p}, u)
        PROVE  Now(k) = log[u].new
    <3>1. u <= p /\ u < cursor[c] /\ u \in 1 .. Len(log) /\ u \in Changes(k)
      BY <1>1, <1>2, <1>4, <2>2 DEF IsLargest, Changes
    <3>2. ASSUME NEW j \in Before(k, cursor[c]), u < j PROVE FALSE
      <4>1. j \in Changes(k) /\ j < cursor[c] /\ j \in 1 .. Len(log) /\ log[j].key = k
        BY <1>1 DEF Before, Changes
      <4>2. log[j].type = "UPDATE" /\ log[j].tx = txid[c]
        BY <1>1, <1>4, <1>7, <3>1, <3>2, <4>1 DEF ValueInv, Unmixed
      <4>3. j \in Own(c, k) /\ j <= p
        BY <1>1, <1>2, <4>1, <4>2 DEF Own, UpdatesOf
      <4> QED BY <1>1, <1>2, <2>2, <3>1, <3>2, <4>1, <4>3 DEF IsLargest
    <3>3. IsLargest(Before(k, cursor[c]), u)
      <4>1. \A j \in Before(k, cursor[c]) : j \in Nat
        BY <1>1 DEF Before, Changes
      <4> QED BY <3>1, <3>2, <4>1 DEF IsLargest, Before
    <3>4. PICK n \in Nat : n = cursor[c]
      BY <1>1
    <3>5. Replayed(k, n) = log[u].new
      BY <1>1, <3>3, <3>4, ReplayedIs
    <3>6. n \in Changes(k)
      BY <1>1, <1>4, <1>7, <3>4 DEF Changes
    <3>7. log[n].old = Replayed(k, n)
      BY <3>6 DEF ValueInv, BeforeImage
    <3> QED BY <2>1, <3>4, <3>5, <3>7
  <2>3. ASSUME NEW u \in Own(c, k), p < u, IsSmallest(Own(c, k), u)
        PROVE  Now(k) = log[u].old
    <3>1. u <= cursor[c]
      BY <1>7, <2>3 DEF IsSmallest
    <3>2. u = cursor[c]
      BY <1>1, <1>2, <1>4, <1>5, <2>3, <3>1
    <3> QED BY <2>1, <3>2
  <2> QED BY <1>3, <2>1, <2>2, <2>3 DEF Undone
<1> QED BY <1>6, <1>7

\* Where client c goes in a step that logs nothing, and what changes on the way.
Moves(c) ==
  \/ pc[c] = "ready" /\ txid[c] = 0 /\ txid'[c] = transaction_id + 1 /\ pc'[c] = "begin_log" /\ ht' = ht
  \/ /\ txid'[c] = txid[c] /\ ht' = ht
     /\ \/ pc[c] = "ready" /\ pc'[c] \in {"lock", "gone"}
        \/ pc[c] = "set_begin" /\ pc'[c] \in {"ready", "lock"}
        \/ pc[c] = "set_update" /\ pc'[c] = "apply" /\ cmd'[c] = cmd[c] /\ old'[c] = old[c]
        \/ pc[c] = "set_abort" /\ pc'[c] = "rollback" /\ cursor'[c] = new_lsn[c]
        \/ pc[c] = "set_clr" /\ pc'[c] = "undo_apply" /\ cursor'[c] = cursor[c]
        \/ /\ pc[c] = "set_clr" /\ pc'[c] = "rollback" /\ cursor'[c] = log[cursor[c]].prev
           /\ log[cursor[c]].old = Empty /\ log[cursor[c]].new = Empty
        \/ pc[c] \in {"set_commit", "set_end", "unlock"} /\ pc'[c] = "unlock"
        \/ /\ pc[c] = "lock" /\ pc'[c] \in {"reply", "log"}
           /\ cmd'[c] = cmd[c] /\ old'[c] = ht[cmd[c].key]
        \/ pc[c] = "reply" /\ pc'[c] \in {"ready", "commit_log"}
        \/ /\ pc[c] = "rollback" /\ pc'[c] = "rollback" /\ cursor'[c] = log[cursor[c]].prev
           /\ log[cursor[c]].type # "UPDATE"
  \/ /\ pc[c] = "apply" /\ pc'[c] \in {"ready", "commit_log"} /\ txid'[c] = txid[c]
     /\ cmd[c].key \in Key /\ ht' = [ht EXCEPT ![cmd[c].key] = cmd[c].val]
  \/ /\ pc[c] = "undo_apply" /\ pc'[c] = "rollback" /\ txid'[c] = txid[c]
     /\ cursor'[c] = log[cursor[c]].prev /\ log[cursor[c]].key \in Key
     /\ ht' = [ht EXCEPT ![log[cursor[c]].key] = FromLog(log[cursor[c]].old)]
  \/ pc[c] = "unlock" /\ pc'[c] = "ready" /\ txid'[c] = 0 /\ ht' = ht

LEMMA MovesIs ==
  ASSUME TxnInv, NEW c \in Client, Receiving(c) \/ Executing(c), ~Logging(c)
  PROVE  /\ Moves(c) /\ UNCHANGED <<log, lsn>>
         /\ \A d \in Client : d # c => old'[d] = old[d]
<1> DEFINE Result == /\ Moves(c) /\ UNCHANGED <<log, lsn>>
                     /\ \A d \in Client : d # c => old'[d] = old[d]
<1>0. /\ TypeOK /\ ThreadOK
      /\ pc \in [Client -> PC] /\ cmd \in [Client -> Cmd] /\ txid \in [Client -> Nat]
      /\ cursor \in [Client -> Nat] /\ old \in [Client -> HtValue]
  BY DEF TxnInv, LockInv, TypeOK
<1>1. ASSUME Begin(c) PROVE Result
  BY <1>0, <1>1 DEF Begin, StartTx, At, Goto, Moves
<1>2. ASSUME NEW op, NEW k, NEW v, Receive(c, op, k, v) PROVE Result
  BY <1>0, <1>2 DEF Receive, StartTx, At, Goto, Moves
<1>3. ASSUME Disconnect(c) PROVE Result
  BY <1>0, <1>3 DEF Disconnect, At, Goto, Moves
<1>4. ASSUME SetLast(c) PROVE Result
  <2>1. /\ UNCHANGED <<log, lsn, ht, txid, cmd, old>> /\ pc'[c] = AfterSet(c)
        /\ cursor'[c] = CASE At(c, "set_abort") -> new_lsn[c]
                          [] At(c, "set_clr") /\ AfterClr(c) = "rollback" -> UndoNext(c)
                          [] OTHER -> cursor[c]
        /\ pc[c] \in Setting
    BY <1>0, <1>4 DEF SetLast, Goto
  <2>2. CASE pc[c] = "set_clr"
    <3>1. Undoing(c) = log[cursor[c]]
      BY <2>2, UndoingIs DEF Undoes
    <3> QED BY <2>1, <2>2, <3>1 DEF AfterSet, AfterClr, UndoNext, At, Moves
  <2>3. CASE pc[c] # "set_clr"
    BY <2>1, <2>3 DEF Setting, AfterSet, At, Moves
  <2> QED BY <2>2, <2>3
<1>5. ASSUME Lock(c) PROVE Result
  BY <1>0, <1>5 DEF Lock, At, Goto, Moves
<1>6. ASSUME Reply(c) PROVE Result
  BY <1>0, <1>6 DEF Reply, Finish, At, Goto, Moves
<1>7. ASSUME Apply(c) PROVE Result
  BY <1>0, <1>7 DEF Apply, Finish, At, Goto, Moves, ThreadOK
<1>8. ASSUME SkipRecord(c) PROVE Result
  <2>1. pc[c] = "rollback" /\ Undoing(c) = log[cursor[c]]
    BY <1>8, UndoingIs DEF SkipRecord, At, Undoes
  <2> QED BY <1>0, <1>8, <2>1 DEF SkipRecord, UndoNext, Moves
<1>9. ASSUME UndoApply(c) PROVE Result
  <2>1. /\ pc[c] = "undo_apply" /\ Undoing(c) = log[cursor[c]]
        /\ log[cursor[c]].key \in Key
    BY <1>9, UndoingIs DEF UndoApply, At, Undoes
  <2> QED BY <1>0, <1>9, <2>1 DEF UndoApply, UndoNext, Goto, Moves
<1>10. ASSUME Unlock(c) PROVE Result
  BY <1>0, <1>10 DEF Unlock, At, Moves
<1>11. ASSUME Leave(c) PROVE Result
  BY <1>0, <1>11 DEF Leave, At, Goto, Moves
<1> QED BY <1>1, <1>2, <1>3, <1>4, <1>5, <1>6, <1>7, <1>8, <1>9, <1>10, <1>11
        DEF Receiving, Executing, Get, Set, Del

LEMMA MovedOthers ==
  ASSUME ValueInv, NEW c \in Client, Moves(c), UNCHANGED <<log, lsn>>,
         NEW d \in Client, d # c, Frame(d), old'[d] = old[d]
  PROVE  ValueOK(d)'
<1>1. TypeOK /\ TxnInv /\ ValueOK(d) /\ WritesOwned(c) /\ ht \in [Key -> HtValue]
  BY DEF ValueInv, TxnInv, LockInv, ClientOK, TypeOK
<1>2. ASSUME NEW k \in Key, owner[StripeOf[k]] = d PROVE ht'[k] = ht[k]
  <2>1. CASE pc[c] = "apply"
    <3>1. cmd[c].key # k
      BY <1>1, <1>2, <2>1 DEF WritesOwned
    <3> QED BY <1>1, <2>1, <3>1 DEF Moves
  <2>2. CASE pc[c] = "undo_apply"
    <3>1. cursor[c] \in Own(c, log[cursor[c]].key) /\ txid[c] # 0
      BY <1>1, <2>2, UndoingIs DEF Undoes
    <3>2. log[cursor[c]].key # k
      BY <1>1, <1>2, <2>2, <3>1, OwnsLock
    <3> QED BY <1>1, <2>2, <3>2 DEF Moves
  <2>3. CASE pc[c] \notin {"apply", "undo_apply"}
    BY <2>3 DEF Moves
  <2> QED BY <2>1, <2>2, <2>3
<1>3. txid[d] # 0 => Without(log, log', txid[d])
  BY <1>1, StepWithout
<1>4. \A k \in Key : owner[StripeOf[k]] = d =>
        /\ ht'[k] = ht[k] /\ Now(k)' = Now(k) /\ Changes(k)' = Changes(k)
        /\ Committed(log')[k] = Committed(log)[k]
  BY <1>2, SameLog
<1> HIDE DEF Frame
<1> QED BY <1>1, <1>3, <1>4, OthersValue

LEMMA MovedAhead ==
  ASSUME ValueInv, TxnInv', NEW c \in Client, Moves(c), UNCHANGED <<log, lsn>>,
         \A d \in Client : d # c => Frame(d)
  PROVE  WriteAhead'
<1> SUFFICES ASSUME NEW k \in Key, ToLog(ht'[k]) # Now(k)' PROVE \E d \in Client : Pending(d, k)'
  BY DEF WriteAhead, Now
<1>1. /\ TypeOK /\ TxnInv /\ ValueOK(c) /\ ht \in [Key -> HtValue] /\ Now(k)' = Now(k)
  BY SameLog DEF ValueInv, TxnInv, LockInv, TypeOK
<1> HIDE DEF Frame
<1>2. ASSUME NEW d \in Client, d # c, Pending(d, k) PROVE Pending(d, k)'
  BY <1>1, <1>2, PendingKept
<1>3. ASSUME ht'[k] = ht[k], ~Pending(c, k) PROVE \E d \in Client : Pending(d, k)'
  <2>1. PICK d \in Client : Pending(d, k)
    BY <1>1, <1>3 DEF ValueInv, WriteAhead, Now
  <2> QED BY <1>2, <1>3, <2>1
<1>4. CASE pc[c] = "apply"
  <2>1. k # cmd[c].key
    <3>1. ASSUME k = cmd[c].key PROVE FALSE
      <4>1. ht'[k] = cmd[c].val /\ Now(k) = ToLog(cmd[c].val)
        BY <1>1, <1>4, <3>1 DEF Moves, ValueOK, CommandHolds
      <4> QED BY <1>1, <4>1
    <3> QED BY <3>1
  <2>2. ht'[k] = ht[k] /\ ~Pending(c, k)
    BY <1>1, <1>4, <2>1 DEF Moves, Pending
  <2> QED BY <1>3, <2>2
<1>5. CASE pc[c] = "undo_apply"
  <2>1. cursor[c] \in DOMAIN log /\ Undoing(c) = log[cursor[c]] /\ log[cursor[c]] \in Record
    BY <1>1, <1>5, UndoingIs DEF Undoes
  <2>2. k # log[cursor[c]].key
    <3>1. ASSUME k = log[cursor[c]].key PROVE FALSE
      <4>1. ht'[k] = FromLog(log[cursor[c]].old)
        BY <1>1, <1>5, <3>1 DEF Moves
      <4>2. Now(k) = log[cursor[c]].old
        BY <1>1, <1>5, <3>1 DEF ValueOK, RollbackHolds, RollbackOf, Undoes
      <4>3. log[cursor[c]].old \in LogValue
        BY <2>1 DEF Record
      <4> QED BY <1>1, <4>1, <4>2, <4>3, ThereAndBack
    <3> QED BY <3>1
  <2>3. ht'[k] = ht[k] /\ ~Pending(c, k)
    BY <1>1, <1>5, <2>1, <2>2 DEF Moves, Pending
  <2> QED BY <1>3, <2>3
<1>6. CASE pc[c] = "set_clr"
  <2>1. Undoing(c) = log[cursor[c]] /\ ht' = ht
    BY <1>1, <1>6, UndoingIs DEF Undoes, Moves
  <2>2. CASE k # log[cursor[c]].key
    BY <1>3, <1>6, <2>1, <2>2 DEF Pending
  <2>3. CASE k = log[cursor[c]].key
    <3>1. CASE pc'[c] = "undo_apply"
      <4>1. cursor'[c] = cursor[c]
        BY <1>6, <3>1 DEF Moves
      <4>2. Undoing(c)' = log[cursor[c]]
        BY <3>1, <4>1, UndoingNext
      <4> QED BY <2>3, <3>1, <4>2 DEF Pending
    <3>2. CASE pc'[c] # "undo_apply"
      <4>1. log[cursor[c]].old = Empty /\ log[cursor[c]].new = Empty
        BY <1>6, <3>2 DEF Moves
      <4>2. Now(k) = log[cursor[c]].old /\ ToLog(ht[k]) = log[cursor[c]].new
        BY <1>1, <1>6, <2>3 DEF ValueOK, RollbackHolds, RollbackOf, Undoes
      <4> QED BY <1>1, <2>1, <4>1, <4>2
    <3> QED BY <3>1, <3>2
  <2> QED BY <2>2, <2>3
<1>7. CASE pc[c] = "set_update"
  <2>1. pc'[c] = "apply" /\ cmd'[c] = cmd[c] /\ ht' = ht
    BY <1>7 DEF Moves
  <2>2. CASE Pending(c, k)
    BY <1>7, <2>1, <2>2 DEF Pending
  <2>3. CASE ~Pending(c, k)
    BY <1>3, <2>1, <2>3
  <2> QED BY <2>2, <2>3
<1>8. CASE pc[c] \notin {"apply", "undo_apply", "set_clr", "set_update"}
  <2>1. ht' = ht /\ ~Pending(c, k)
    BY <1>8 DEF Moves, Pending
  <2> QED BY <1>3, <2>1
<1> QED BY <1>4, <1>5, <1>6, <1>7, <1>8

LEMMA MovedClean ==
  ASSUME ValueInv, NEW c \in Client, Moves(c), UNCHANGED <<log, lsn>>,
         \A d \in Client : d # c => Frame(d)
  PROVE  CleanCommitted'
<1> SUFFICES ASSUME NEW k \in Key, \A d \in Client : Dirty(d)' => Own(d, k)' = {}
             PROVE  ToLog(Committed(log')[k]) = Now(k)'
  BY DEF CleanCommitted
<1>1. ASSUME NEW d \in Client, Dirty(d) PROVE Dirty(d)' /\ Own(d, k)' = Own(d, k)
  <2>1. CASE d = c
    BY <1>1, <2>1 DEF Moves, Dirty, Own
  <2>2. CASE d # c
    BY <1>1, <2>2 DEF Frame, Dirty, Own
  <2> QED BY <2>1, <2>2
<1>2. ToLog(Committed(log)[k]) = Now(k)
  BY <1>1 DEF ValueInv, CleanCommitted
<1> QED BY <1>2, SameLog

LEMMA MovedOwn ==
  ASSUME ValueInv, NEW c \in Client, Moves(c), UNCHANGED <<log, lsn>>
  PROVE  ValueOK(c)'
<1>1. /\ TypeOK /\ LogOK /\ TxnInv /\ ValueOK(c) /\ ThreadOK /\ LastKnown(c)
      /\ txid[c] \in Nat /\ transaction_id \in Nat
      /\ DOMAIN log = 1 .. Len(log) /\ Len(log) \in Nat
  BY LogIsSeq DEF ValueInv, TxnInv, LockInv, ClientOK, TypeOK
\* A transaction that starts or has ended has no record, or no id.
<1>2. ASSUME txid'[c] # txid[c]
      PROVE  /\ \A i \in DOMAIN log : txid'[c] # 0 => log[i].tx # txid'[c]
             /\ pc'[c] \in {"begin_log", "ready"} /\ (pc'[c] = "ready" => txid'[c] = 0)
  <2>1. \/ txid'[c] = transaction_id + 1 /\ pc'[c] = "begin_log"
        \/ txid'[c] = 0 /\ pc'[c] = "ready"
    BY <1>2 DEF Moves
  <2>2. \A i \in DOMAIN log : log[i].tx <= transaction_id /\ log[i].tx \in Nat
    BY <1>1, LogIsSeq DEF LogOK, RecordOK
  <2> QED BY <1>1, <2>1, <2>2
<1>3. ASSUME txid'[c] = txid[c], NEW k
      PROVE  Own(c, k)' = Own(c, k) /\ Now(k)' = Now(k) /\ Changes(k)' = Changes(k)
  BY <1>3, SameLog DEF Own
<1>4. CommandHolds(c)'
  <2> SUFFICES ASSUME NEW k \in Key, cmd'[c].key = k,
                      pc'[c] \in {"reply", "log", "set_update", "apply"}
               PROVE  /\ old'[c] = ht'[k]
                      /\ pc'[c] \in {"set_update", "apply"} => Now(k)' = ToLog(cmd'[c].val)
    BY DEF CommandHolds
  <2>1. CASE pc[c] = "lock"
    BY <2>1 DEF Moves
  <2>2. CASE pc[c] # "lock"
    <3>1. pc[c] = "set_update" /\ pc'[c] = "apply" /\ cmd'[c] = cmd[c] /\ old'[c] = old[c] /\ ht' = ht
      BY <2>2 DEF Moves
    <3> QED BY <1>1, <3>1, SameLog DEF ValueOK, CommandHolds
  <2> QED BY <2>1, <2>2
<1>5. KeepsOut(c)'
  <2>1. CASE txid'[c] = txid[c]
    <3>1. pc'[c] # "unlock" /\ txid[c] # 0 => pc[c] # "unlock"
      BY <2>1 DEF Moves
    <3> QED BY <1>1, <1>3, <2>1, <3>1 DEF ValueOK, KeepsOut
  <2>2. CASE txid'[c] # txid[c]
    BY <1>2, <2>2 DEF KeepsOut, Own, UpdatesOf
  <2> QED BY <2>1, <2>2
<1>6. LogsInOrder(c)'
  <2>1. CASE txid'[c] = txid[c]
    <3>1. txid[c] # 0 /\ (Undoes(c) \/ pc[c] \in {"set_end", "unlock"}) =>
            Undoes(c)' \/ pc'[c] \in {"set_end", "unlock"}
      BY <2>1 DEF Moves, Undoes
    <3>2. txid[c] # 0 /\ ~Dirty(c) /\ pc[c] # "set_end" => ~Dirty(c)' /\ pc'[c] # "set_end"
      BY <2>1 DEF Moves, Dirty
    <3> QED BY <1>1, <2>1, <3>1, <3>2 DEF ValueOK, LogsInOrder
  <2>2. CASE txid'[c] # txid[c]
    BY <1>2, <2>2 DEF LogsInOrder
  <2> QED BY <2>1, <2>2
<1>7. RollbackHolds(c)'
  <2> SUFFICES ASSUME Undoes(c)', NEW k \in Key PROVE RollbackOf(c, k)'
    BY DEF RollbackHolds
  <2>1. txid'[c] = txid[c] /\ txid[c] # 0 /\ log' = log
    BY <1>1 DEF Moves, Undoes, ThreadOK
  <2>2. CASE pc[c] = "set_abort"
    <3>1. pc'[c] = "rollback" /\ cursor'[c] = new_lsn[c] /\ IsLast(log, new_lsn[c], txid[c])
      BY <1>1, <2>1, <2>2 DEF Moves, LastKnown, Setting
    <3>2. \A u \in Own(c, k) : u <= new_lsn[c] /\ u \in Nat
      BY <1>1, <3>1 DEF IsLast, Own, UpdatesOf
    <3>3. new_lsn[c] \in Nat
      BY <1>1, <3>1 DEF IsLast
    <3>4. ASSUME NEW u \in Own(c, k), IsLargest({i \in Own(c, k) : i <= new_lsn[c]}, u)
          PROVE  Now(k) = log[u].new
      <4>1. IsLargest(Own(c, k), u)
        BY <3>2, <3>4 DEF IsLargest
      <4> QED BY <2>1, <2>2, <4>1, OwnIsLast DEF Undoes
    <3>5. Undone(c, k)'
      BY <1>3, <2>1, <3>1, <3>2, <3>3, <3>4 DEF Undone
    <3> QED BY <3>1, <3>5 DEF RollbackOf
  <2>3. CASE pc[c] = "set_clr" /\ pc'[c] = "undo_apply"
    <3>1. cursor'[c] = cursor[c] /\ ht' = ht
      BY <2>3 DEF Moves
    <3>2. Undone(c, k) => Undone(c, k)'
      BY <1>3, <2>1, <3>1 DEF Undone
    <3>3. RollbackOf(c, k)
      BY <1>1, <2>3 DEF ValueOK, RollbackHolds, Undoes
    <3> QED BY <1>3, <2>1, <2>3, <3>1, <3>2, <3>3 DEF RollbackOf
  <2>4. CASE /\ pc[c] \in {"set_clr", "undo_apply", "rollback"} /\ pc'[c] = "rollback"
             /\ cursor'[c] = log[cursor[c]].prev
             /\ pc[c] = "rollback" => log[cursor[c]].type # "UPDATE"
    <3>1. Undoes(c) /\ RollbackOf(c, k)
      BY <1>1, <2>4 DEF ValueOK, RollbackHolds, Undoes
    <3>2. IF cursor[c] \in Own(c, k) THEN Now(k) = log[cursor[c]].old ELSE Undone(c, k)
      <4>1. CASE pc[c] = "rollback"
        BY <2>4, <3>1, <4>1 DEF RollbackOf, Own, UpdatesOf
      <4>2. CASE pc[c] # "rollback"
        <5>1. cursor[c] \in Own(c, k) <=> log[cursor[c]].key = k
          <6>1. cursor[c] \in Own(c, log[cursor[c]].key)
            BY <1>1, <3>1, <4>2, UndoingIs
          <6> QED BY <6>1 DEF Own, UpdatesOf
        <5> QED BY <2>4, <3>1, <4>2, <5>1 DEF RollbackOf
      <4> QED BY <4>1, <4>2
    <3>3. Undone(c, k)'
      BY <2>1, <2>4, <3>1, <3>2, UndoneBack
    <3> QED BY <2>4, <3>3 DEF RollbackOf
  <2> QED BY <2>2, <2>3, <2>4 DEF Moves, Undoes
<1>8. BeganCommitted(c)'
  <2>1. CASE txid'[c] = txid[c]
    <3>1. Dirty(c)' => Dirty(c)
      BY <2>1 DEF Moves, Dirty
    <3> QED BY <1>1, <1>3, <2>1, <3>1, SameLog DEF ValueOK, BeganCommitted
  <2>2. CASE txid'[c] # txid[c]
    BY <1>2, <2>2 DEF BeganCommitted, Dirty, Own, UpdatesOf
  <2> QED BY <2>1, <2>2
<1> QED BY <1>4, <1>5, <1>6, <1>7, <1>8 DEF ValueOK

(***************************************************************************)
(* The invariant.                                                          *)
(***************************************************************************)

\* What is so stays so when nothing of it changes.
LEMMA StandsStill ==
  ASSUME ValueInv, TxnInv',
         UNCHANGED <<log, lsn, ht, pc, cmd, txid, last_lsn, new_lsn, cursor, owner, old>>
  PROVE  ValueInv'
<1>1. TypeOK /\ TxnInv
  BY DEF ValueInv, TxnInv, LockInv
<1>2. ASSUME NEW d \in Client PROVE ValueOK(d)'
  <2>1. txid[d] # 0 => Without(log, log', txid[d])
    BY <1>1, StepWithout
  <2>2. Frame(d) /\ ValueOK(d) /\ old'[d] = old[d]
    BY DEF Frame, ValueInv
  <2>3. \A k \in Key : owner[StripeOf[k]] = d =>
          /\ ht'[k] = ht[k] /\ Now(k)' = Now(k) /\ Changes(k)' = Changes(k)
          /\ Committed(log')[k] = Committed(log)[k]
    BY SameLog
  <2> QED BY <1>1, <2>1, <2>2, <2>3, OthersValue
<1>3. BeforeImage'
  BY DEF ValueInv, BeforeImage, Replayed, Changes
<1>4. WriteAhead'
  BY DEF ValueInv, WriteAhead, Replayed, Changes, Pending, Undoing
<1>5. Unmixed' /\ BeginsFirst'
  BY DEF ValueInv, Unmixed, BeginsFirst, Changes
<1>6. CleanCommitted'
  <2>1. \A d \in Client : Dirty(d)' = Dirty(d) /\ \A k : Own(d, k)' = Own(d, k)
    BY DEF Dirty, Own
  <2>2. \A k \in Key : Now(k)' = Now(k)
    BY SameLog
  <2> QED BY <2>1, <2>2 DEF ValueInv, CleanCommitted
<1> QED BY <1>2, <1>3, <1>4, <1>5, <1>6 DEF ValueInv

\* A checkpoint's record changes no key and commits nothing.
LEMMA CheckpointValue ==
  ASSUME ValueInv, TxnInv', CkptBegin \/ CkptLog
  PROVE  ValueInv'
<1>1. TypeOK /\ LogOK /\ TxnInv
  BY DEF ValueInv, TxnInv, LockInv
<1>2. UNCHANGED <<ht, pc, cmd, txid, last_lsn, new_lsn, cursor, owner, old>>
  BY DEF CkptBegin, CkptLog
<1>3. \A d \in Client : Frame(d)
  BY <1>2 DEF Frame
<1>4. CASE CkptBegin
  BY <1>2, <1>4, StandsStill DEF CkptBegin
<1>5. CASE CkptLog
  <2>1. PICK tail \in Uninitialised :
          log' = Append(log, CheckRecord(lsn + 1, OngoingList \o tail))
    BY <1>5 DEF CkptLog
  <2> DEFINE r == CheckRecord(lsn + 1, OngoingList \o tail)
  <2>2. r.tx = 0 /\ r.type = "CHECK"
    BY DEF CheckRecord
  <2>3. r \in Record
    <3>1. lsn + 1 \in Nat /\ OngoingList \o tail \in Seq(Ongoing)
      BY <1>1, <2>1, OngoingListType DEF TypeOK
    <3> QED BY <3>1, CheckRecordType
  <2>4. log' = Append(log, r) /\ lsn' = lsn + 1
    BY <1>5, <2>1 DEF CkptLog
  <2> HIDE DEF r
  <2>5. PICK n \in Nat : n = Len(log) + 1
    BY <1>1, LogIsSeq
  <2>6. /\ DOMAIN log' = 1 .. n /\ DOMAIN log = 1 .. n - 1 /\ n - 1 \in Nat
        /\ \A i \in 1 .. n - 1 : log'[i] = log[i]
        /\ log'[n] = r /\ lsn + 1 = n
    BY <1>1, <2>3, <2>4, <2>5, Appended, LogIsSeq DEF LogOK
  <2>7. ASSUME NEW k PROVE Now(k)' = Now(k) /\ Changes(k)' = Changes(k)
    BY <1>1, <2>2, <2>3, <2>4, Unchanging DEF Changing
  <2>8. ASSUME NEW k \in Key PROVE Committed(log')[k] = Committed(log)[k]
    BY <1>1, <2>2, <2>3, <2>4, CommittedKept
  <2>9. BeforeImage'
    <3> SUFFICES ASSUME NEW k \in Key, NEW i \in Changes(k) PROVE log'[i].old = Replayed(k, i)'
      BY <2>7 DEF BeforeImage
    <3>1. log[i].old = Replayed(k, i) /\ i \in 1 .. n - 1
      BY <2>6 DEF ValueInv, BeforeImage, Changes
    <3>2. i \in 1 .. Len(log) + 1
      BY <2>5, <3>1
    <3>3. Replayed(k, i)' = Replayed(k, i)
      BY <1>1, <2>3, <2>4, <3>2, AppendedReplays
    <3> QED BY <2>6, <3>1, <3>3
  <2>10. Unmixed'
    <3> SUFFICES ASSUME NEW i \in DOMAIN log', NEW j \in DOMAIN log', i < j,
                        log'[i].type = "UPDATE", log'[j].type = "UPDATE",
                        log'[i].tx = log'[j].tx, log'[i].key = log'[j].key,
                        NEW m \in DOMAIN log', i < m, m < j,
                        log'[m].type \in {"UPDATE", "CLR"}, log'[m].key = log'[i].key
                 PROVE  log'[m].type = "UPDATE" /\ log'[m].tx = log'[i].tx
      BY DEF Unmixed, Changes
    <3>1. i # n /\ j # n /\ m # n
      BY <2>2, <2>6
    <3>2. /\ i \in DOMAIN log /\ j \in DOMAIN log /\ m \in DOMAIN log
          /\ log'[i] = log[i] /\ log'[j] = log[j] /\ log'[m] = log[m]
      BY <2>6, <3>1
    <3>3. m \in Changes(log[i].key)
      BY <3>2 DEF Changes
    <3> QED BY <3>2, <3>3 DEF ValueInv, Unmixed
  <2>11. BeginsFirst'
    BY <2>2, <2>6 DEF ValueInv, BeginsFirst
  <2>12. WriteAhead'
    <3> SUFFICES ASSUME NEW k \in Key, ToLog(ht'[k]) # Now(k)' PROVE \E d \in Client : Pending(d, k)'
      BY DEF WriteAhead, Now
    <3>1. PICK d \in Client : Pending(d, k)
      BY <1>2, <2>7 DEF ValueInv, WriteAhead, Now
    <3> QED BY <1>1, <1>3, <2>3, <2>4, <3>1, PendingKept
  <2>13. ASSUME NEW d \in Client, txid[d] # 0, NEW k PROVE Own(d, k)' = Own(d, k)
    BY <1>2, <2>2, <2>6, <2>13 DEF Own, UpdatesOf
  <2>14. CleanCommitted'
    <3> SUFFICES ASSUME NEW k \in Key, \A d \in Client : Dirty(d)' => Own(d, k)' = {}
                 PROVE  ToLog(Committed(log')[k]) = Now(k)'
      BY DEF CleanCommitted
    <3>1. \A d \in Client : Dirty(d) => Own(d, k) = {}
      BY <1>2, <2>13 DEF Dirty
    <3> QED BY <2>7, <2>8, <3>1 DEF ValueInv, CleanCommitted
  <2>15. ASSUME NEW d \in Client PROVE ValueOK(d)'
    <3>1. txid[d] # 0 => Without(log, log', txid[d])
      BY <1>1, <2>2, <2>3, <2>4, StepWithout
    <3>2. \A k \in Key : owner[StripeOf[k]] = d =>
            /\ ht'[k] = ht[k] /\ Now(k)' = Now(k) /\ Changes(k)' = Changes(k)
            /\ Committed(log')[k] = Committed(log)[k]
      BY <1>2, <2>7, <2>8
    <3>3. ValueOK(d) /\ old'[d] = old[d]
      BY <1>2 DEF ValueInv
    <3> QED BY <1>1, <1>3, <3>1, <3>2, <3>3, OthersValue
  <2> QED BY <2>9, <2>10, <2>11, <2>12, <2>14, <2>15 DEF ValueInv
<1> QED BY <1>4, <1>5

LEMMA ValueInvInit == Init => ValueInv
<1> SUFFICES ASSUME Init PROVE ValueInv
  OBVIOUS
<1>1. Len(log) = 0 /\ DOMAIN log = {} /\ lsn = 0 /\ log = <<>> /\ log \in Seq(Record)
  BY EmptySeq DEF Init
<1>2. \A k : Changes(k) = {} /\ Now(k) = Empty
  BY <1>1 DEF Changes, Now, Replayed
<1>3. \A c, k : Own(c, k) = {}
  BY <1>1 DEF Own, UpdatesOf
<1>4. \A k \in Key : Committed(log)[k] = None
  <2>1. \A k : UpdatesOf(log, Winners(log), k) = {}
    BY <1>1 DEF UpdatesOf
  <2> QED BY <2>1 DEF Committed
<1>5. BeforeImage /\ Unmixed /\ BeginsFirst
  BY <1>1, <1>2 DEF BeforeImage, Unmixed, BeginsFirst
<1>6. WriteAhead
  BY <1>2 DEF Init, WriteAhead, ToLog, Now
<1>7. CleanCommitted
  BY <1>2, <1>4 DEF CleanCommitted, ToLog
<1>8. ASSUME NEW c \in Client PROVE ValueOK(c)
  BY <1>1, <1>3
     DEF Init, ValueOK, CommandHolds, KeepsOut, LogsInOrder, RollbackHolds, Undoes, BeganCommitted
<1> QED BY <1>5, <1>6, <1>7, <1>8, TxnInvInit DEF ValueInv

LEMMA ValueInvNext == ValueInv /\ [Next]_vars => ValueInv'
<1> SUFFICES ASSUME ValueInv, [Next]_vars PROVE ValueInv'
  OBVIOUS
<1>1. TxnInv /\ TxnInv' /\ LockInv
  BY TxnInvNext DEF ValueInv, TxnInv
<1>2. ASSUME NEW c \in Client, Receiving(c) \/ Executing(c) PROVE ValueInv'
  <2>1. \A d \in Client : d # c => Frame(d)
    BY <1>1, <1>2, FrameStep
  <2>2. CASE Logging(c)
    <3>1. PICK r \in Record : LogStep(c, r)
      BY <1>1, <2>2, LoggingIs
    <3>2. BeforeImage' /\ Unmixed' /\ BeginsFirst'
      BY <3>1, LoggedWhole
    <3>3. WriteAhead'
      BY <1>1, <2>1, <3>1, LoggedAhead
    <3>4. CleanCommitted'
      BY <2>1, <3>1, LoggedClean
    <3>5. ASSUME NEW d \in Client PROVE ValueOK(d)'
      BY <2>1, <3>1, LoggedOwn, LoggedOthers
    <3> QED BY <1>1, <3>2, <3>3, <3>4, <3>5 DEF ValueInv
  <2>3. CASE ~Logging(c)
    <3>1. /\ Moves(c) /\ UNCHANGED <<log, lsn>>
          /\ \A d \in Client : d # c => old'[d] = old[d]
      BY <1>1, <1>2, <2>3, MovesIs
    <3>2. BeforeImage'
      BY <3>1 DEF ValueInv, BeforeImage, Replayed, Changes
    <3>3. Unmixed' /\ BeginsFirst'
      BY <3>1 DEF ValueInv, Unmixed, BeginsFirst, Changes
    <3>4. WriteAhead'
      BY <1>1, <2>1, <3>1, MovedAhead
    <3>5. CleanCommitted'
      BY <2>1, <3>1, MovedClean
    <3>6. ASSUME NEW d \in Client PROVE ValueOK(d)'
      BY <2>1, <3>1, MovedOwn, MovedOthers
    <3> QED BY <1>1, <3>2, <3>3, <3>4, <3>5, <3>6 DEF ValueInv
  <2> QED BY <2>2, <2>3
<1>3. CASE CkptBegin \/ CkptLog
  BY <1>1, <1>3, CheckpointValue
<1>4. CASE UNCHANGED vars
  BY <1>1, <1>4, StandsStill
<1> QED BY <1>2, <1>3, <1>4 DEF Next

LEMMA ValueInvAlways == Spec => []ValueInv
BY ValueInvInit, ValueInvNext, PTL DEF Spec

\* A committed value is one the hash table may hold.
LEMMA CommittedType ==
  ASSUME TypeOK, NEW k \in Key
  PROVE  Committed(log)[k] \in HtValue
<1> DEFINE wins == UpdatesOf(log, Winners(log), k)
<1>1. log \in Seq(Record)
  BY DEF TypeOK
<1>2. CASE wins = {}
  BY <1>1, <1>2, CommittedIs DEF HtValue
<1>3. CASE wins # {}
  <2>1. PICK m \in wins : IsLargest(wins, m)
    BY <1>1, <1>3, CommittedIs
  <2>2. log[m] \in Record
    BY LogIsSeq DEF UpdatesOf
  <2>3. Committed(log)[k] = FromLog(log[m].new)
    BY <1>1, <2>1, CommittedIs
  <2> QED BY <2>2, <2>3, LogValues DEF Record
<1> QED BY <1>2, <1>3

\* When nobody stores the zero-length value, the log tells the values of the
\* hash table apart.
LEMMA BackAndThere ==
  ASSUME Empty \notin Value
  PROVE  /\ \A x \in HtValue : FromLog(ToLog(x)) = x
         /\ \A x, y \in HtValue : ToLog(x) = ToLog(y) => x = y
BY LogConstants DEF ToLog, FromLog, HtValue

(***************************************************************************)
(* The theorems.                                                           *)
(***************************************************************************)

\* The old value that an UPDATE or CLR record carries is the one the log had
\* for the key, though it was read before the record was written and outside
\* lsn_lock.
THEOREM BeforeImages == Spec => []BeforeImage
<1>1. ValueInv => BeforeImage
  BY DEF ValueInv
<1> QED BY <1>1, ValueInvAlways, PTL

\* The hash table is the log replayed, but for the changes that are logged and
\* not yet made.
THEOREM LogIsAhead == Spec => []WriteAhead
<1>1. ValueInv => WriteAhead
  BY DEF ValueInv
<1> QED BY <1>1, ValueInvAlways, PTL

\* A key has its last committed value unless the transaction that logged an
\* update of it still holds its lock.  Nobody may store the zero-length value:
\* its before-image is logged as that of an absent key, and a rollback deletes
\* the key.
THEOREM DirtyUnderLock ==
  ASSUME Empty \notin Value
  PROVE  Spec => []DirtyOnlyUnderLock
<1>1. ValueInv => DirtyOnlyUnderLock
  <2> SUFFICES ASSUME ValueInv, NEW k \in Key, ht[k] # Committed(log)[k]
               PROVE  \E c \in Client :
                        owner[StripeOf[k]] = c /\ UpdatesOf(log, {txid[c]}, k) # {}
    BY DEF DirtyOnlyUnderLock
  <2>1. TxnInv /\ TypeOK /\ ht[k] \in HtValue /\ log \in Seq(Record)
    BY DEF ValueInv, TxnInv, LockInv, TypeOK
  <2>2. Committed(log)[k] \in HtValue
    BY <2>1, CommittedType
  <2>3. \A x, y \in HtValue : ToLog(x) = ToLog(y) => x = y
    BY BackAndThere
  <2>4. CASE \E d \in Client : Pending(d, k)
    <3>1. PICK d \in Client : Pending(d, k)
      BY <2>4
    <3>2. owner[StripeOf[k]] = d
      BY <2>1, <3>1, OwnsLock
    <3>3. UpdatesOf(log, {txid[d]}, k) # {}
      <4>1. CASE pc[d] \in {"set_update", "apply"}
        BY <2>1, <3>1, <4>1 DEF TxnInv, ClientOK, WritesOwned, Pending, UpdatesOf
      <4>2. CASE pc[d] \in {"set_clr", "undo_apply"}
        BY <2>1, <3>1, <4>2, UndoingIs DEF Pending, Own, Undoes
      <4> QED BY <3>1, <4>1, <4>2 DEF Pending
    <3> QED BY <3>2, <3>3
  <2>5. CASE ~\E d \in Client : Pending(d, k)
    <3>1. ToLog(ht[k]) = Now(k)
      BY <2>5 DEF ValueInv, WriteAhead, Now
    <3>2. PICK d \in Client : Dirty(d) /\ Own(d, k) # {}
      BY <2>1, <2>2, <2>3, <3>1 DEF ValueInv, CleanCommitted
    <3>3. owner[StripeOf[k]] = d
      BY <2>1, <3>2, OwnsLock DEF Dirty
    <3> QED BY <3>2, <3>3 DEF Own
  <2> QED BY <2>4, <2>5
<1> QED BY <1>1, ValueInvAlways, PTL
=============================================================================
