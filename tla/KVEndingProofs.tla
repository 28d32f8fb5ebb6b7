-------------------------- MODULE KVEndingProofs --------------------------
(***************************************************************************)
(* How transactions end: what a rollback has compensated when it logs END, *)
(* and which transactions a checkpoint finds unfinished.  For every set of *)
(* clients, keys, values and locks and every bound.                        *)
(***************************************************************************)
EXTENDS KVValueProofs, FiniteSetTheorems

USE DEF vars, logVars, lockVars

(***************************************************************************)
(* The inductive invariant.                                                *)
(***************************************************************************)

\* Record r is the compensation of the update that record v logs.
Compensates(r, v) ==
  /\ r.type = "CLR" /\ r.tx = v.tx /\ r.key = v.key
  /\ r.new = v.old /\ r.undo_next = v.prev

ClrsOf(l, u) == {i \in DOMAIN l : Compensates(l[i], l[u])}

One(S) == \E x : S = {x}

IsUpdate(l, u, tx) == u \in DOMAIN l /\ l[u].type = "UPDATE" /\ l[u].tx = tx

\* A rollback has compensated each update behind its cursor once, and none of
\* those before it.
Compensated(c) ==
  Undoes(c) => \A u : IsUpdate(log, u, txid[c]) =>
    IF cursor[c] < u \/ (cursor[c] = u /\ pc[c] # "rollback")
    THEN One(ClrsOf(log, u))
    ELSE ClrsOf(log, u) = {}

\* END is its transaction's last record; each of its updates is compensated.
EndsUndone ==
  \A i \in DOMAIN log : log[i].type = "END" =>
    /\ log[i].tx # 0
    /\ \A j \in DOMAIN log : log[j].tx = log[i].tx => j <= i
    /\ \A c \in Client : txid[c] = log[i].tx => pc[c] \in {"set_end", "unlock"}
    /\ \A u : IsUpdate(log, u, log[i].tx) => One(ClrsOf(log, u))

Finished(l, tx) == \E i \in DOMAIN l : l[i].tx = tx /\ l[i].type \in {"COMMIT", "END"}

\* A client with a transaction is in tx_list.
Listed(c) == txid[c] # 0 => \E n \in 1 .. Len(tx_list) : tx_list[n] = c

\* In the window before kv_tx_set_last_lsn, last_lsn is one record late.
OneLate(c) == pc[c] \in Setting => log[new_lsn[c]].prev = last_lsn[c]

\* A transaction that releases its locks has logged its end.
HasEnded(c) == pc[c] \in {"set_commit", "set_end", "unlock"} => Finished(log, txid[c])

EndingOK(c) == Compensated(c) /\ Listed(c) /\ OneLate(c) /\ HasEnded(c)

\* A transaction that has records and no end is some client's.
UnfinishedHeld ==
  \A i \in DOMAIN log : log[i].tx # 0 /\ ~Finished(log, log[i].tx) =>
    \E c \in Client : txid[c] = log[i].tx

\* The checkpoint with index i of log l lists every transaction that has records
\* before it and no end, with its last record or the one before that.
ListsUnfinished(l, i) ==
  \A j \in 1 .. i - 1 :
    /\ l[j].tx # 0
    /\ \A m \in 1 .. i - 1 : l[m].tx = l[j].tx => l[m].type \notin {"COMMIT", "END"}
    => \E n \in DOMAIN l[i].list : \E z \in 1 .. i - 1 :
         /\ l[i].list[n].tx_id = l[j].tx
         /\ IsLargest({m \in 1 .. i - 1 : l[m].tx = l[j].tx}, z)
         /\ l[i].list[n].last_lsn \in {z, l[z].prev}

AllListed == \A i \in DOMAIN log : log[i].type = "CHECK" => ListsUnfinished(log, i)

EndInv ==
  /\ ValueInv /\ EndsUndone /\ UnfinishedHeld /\ AllListed
  /\ \A c \in Client : EndingOK(c)

(***************************************************************************)
(* Lemmas.                                                                 *)
(***************************************************************************)

\* Two records of a transaction have different prev_lsn.
LEMMA PrevsDiffer ==
  ASSUME TxnInv, NEW u \in DOMAIN log, NEW w \in DOMAIN log, u # w,
         log[u].tx = log[w].tx, log[u].tx # 0
  PROVE  log[u].prev # log[w].prev
<1>1. /\ DOMAIN log = 1 .. Len(log) /\ Len(log) \in Nat
      /\ RecordOK(u) /\ RecordOK(w)
  BY LogIsSeq DEF TxnInv, LockInv, LogOK
<1>2. /\ log[u].prev \in 0 .. u - 1 /\ log[w].prev \in 0 .. w - 1
      /\ u < w => u <= log[w].prev
      /\ w < u => w <= log[u].prev
  BY <1>1 DEF RecordOK
<1> QED BY <1>1, <1>2

\* What one more record adds to the compensations of an update.
LEMMA ClrsAppended ==
  ASSUME TypeOK, NEW r \in Record, log' = Append(log, r), NEW u \in DOMAIN log
  PROVE  /\ ~Compensates(r, log[u]) => ClrsOf(log', u) = ClrsOf(log, u)
         /\ Compensates(r, log[u]) => ClrsOf(log', u) = ClrsOf(log, u) \cup {Len(log) + 1}
<1>1. PICK n \in Nat : n = Len(log) + 1
  BY LogIsSeq
<1>2. /\ DOMAIN log' = 1 .. n /\ DOMAIN log = 1 .. n - 1 /\ n - 1 \in Nat
      /\ \A i \in 1 .. n - 1 : log'[i] = log[i]
      /\ log'[n] = r
  BY <1>1, Appended, LogIsSeq
<1>3. log'[u] = log[u]
  BY <1>2
<1>4. ASSUME NEW i PROVE i \in ClrsOf(log', u) <=> i \in ClrsOf(log, u) \/ (i = n /\ Compensates(r, log[u]))
  <2> HIDE DEF Compensates
  <2> QED BY <1>2, <1>3 DEF ClrsOf
<1> HIDE DEF ClrsOf, Compensates
<1> QED BY <1>1, <1>4

\* kv_ll_del leaves the other elements in the list.
LEMMA OthersStayListed ==
  ASSUME NEW S, NEW s \in Seq(S), NEW e \in S, NEW d \in S, d # e,
         \E n \in 1 .. Len(s) : s[n] = d
  PROVE  \E m \in 1 .. Len(RemoveFirst(s, e)) : RemoveFirst(s, e)[m] = d
<1>0. PICK n \in 1 .. Len(s) : s[n] = d
  OBVIOUS
<1>1. CASE \E i \in 1 .. Len(s) : s[i] = e
  <2> DEFINE I == {i \in 1 .. Len(s) : s[i] = e}
             k == SelectInSeq(s, LAMBDA v : v = e)
  <2>1. k \in 1 .. Len(s) /\ s[k] = e
    <3>1. k = Min(I)
      BY <1>1 DEF SelectInSeq
    <3>2. I \in SUBSET Nat /\ I # {}
      BY <1>1
    <3>3. Min(I) \in I
      <4> HIDE DEF I
      <4> QED BY <3>2, MinType
    <3> HIDE DEF k
    <3> QED BY <3>1, <3>3
  <2> HIDE DEF k
  <2> DEFINE front == SubSeq(s, 1, k - 1)
             back == SubSeq(s, k + 1, Len(s))
  <2>2. /\ Len(s) \in Nat
        /\ front \in Seq(S) /\ Len(front) = k - 1
        /\ \A i \in 1 .. k - 1 : front[i] = s[i]
        /\ back \in Seq(S) /\ Len(back) = Len(s) - k
        /\ \A i \in 1 .. Len(s) - k : back[i] = s[k + i]
    <3>1. Len(s) \in Nat
      BY LenProperties
    <3>2. \A i \in 1 .. Len(s) : s[i] \in S
      BY ElementOfSeq
    <3> QED BY <2>1, <3>1, <3>2, SubSeqProperties
  <2> HIDE DEF front, back
  <2>3. /\ Len(front \o back) = Len(s) - 1
        /\ \A i \in 1 .. k - 1 : (front \o back)[i] = s[i]
        /\ \A i \in k .. Len(s) - 1 : (front \o back)[i] = s[i + 1]
    <3>1. /\ Len(front \o back) = Len(front) + Len(back)
          /\ \A i \in 1 .. Len(front) + Len(back) :
               (front \o back)[i] = IF i <= Len(front) THEN front[i] ELSE back[i - Len(front)]
      BY <2>2, ConcatProperties
    <3>2. ASSUME NEW i \in k .. Len(s) - 1 PROVE (front \o back)[i] = s[i + 1]
      <4>1. i \in 1 .. Len(front) + Len(back) /\ ~(i <= Len(front))
        BY <2>1, <2>2
      <4>2. i - Len(front) \in 1 .. Len(s) - k /\ k + (i - Len(front)) = i + 1
        BY <2>1, <2>2
      <4> QED BY <2>2, <3>1, <4>1, <4>2
    <3> QED BY <2>1, <2>2, <3>1, <3>2
  <2>4. RemoveFirst(s, e) = front \o back
    BY <1>1 DEF RemoveFirst, RemoveAt, k, front, back
  <2>5. CASE n < k
    <3>1. n \in 1 .. k - 1 /\ n \in 1 .. Len(s) - 1
      BY <2>1, <2>2, <2>5
    <3> QED BY <1>0, <2>3, <2>4, <3>1
  <2>6. CASE k < n
    <3>1. n - 1 \in k .. Len(s) - 1 /\ n - 1 \in 1 .. Len(s) - 1 /\ n - 1 + 1 = n
      BY <2>1, <2>2, <2>6
    <3> QED BY <1>0, <2>3, <2>4, <3>1
  <2> QED BY <1>0, <2>1, <2>2, <2>5, <2>6
<1>2. CASE ~ \E i \in 1 .. Len(s) : s[i] = e
  BY <1>0, <1>2 DEF RemoveFirst
<1> QED BY <1>1, <1>2

\* A step of somebody else leaves d's part of the invariant.
LEMMA OthersEnding ==
  ASSUME TxnInv, NEW d \in Client, EndingOK(d), Frame(d),
         \/ log' = log
         \/ \E r \in Record : log' = Append(log, r) /\ (txid[d] # 0 => r.tx # txid[d]),
         Listed(d)'
  PROVE  EndingOK(d)'
<1>1. TypeOK /\ ThreadOK /\ LastKnown(d)
  BY DEF TxnInv, LockInv, ClientOK
<1>2. UNCHANGED <<pc[d], txid[d], last_lsn[d], new_lsn[d], cursor[d]>>
  BY DEF Frame
<1> HIDE DEF Frame
<1>3. /\ DOMAIN log = 1 .. Len(log) /\ Len(log) \in Nat
      /\ DOMAIN log \subseteq DOMAIN log'
      /\ \A i \in DOMAIN log : log'[i] = log[i]
  BY <1>1, LogIsSeq, Appended
<1>4. Compensated(d)'
  <2> SUFFICES ASSUME Undoes(d), NEW u, IsUpdate(log', u, txid[d])
               PROVE  IsUpdate(log, u, txid[d]) /\ ClrsOf(log', u) = ClrsOf(log, u)
    <3>1. Undoes(d)' = Undoes(d)
      BY <1>2 DEF Undoes
    <3> QED BY <1>2, <3>1 DEF EndingOK, Compensated
  <2>1. txid[d] # 0
    BY <1>1 DEF Undoes, ThreadOK
  <2>2. CASE log' = log
    BY <2>2
  <2>3. CASE log' # log
    <3>1. PICK r \in Record : log' = Append(log, r) /\ r.tx # txid[d]
      BY <2>1, <2>3
    <3>2. DOMAIN log' = 1 .. Len(log) + 1 /\ log'[Len(log) + 1] = r
      BY <1>1, <3>1, Appended
    <3>3. IsUpdate(log, u, txid[d])
      <4>1. u \in DOMAIN log' /\ u # Len(log) + 1
        BY <3>1, <3>2 DEF IsUpdate
      <4>2. u \in DOMAIN log
        BY <1>3, <3>2, <4>1
      <4> QED BY <1>3, <4>2 DEF IsUpdate
    <3>4. ~Compensates(r, log[u])
      BY <3>1, <3>3 DEF IsUpdate, Compensates
    <3> QED BY <1>1, <3>1, <3>3, <3>4, ClrsAppended DEF IsUpdate
  <2> QED BY <2>2, <2>3
<1>5. OneLate(d)'
  <2> SUFFICES ASSUME pc[d] \in Setting PROVE log'[new_lsn[d]].prev = last_lsn[d]
    BY <1>2 DEF OneLate
  <2>1. txid[d] # 0
    BY <1>1 DEF ThreadOK, Setting
  <2>2. new_lsn[d] \in DOMAIN log
    BY <1>1, <1>3, <2>1 DEF LastKnown, IsLast
  <2> QED BY <1>3, <2>2 DEF EndingOK, OneLate
<1>6. HasEnded(d)'
  <2> SUFFICES ASSUME pc[d] \in {"set_commit", "set_end", "unlock"} PROVE Finished(log', txid[d])
    BY <1>2 DEF HasEnded
  <2> QED BY <1>3 DEF EndingOK, HasEnded, Finished
<1> QED BY <1>4, <1>5, <1>6 DEF EndingOK

(***************************************************************************)
(* A client's logging steps.                                               *)
(***************************************************************************)

\* The log with record r appended as line n.
Grown(r, n) ==
  /\ n \in Nat /\ n - 1 \in Nat /\ n - 1 = Len(log) /\ n = Len(log) + 1
  /\ DOMAIN log = 1 .. n - 1 /\ DOMAIN log' = 1 .. n
  /\ \A i \in 1 .. n - 1 : log'[i] = log[i]
  /\ log'[n] = r

LEMMA GrownIs ==
  ASSUME TypeOK, NEW r \in Record, log' = Append(log, r)
  PROVE  \E n : Grown(r, n)
<1>1. PICK n \in Nat : n = Len(log) + 1
  BY LogIsSeq
<1> QED BY <1>1, Appended, LogIsSeq DEF Grown

\* The updates of a log grown by another record are those it had.
LEMMA UpdatesGrown ==
  ASSUME TypeOK, NEW r \in Record, NEW n, Grown(r, n), NEW tx, r.tx # tx \/ r.type # "UPDATE",
         NEW u, IsUpdate(log', u, tx)
  PROVE  IsUpdate(log, u, tx) /\ u \in 1 .. n - 1
<1>1. u \in 1 .. n /\ u # n
  BY DEF IsUpdate, Grown
<1>2. u \in 1 .. n - 1
  BY <1>1 DEF Grown
<1> QED BY <1>2 DEF IsUpdate, Grown

LEMMA LoggedEnds ==
  ASSUME EndInv, NEW c \in Client, NEW r \in Record, LogStep(c, r),
         \A d \in Client : d # c => Frame(d)
  PROVE  EndsUndone'
<1>1. /\ TypeOK /\ TxnInv /\ LogOK /\ log' = Append(log, r) /\ r.tx = txid[c] /\ txid[c] # 0
      /\ \A d \in Client : txid'[d] = txid[d]
  BY DEF EndInv, ValueInv, TxnInv, LockInv, LogStep
<1>2. PICK n : Grown(r, n)
  BY <1>1, GrownIs
<1>3. ASSUME r.type = "END"
      PROVE  /\ \A d \in Client : txid'[d] = r.tx => pc'[d] \in {"set_end", "unlock"}
             /\ \A u : IsUpdate(log', u, r.tx) => One(ClrsOf(log', u))
  <2>1. /\ pc[c] = "rollback" /\ pc'[c] = "set_end" /\ log[cursor[c]].type = "BEGIN"
    BY <1>3 DEF LogStep, Appends
  <2>2. \A d \in Client : txid'[d] = r.tx => pc'[d] \in {"set_end", "unlock"}
    BY <1>1, <2>1 DEF TxnInv, TxIds
  <2>3. ASSUME NEW u, IsUpdate(log', u, r.tx) PROVE One(ClrsOf(log', u))
    <3>1. IsUpdate(log, u, txid[c]) /\ u \in 1 .. n - 1
      BY <1>1, <1>2, <1>3, <2>3, UpdatesGrown
    <3>2. cursor[c] \in 1 .. n - 1 /\ log[cursor[c]].tx = txid[c]
      BY <1>1, <1>2, <2>1, UndoingIs DEF Undoes, Grown
    <3>3. log[cursor[c]].prev = 0
      BY <1>2, <2>1, <3>2 DEF EndInv, ValueInv, BeginsFirst, Grown
    <3>4. u <= cursor[c] => u = cursor[c]
      <4>1. RecordOK(cursor[c])
        BY <1>1, <1>2, <3>2 DEF LogOK, Grown
      <4> QED BY <1>1, <1>2, <3>1, <3>2, <3>3, <4>1 DEF RecordOK, IsUpdate, Grown
    <3>5. cursor[c] < u
      BY <1>2, <2>1, <3>1, <3>2, <3>4 DEF IsUpdate, Grown
    <3>6. One(ClrsOf(log, u))
      BY <2>1, <3>1, <3>5 DEF EndInv, EndingOK, Compensated, Undoes
    <3>7. ~Compensates(r, log[u])
      BY <1>3 DEF Compensates
    <3> QED BY <1>1, <3>1, <3>6, <3>7, ClrsAppended DEF IsUpdate
  <2> QED BY <2>2, <2>3
<1>4. ASSUME NEW i \in 1 .. n - 1, log[i].type = "END"
      PROVE  /\ log[i].tx # 0 /\ r.tx # log[i].tx
             /\ \A j \in 1 .. n - 1 : log[j].tx = log[i].tx => j <= i
             /\ \A d \in Client : txid'[d] = log[i].tx => pc'[d] \in {"set_end", "unlock"}
             /\ \A u : IsUpdate(log', u, log[i].tx) => One(ClrsOf(log', u))
  <2>1. /\ log[i].tx # 0
        /\ \A j \in 1 .. n - 1 : log[j].tx = log[i].tx => j <= i
        /\ \A d \in Client : txid[d] = log[i].tx => pc[d] \in {"set_end", "unlock"}
        /\ \A u : IsUpdate(log, u, log[i].tx) => One(ClrsOf(log, u))
    BY <1>2, <1>4 DEF EndInv, EndsUndone, Grown
  <2>2. pc[c] \notin {"set_end", "unlock"}
    BY DEF LogStep, Appends
  <2>3. r.tx # log[i].tx
    BY <1>1, <2>1, <2>2
  <2>4. \A d \in Client : txid'[d] = log[i].tx => pc'[d] \in {"set_end", "unlock"}
    BY <1>1, <2>1, <2>3 DEF Frame
  <2>5. ASSUME NEW u, IsUpdate(log', u, log[i].tx) PROVE One(ClrsOf(log', u))
    <3>1. IsUpdate(log, u, log[i].tx)
      BY <1>1, <1>2, <2>3, <2>5, UpdatesGrown
    <3>2. ~Compensates(r, log[u])
      BY <2>3, <3>1 DEF Compensates, IsUpdate
    <3> QED BY <1>1, <2>1, <3>1, <3>2, ClrsAppended DEF IsUpdate
  <2> QED BY <2>1, <2>3, <2>4, <2>5
<1>5. ASSUME NEW i \in DOMAIN log', log'[i].type = "END"
      PROVE  /\ log'[i].tx # 0
             /\ \A j \in DOMAIN log' : log'[j].tx = log'[i].tx => j <= i
             /\ \A d \in Client : txid'[d] = log'[i].tx => pc'[d] \in {"set_end", "unlock"}
             /\ \A u : IsUpdate(log', u, log'[i].tx) => One(ClrsOf(log', u))
  <2>1. CASE i = n
    <3>1. log'[i] = r /\ r.type = "END"
      BY <1>2, <1>5, <2>1 DEF Grown
    <3>2. \A j \in DOMAIN log' : j <= i
      BY <1>2, <2>1 DEF Grown
    <3> QED BY <1>1, <1>3, <3>1, <3>2
  <2>2. CASE i \in 1 .. n - 1
    <3>1. log'[i] = log[i] /\ log[i].type = "END"
      BY <1>2, <1>5, <2>2 DEF Grown
    <3>2. ASSUME NEW j \in DOMAIN log', log'[j].tx = log[i].tx PROVE j <= i
      <4>1. j # n
        BY <1>2, <1>4, <2>2, <3>1, <3>2 DEF Grown
      <4>2. j \in 1 .. n - 1 /\ log'[j] = log[j]
        BY <1>2, <4>1 DEF Grown
      <4> QED BY <1>4, <2>2, <3>1, <3>2, <4>2
    <3> QED BY <1>4, <2>2, <3>1, <3>2
  <2> QED BY <1>2, <2>1, <2>2 DEF Grown
<1> QED BY <1>5 DEF EndsUndone

LEMMA LoggedOwnEnding ==
  ASSUME EndInv, NEW c \in Client, NEW r \in Record, LogStep(c, r)
  PROVE  EndingOK(c)'
<1>1. /\ TypeOK /\ TxnInv /\ LogOK /\ log' = Append(log, r) /\ r.tx = txid[c]
      /\ r.prev = last_lsn[c] /\ UNCHANGED <<txid, last_lsn, tx_list>>
      /\ new_lsn'[c] = lsn + 1
      /\ EndingOK(c)
  BY DEF EndInv, ValueInv, TxnInv, LockInv, LogStep
<1>2. PICK n : Grown(r, n)
  BY <1>1, GrownIs
<1>3. new_lsn'[c] = n
  BY <1>1, <1>2 DEF LogOK, Grown
<1>4. Compensated(c)'
  <2> SUFFICES ASSUME Undoes(c)', NEW u, IsUpdate(log', u, txid[c])
               PROVE  IF cursor'[c] < u \/ (cursor'[c] = u /\ pc'[c] # "rollback")
                      THEN One(ClrsOf(log', u))
                      ELSE ClrsOf(log', u) = {}
    BY <1>1 DEF Compensated
  <2>1. /\ pc[c] = "rollback" /\ pc'[c] = "set_clr" /\ cursor'[c] = cursor[c] /\ r.type = "CLR"
        /\ r.key = log[cursor[c]].key /\ r.undo_next = log[cursor[c]].prev
        /\ r.new = log[cursor[c]].old
    BY DEF Undoes, LogStep, Appends, Setting
  <2>2. IsUpdate(log, u, txid[c]) /\ u \in 1 .. n - 1
    BY <1>1, <1>2, <2>1, UpdatesGrown
  <2>3. /\ cursor[c] \in DOMAIN log /\ cursor[c] \in 1 .. Len(log)
        /\ log[cursor[c]].tx = txid[c] /\ txid[c] # 0
    BY <1>1, <2>1, UndoingIs DEF Undoes
  <2>4. IF cursor[c] < u THEN One(ClrsOf(log, u)) ELSE ClrsOf(log, u) = {}
    BY <1>1, <2>1, <2>2 DEF EndingOK, Compensated, Undoes
  <2>5. CASE u = cursor[c]
    <3>1. Compensates(r, log[u])
      BY <1>1, <2>1, <2>3, <2>5 DEF Compensates
    <3>2. ClrsOf(log, u) = {}
      BY <2>3, <2>4, <2>5
    <3>3. ClrsOf(log', u) = {Len(log) + 1}
      BY <1>1, <2>3, <2>5, <3>1, <3>2, ClrsAppended
    <3> QED BY <2>1, <2>5, <3>3 DEF One
  <2>6. CASE u # cursor[c]
    <3>1. log[u].prev # log[cursor[c]].prev
      BY <1>1, <2>2, <2>3, <2>6, PrevsDiffer DEF IsUpdate
    <3>2. ~Compensates(r, log[u])
      BY <2>1, <3>1 DEF Compensates
    <3>3. ClrsOf(log', u) = ClrsOf(log, u)
      BY <1>1, <2>2, <3>2, ClrsAppended DEF IsUpdate
    <3> QED BY <2>1, <2>4, <2>6, <3>3
  <2> QED BY <2>5, <2>6
<1>5. Listed(c)'
  BY <1>1 DEF EndingOK, Listed
<1>6. OneLate(c)'
  BY <1>1, <1>2, <1>3 DEF OneLate, Grown
<1>7. HasEnded(c)'
  <2> SUFFICES ASSUME pc'[c] \in {"set_commit", "set_end", "unlock"} PROVE Finished(log', txid[c])
    BY <1>1 DEF HasEnded
  <2>1. r.type \in {"COMMIT", "END"}
    BY DEF LogStep, Appends, Setting
  <2>2. n \in DOMAIN log' /\ log'[n] = r
    BY <1>2 DEF Grown
  <2> QED BY <1>1, <2>1, <2>2 DEF Finished
<1> QED BY <1>4, <1>5, <1>6, <1>7 DEF EndingOK

LEMMA LoggedUnfinished ==
  ASSUME EndInv, NEW r \in Record, log' = Append(log, r), txid' = txid,
         r.tx # 0 => \E c \in Client : txid[c] = r.tx
  PROVE  UnfinishedHeld'
<1>1. TypeOK
  BY DEF EndInv, ValueInv, TxnInv, LockInv
<1>2. PICK n : Grown(r, n)
  BY <1>1, GrownIs
<1>3. ASSUME NEW i \in DOMAIN log', log'[i].tx # 0, ~Finished(log', log'[i].tx)
      PROVE  \E c \in Client : txid'[c] = log'[i].tx
  <2>1. CASE i = n
    BY <1>2, <1>3, <2>1 DEF Grown
  <2>2. CASE i \in 1 .. n - 1
    <3>1. i \in DOMAIN log /\ log'[i] = log[i]
      BY <1>2, <2>2 DEF Grown
    <3>2. ~Finished(log, log[i].tx)
      BY <1>2, <1>3, <3>1 DEF Finished, Grown
    <3> QED BY <1>3, <3>1, <3>2 DEF EndInv, UnfinishedHeld
  <2> QED BY <1>2, <2>1, <2>2 DEF Grown
<1> QED BY <1>3 DEF UnfinishedHeld

\* What a checkpoint lists is of the records before it.
LEMMA ListsKept ==
  ASSUME NEW l, NEW m, NEW i \in Nat, \A x \in 1 .. i : m[x] = l[x], i > 0, ListsUnfinished(l, i)
  PROVE  ListsUnfinished(m, i)
<1>1. m[i] = l[i] /\ \A x \in 1 .. i - 1 : m[x] = l[x]
  OBVIOUS
<1>2. ASSUME NEW j \in 1 .. i - 1
      PROVE  {x \in 1 .. i - 1 : m[x].tx = m[j].tx} = {x \in 1 .. i - 1 : l[x].tx = l[j].tx}
  BY <1>1
<1> QED BY SMTT(60), <1>1, <1>2 DEF ListsUnfinished

LEMMA LoggedListed ==
  ASSUME EndInv, NEW r \in Record, log' = Append(log, r),
         r.type = "CHECK" => ListsUnfinished(log', Len(log) + 1)
  PROVE  AllListed'
<1>1. TypeOK
  BY DEF EndInv, ValueInv, TxnInv, LockInv
<1>2. PICK n : Grown(r, n)
  BY <1>1, GrownIs
<1>3. ASSUME NEW i \in DOMAIN log', log'[i].type = "CHECK" PROVE ListsUnfinished(log', i)
  <2>1. CASE i = n
    BY <1>2, <1>3, <2>1 DEF Grown
  <2>2. CASE i \in 1 .. n - 1
    <3>1. i \in Nat /\ i > 0 /\ \A x \in 1 .. i : log'[x] = log[x]
      BY <1>2, <2>2 DEF Grown
    <3>2. ListsUnfinished(log, i)
      BY <1>2, <1>3, <2>2, <3>1 DEF EndInv, AllListed, Grown
    <3> QED BY <3>1, <3>2, ListsKept
  <2> QED BY <1>2, <2>1, <2>2 DEF Grown
<1> QED BY <1>3 DEF AllListed

(***************************************************************************)
(* A client's other steps.                                                 *)
(***************************************************************************)

\* What they do to tx_list.
MovesList(c) ==
  \/ tx_list' = tx_list /\ txid'[c] = txid[c]
  \/ tx_list' = Append(tx_list, c) /\ pc'[c] \in {"begin_log"}
  \/ /\ tx_list' = RemoveFirst(tx_list, c) /\ txid'[c] = 0
     /\ pc[c] = "unlock" /\ pc'[c] = "ready"

LEMMA MovesListIs ==
  ASSUME TxnInv, NEW c \in Client, Receiving(c) \/ Executing(c), ~Logging(c)
  PROVE  MovesList(c)
<1>0. pc \in [Client -> PC] /\ txid \in [Client -> Nat]
  BY DEF TxnInv, LockInv, TypeOK
<1>1. ASSUME Begin(c) PROVE MovesList(c)
  BY <1>0, <1>1 DEF Begin, StartTx, Goto, MovesList
<1>2. ASSUME NEW op, NEW k, NEW v, Receive(c, op, k, v) PROVE MovesList(c)
  BY <1>0, <1>2 DEF Receive, StartTx, Goto, MovesList
<1>3. ASSUME Leave(c) PROVE MovesList(c)
  BY <1>0, <1>3 DEF Leave, At, Goto, MovesList
<1>4. ASSUME \/ Disconnect(c) \/ SetLast(c) \/ Lock(c) \/ Reply(c) \/ Apply(c)
             \/ SkipRecord(c) \/ UndoApply(c) \/ Unlock(c)
      PROVE  MovesList(c)
  BY <1>4 DEF Disconnect, SetLast, Lock, Reply, Apply, SkipRecord, UndoApply, Unlock, MovesList
<1> QED BY <1>1, <1>2, <1>3, <1>4 DEF Receiving, Executing, Get, Set, Del

LEMMA MovedListed ==
  ASSUME EndInv, NEW c \in Client, MovesList(c), \A d \in Client : d # c => Frame(d),
         NEW d \in Client
  PROVE  Listed(d)'
<1> SUFFICES ASSUME txid'[d] # 0 PROVE \E n \in 1 .. Len(tx_list') : tx_list'[n] = d
  BY DEF Listed
<1>1. tx_list \in Seq(Client) /\ Len(tx_list) \in Nat /\ Listed(d)
  BY LenProperties DEF EndInv, EndingOK, ValueInv, TxnInv, LockInv, TypeOK
<1>2. d # c => txid'[d] = txid[d]
  BY DEF Frame
<1>3. CASE tx_list' = tx_list /\ txid'[c] = txid[c]
  BY <1>1, <1>2, <1>3 DEF Listed
<1>4. CASE tx_list' = Append(tx_list, c)
  <2>1. /\ Len(tx_list') = Len(tx_list) + 1
        /\ \A n \in 1 .. Len(tx_list) : tx_list'[n] = tx_list[n]
        /\ tx_list'[Len(tx_list) + 1] = c
    BY <1>1, <1>4, AppendProperties
  <2>2. CASE d = c
    <3>1. Len(tx_list) + 1 \in 1 .. Len(tx_list')
      BY <1>1, <2>1
    <3> QED BY <2>1, <2>2, <3>1
  <2>3. CASE d # c
    <3>1. PICK n \in 1 .. Len(tx_list) : tx_list[n] = d
      BY <1>1, <1>2, <2>3 DEF Listed
    <3>2. n \in 1 .. Len(tx_list')
      BY <1>1, <2>1
    <3> QED BY <2>1, <3>1, <3>2
  <2> QED BY <2>2, <2>3
<1>5. CASE tx_list' = RemoveFirst(tx_list, c) /\ txid'[c] = 0
  <2>1. d # c
    BY <1>5
  <2>2. PICK n \in 1 .. Len(tx_list) : tx_list[n] = d
    BY <1>1, <1>2, <2>1 DEF Listed
  <2>3. \E m \in 1 .. Len(RemoveFirst(tx_list, c)) : RemoveFirst(tx_list, c)[m] = d
    BY <1>1, <2>1, <2>2, OthersStayListed
  <2> QED BY <1>5, <2>3
<1> QED BY <1>3, <1>4, <1>5 DEF MovesList

LEMMA MovedOwnEnding ==
  ASSUME EndInv, NEW c \in Client, Moves(c), UNCHANGED <<log, lsn>>, Listed(c)'
  PROVE  EndingOK(c)'
<1>1. /\ TypeOK /\ TxnInv /\ LogOK /\ ThreadOK /\ ClientOK(c) /\ EndingOK(c) /\ ValueOK(c)
      /\ DOMAIN log = 1 .. Len(log) /\ Len(log) \in Nat
  BY LogIsSeq DEF EndInv, ValueInv, TxnInv, LockInv
<1>2. OneLate(c)'
  BY DEF Moves, OneLate, Setting
<1>3. HasEnded(c)'
  <2> SUFFICES ASSUME pc'[c] \in {"set_commit", "set_end", "unlock"}
               PROVE  txid'[c] = txid[c] /\ pc[c] \in {"set_commit", "set_end", "unlock"}
    BY <1>1 DEF HasEnded, EndingOK
  <2> QED BY DEF Moves
<1>4. Compensated(c)'
  <2> SUFFICES ASSUME Undoes(c)', NEW u, IsUpdate(log, u, txid'[c])
               PROVE  IF cursor'[c] < u \/ (cursor'[c] = u /\ pc'[c] # "rollback")
                      THEN One(ClrsOf(log, u))
                      ELSE ClrsOf(log, u) = {}
    BY DEF Compensated
  <2>1. /\ txid'[c] = txid[c]
        /\ \/ pc[c] = "set_abort" /\ pc'[c] = "rollback" /\ cursor'[c] = new_lsn[c]
           \/ pc[c] = "set_clr" /\ pc'[c] = "undo_apply" /\ cursor'[c] = cursor[c]
           \/ /\ Undoes(c) /\ pc'[c] = "rollback" /\ cursor'[c] = log[cursor[c]].prev
              /\ pc[c] = "rollback" => log[cursor[c]].type # "UPDATE"
    BY DEF Undoes, Moves
  <2>2. /\ u \in 1 .. Len(log) /\ log[u].tx = txid[c] /\ log[u].type = "UPDATE"
        /\ txid[c] # 0 /\ RecordOK(u)
    BY <1>1, <2>1 DEF IsUpdate, ThreadOK, LogOK, Undoes
  <2>3. CASE pc[c] = "set_abort"
    <3>1. ClrsOf(log, u) = {}
      <4>1. ASSUME NEW i \in ClrsOf(log, u) PROVE FALSE
        <5>1. i \in DOMAIN log /\ log[i].type = "CLR" /\ log[i].tx = txid[c]
          BY <2>2 DEF ClrsOf, Compensates
        <5> QED BY <1>1, <2>2, <2>3, <5>1 DEF ValueOK, LogsInOrder, Undoes
      <4> QED BY <4>1
    <3>2. /\ pc'[c] = "rollback" /\ cursor'[c] = new_lsn[c] /\ new_lsn[c] \in Nat
          /\ u <= new_lsn[c]
      BY <1>1, <2>1, <2>2, <2>3 DEF Undoes, ClientOK, LastKnown, IsLast, Setting
    <3> QED BY <2>2, <3>1, <3>2
  <2>4. CASE pc[c] = "set_clr" /\ pc'[c] = "undo_apply" /\ cursor'[c] = cursor[c]
    BY <1>1, <2>1, <2>4 DEF EndingOK, Compensated, Undoes
  <2>5. CASE Undoes(c) /\ pc'[c] = "rollback" /\ cursor'[c] = log[cursor[c]].prev
    <3>1. /\ cursor[c] \in 1 .. Len(log) /\ log[cursor[c]].tx = txid[c]
          /\ pc[c] # "rollback" => log[cursor[c]].type = "UPDATE"
      BY <1>1, <2>5, UndoingIs
    <3>2. RecordOK(cursor[c])
      BY <1>1, <3>1 DEF LogOK
    <3>3. /\ log[cursor[c]].prev \in 0 .. cursor[c] - 1
          /\ u < cursor[c] => u <= log[cursor[c]].prev
      BY <2>2, <3>1, <3>2 DEF RecordOK
    <3>4. IF cursor[c] < u \/ (cursor[c] = u /\ pc[c] # "rollback")
          THEN One(ClrsOf(log, u)) ELSE ClrsOf(log, u) = {}
      BY <1>1, <2>1, <2>5 DEF EndingOK, Compensated
    <3>5. cursor[c] = u => pc[c] # "rollback"
      BY <2>1, <2>2, <2>5 DEF Undoes
    <3>6. cursor'[c] < u <=> cursor[c] < u \/ cursor[c] = u
      BY <2>2, <2>5, <3>1, <3>3
    <3> QED BY <2>5, <3>4, <3>5, <3>6
  <2> QED BY <2>1, <2>3, <2>4, <2>5
<1> QED BY <1>2, <1>3, <1>4 DEF EndingOK

LEMMA MovedWhole ==
  ASSUME EndInv, NEW c \in Client, Moves(c), UNCHANGED <<log, lsn>>,
         \A d \in Client : d # c => Frame(d)
  PROVE  EndsUndone' /\ UnfinishedHeld' /\ AllListed'
<1>1. /\ LogOK /\ ThreadOK /\ transaction_id \in Nat
      /\ DOMAIN log = 1 .. Len(log) /\ \A i \in 1 .. Len(log) : log[i].tx \in Nat
  BY LogIsSeq DEF EndInv, ValueInv, TxnInv, LockInv, TypeOK
<1>2. \A i \in DOMAIN log : log[i].tx # transaction_id + 1
  BY <1>1 DEF LogOK, RecordOK
<1>3. EndsUndone'
  <2> SUFFICES ASSUME NEW i \in DOMAIN log, log[i].type = "END",
                      NEW d \in Client, txid'[d] = log[i].tx
               PROVE  pc'[d] \in {"set_end", "unlock"}
    BY DEF EndInv, EndsUndone
  <2>1. log[i].tx # 0 /\ \A e \in Client : txid[e] = log[i].tx => pc[e] \in {"set_end", "unlock"}
    BY DEF EndInv, EndsUndone
  <2>2. CASE d = c
    BY <1>2, <2>1, <2>2 DEF Moves
  <2>3. CASE d # c
    BY <2>1, <2>3 DEF Frame
  <2> QED BY <2>2, <2>3
<1>4. UnfinishedHeld'
  <2> SUFFICES ASSUME NEW i \in DOMAIN log, log[i].tx # 0, ~Finished(log, log[i].tx)
               PROVE  \E d \in Client : txid'[d] = log[i].tx
    BY DEF UnfinishedHeld
  <2>1. PICK d \in Client : txid[d] = log[i].tx
    BY DEF EndInv, UnfinishedHeld
  <2>2. CASE d = c
    <3>1. pc[c] # "unlock"
      BY <2>1, <2>2 DEF EndInv, EndingOK, HasEnded
    <3>2. txid'[c] = txid[c]
      BY <2>1, <2>2, <3>1 DEF Moves
    <3> QED BY <2>1, <2>2, <3>2
  <2>3. CASE d # c
    BY <2>1, <2>3 DEF Frame
  <2> QED BY <2>2, <2>3
<1>5. AllListed'
  BY DEF EndInv, AllListed
<1> QED BY <1>3, <1>4, <1>5

(***************************************************************************)
(* The checkpoint.                                                         *)
(***************************************************************************)

\* The list of a checkpoint is tx_list's, and behind it what is uninitialised.
LEMMA OngoingIs ==
  ASSUME TypeOK, NEW tail \in Uninitialised
  PROVE  /\ Len(tx_list) \in Nat
         /\ OngoingList \in Seq(Ongoing) /\ Len(OngoingList) = Len(tx_list)
         /\ tail \in Seq(Ongoing)
<1>1. ASSUME NEW i \in 1 .. Len(tx_list)
      PROVE  [tx_id |-> txid[tx_list[i]], last_lsn |-> last_lsn[tx_list[i]]] \in Ongoing
  <2>1. tx_list[i] \in Client
    BY ElementOfSeq DEF TypeOK
  <2> QED BY <2>1 DEF TypeOK, Ongoing
<1>2. Len(tx_list) \in Nat /\ ckpt.size \in Nat
  BY LenProperties DEF TypeOK
<1>3. OngoingList \in [1 .. Len(tx_list) -> Ongoing]
  BY <1>1 DEF OngoingList
<1>4. OngoingList \in Seq(Ongoing)
  BY <1>2, <1>3, SeqDef
<1>5. Len(OngoingList) = Len(tx_list)
  <2>1. DOMAIN OngoingList = 1 .. Len(OngoingList) /\ Len(OngoingList) \in Nat
    BY <1>4, LenProperties
  <2>2. DOMAIN OngoingList = 1 .. Len(tx_list)
    BY DEF OngoingList
  <2> QED BY <1>2, <2>1, <2>2
<1>6. tail \in Seq(Ongoing)
  BY <1>2, SeqDef, TxnConstants DEF Uninitialised
<1> QED BY <1>2, <1>4, <1>5, <1>6

\* The last record of an unfinished transaction when the checkpoint is logged,
\* and what the list says of it.
LEMMA CheckpointLists ==
  ASSUME EndInv, CkptLog, NEW tail \in Uninitialised,
         log' = Append(log, CheckRecord(lsn + 1, OngoingList \o tail))
  PROVE  ListsUnfinished(log', Len(log) + 1)
<1>1. TypeOK /\ TxnInv
  BY DEF EndInv, ValueInv, TxnInv, LockInv
<1> DEFINE r == CheckRecord(lsn + 1, OngoingList \o tail)
<1>2. r \in Record /\ r.list = OngoingList \o tail
  <2>1. lsn + 1 \in Nat /\ OngoingList \o tail \in Seq(Ongoing)
    BY <1>1, OngoingListType DEF TypeOK
  <2>2. r \in Record
    BY <2>1, CheckRecordType
  <2> QED BY <2>2 DEF CheckRecord
<1>3. log' = Append(log, r)
  OBVIOUS
<1> HIDE DEF r
<1>4. PICK n : Grown(r, n)
  BY <1>1, <1>2, <1>3, GrownIs
<1>5. ASSUME NEW j \in 1 .. n - 1, log[j].tx # 0,
             \A m \in 1 .. n - 1 : log[m].tx = log[j].tx => log[m].type \notin {"COMMIT", "END"}
      PROVE  \E q \in DOMAIN r.list : \E z \in 1 .. n - 1 :
               /\ r.list[q].tx_id = log[j].tx
               /\ IsLargest({m \in 1 .. n - 1 : log[m].tx = log[j].tx}, z)
               /\ r.list[q].last_lsn \in {z, log[z].prev}
  <2>1. j \in DOMAIN log /\ ~Finished(log, log[j].tx)
    BY <1>4, <1>5 DEF Finished, Grown
  <2>2. PICK c \in Client : txid[c] = log[j].tx
    BY <1>5, <2>1 DEF EndInv, UnfinishedHeld
  <2>3. EndingOK(c) /\ LastKnown(c)
    BY <1>1 DEF EndInv, TxnInv, ClientOK
  <2>4. PICK q \in 1 .. Len(tx_list) : tx_list[q] = c
    BY <1>5, <2>2, <2>3 DEF EndingOK, Listed
  <2>5. q \in DOMAIN r.list /\ r.list[q] = [tx_id |-> txid[c], last_lsn |-> last_lsn[c]]
    <3>1. /\ Len(tx_list) \in Nat
          /\ OngoingList \in Seq(Ongoing) /\ Len(OngoingList) = Len(tx_list)
          /\ tail \in Seq(Ongoing)
      BY <1>1, OngoingIs
    <3>2. OngoingList[q] = [tx_id |-> txid[c], last_lsn |-> last_lsn[c]]
      BY <2>4 DEF OngoingList
    <3>3. /\ OngoingList \o tail \in Seq(Ongoing)
          /\ Len(OngoingList \o tail) = Len(OngoingList) + Len(tail)
          /\ Len(tail) \in Nat
      BY <3>1, ConcatProperties, LenProperties
    <3>4. DOMAIN (OngoingList \o tail) = 1 .. Len(OngoingList) + Len(tail)
      BY <3>3, LenProperties
    <3>5. q \in 1 .. Len(OngoingList) + Len(tail) /\ q <= Len(OngoingList)
      BY <2>4, <3>1, <3>3
    <3>6. (OngoingList \o tail)[q] = OngoingList[q]
      BY <3>1, <3>5, ConcatProperties
    <3> QED BY <1>2, <3>2, <3>4, <3>5, <3>6
  <2>6. \E z \in 1 .. n - 1 :
          /\ IsLargest({m \in 1 .. n - 1 : log[m].tx = log[j].tx}, z)
          /\ last_lsn[c] \in {z, log[z].prev}
    <3>1. ASSUME NEW z, IsLast(log, z, txid[c])
          PROVE  z \in 1 .. n - 1 /\ IsLargest({m \in 1 .. n - 1 : log[m].tx = log[j].tx}, z)
      <4>1. z # 0 /\ z \in 1 .. n - 1
        BY <1>4, <1>5, <2>2, <3>1 DEF IsLast, Grown
      <4> QED BY <1>4, <2>2, <3>1, <4>1 DEF IsLast, IsLargest, Grown
    <3>2. CASE pc[c] \in Setting
      <4>1. IsLast(log, new_lsn[c], txid[c]) /\ log[new_lsn[c]].prev = last_lsn[c]
        BY <1>5, <2>2, <2>3, <3>2 DEF LastKnown, EndingOK, OneLate
      <4> QED BY <3>1, <4>1
    <3>3. CASE pc[c] \notin Setting
      <4>1. IsLast(log, last_lsn[c], txid[c])
        BY <1>5, <2>2, <2>3, <3>3 DEF LastKnown
      <4> QED BY <3>1, <4>1
    <3> QED BY <3>2, <3>3
  <2>7. r.list[q].tx_id = log[j].tx /\ r.list[q].last_lsn = last_lsn[c]
    BY <2>2, <2>5
  <2> QED BY <2>5, <2>6, <2>7
<1>6. log'[n] = r /\ \A i \in 1 .. n - 1 : log'[i] = log[i]
  BY <1>4 DEF Grown
<1>7. ListsUnfinished(log', n)
  <2> SUFFICES ASSUME NEW j \in 1 .. n - 1, log'[j].tx # 0,
                      \A m \in 1 .. n - 1 :
                        log'[m].tx = log'[j].tx => log'[m].type \notin {"COMMIT", "END"}
               PROVE  \E q \in DOMAIN log'[n].list : \E z \in 1 .. n - 1 :
                        /\ log'[n].list[q].tx_id = log'[j].tx
                        /\ IsLargest({m \in 1 .. n - 1 : log'[m].tx = log'[j].tx}, z)
                        /\ log'[n].list[q].last_lsn \in {z, log'[z].prev}
    BY DEF ListsUnfinished
  <2>1. {m \in 1 .. n - 1 : log'[m].tx = log'[j].tx} = {m \in 1 .. n - 1 : log[m].tx = log[j].tx}
    BY <1>6
  <2>2. log[j].tx # 0 /\ \A m \in 1 .. n - 1 :
          log[m].tx = log[j].tx => log[m].type \notin {"COMMIT", "END"}
    BY <1>6
  <2>3. PICK q \in DOMAIN r.list, z \in 1 .. n - 1 :
          /\ r.list[q].tx_id = log[j].tx
          /\ IsLargest({m \in 1 .. n - 1 : log[m].tx = log[j].tx}, z)
          /\ r.list[q].last_lsn \in {z, log[z].prev}
    BY <1>5, <2>2
  <2> QED BY <1>6, <2>1, <2>3
<1> QED BY <1>4, <1>7 DEF Grown

\* A checkpoint ends nothing and undoes nothing.
LEMMA CheckpointEnding ==
  ASSUME EndInv, CkptLog
  PROVE  EndsUndone' /\ UnfinishedHeld' /\ AllListed' /\ \A c \in Client : EndingOK(c)'
<1>1. TypeOK /\ TxnInv
  BY DEF EndInv, ValueInv, TxnInv, LockInv
<1>2. PICK tail \in Uninitialised : log' = Append(log, CheckRecord(lsn + 1, OngoingList \o tail))
  BY DEF CkptLog
<1>3. UNCHANGED <<pc, cmd, txid, last_lsn, new_lsn, cursor, owner, tx_list>>
  BY DEF CkptLog
<1>4. ListsUnfinished(log', Len(log) + 1)
  BY <1>2, CheckpointLists
<1> DEFINE r == CheckRecord(lsn + 1, OngoingList \o tail)
<1>5. r \in Record /\ r.tx = 0 /\ r.type = "CHECK" /\ log' = Append(log, r)
  <2>1. lsn + 1 \in Nat /\ OngoingList \o tail \in Seq(Ongoing)
    BY <1>1, OngoingListType DEF TypeOK
  <2>2. r \in Record
    BY <2>1, CheckRecordType
  <2> QED BY <1>2, <2>2 DEF CheckRecord
<1> HIDE DEF r
<1>6. PICK n : Grown(r, n)
  BY <1>1, <1>5, GrownIs
<1>7. EndsUndone'
  <2> SUFFICES ASSUME NEW i \in DOMAIN log', log'[i].type = "END"
               PROVE  /\ log'[i].tx # 0
                      /\ \A j \in DOMAIN log' : log'[j].tx = log'[i].tx => j <= i
                      /\ \A d \in Client : txid'[d] = log'[i].tx => pc'[d] \in {"set_end", "unlock"}
                      /\ \A u : IsUpdate(log', u, log'[i].tx) => One(ClrsOf(log', u))
    BY DEF EndsUndone
  <2>1. i \in 1 .. n - 1 /\ i \in DOMAIN log /\ log'[i] = log[i]
    BY <1>5, <1>6 DEF Grown
  <2>2. /\ log[i].tx # 0
        /\ \A j \in DOMAIN log : log[j].tx = log[i].tx => j <= i
        /\ \A d \in Client : txid[d] = log[i].tx => pc[d] \in {"set_end", "unlock"}
        /\ \A u : IsUpdate(log, u, log[i].tx) => One(ClrsOf(log, u))
    BY <2>1 DEF EndInv, EndsUndone
  <2>3. \A j \in DOMAIN log' : log'[j].tx = log[i].tx => j <= i
    BY <1>5, <1>6, <2>1, <2>2 DEF Grown
  <2>4. ASSUME NEW u, IsUpdate(log', u, log[i].tx) PROVE One(ClrsOf(log', u))
    <3>1. IsUpdate(log, u, log[i].tx)
      BY <1>1, <1>5, <1>6, <2>4, UpdatesGrown
    <3>2. ~Compensates(r, log[u])
      BY <1>5 DEF Compensates
    <3> QED BY <1>1, <1>5, <2>2, <3>1, <3>2, ClrsAppended DEF IsUpdate
  <2> QED BY <1>3, <2>1, <2>2, <2>3, <2>4
<1>8. UnfinishedHeld'
  BY <1>3, <1>5, LoggedUnfinished
<1>9. AllListed'
  BY <1>4, <1>5, LoggedListed
<1>10. ASSUME NEW d \in Client PROVE EndingOK(d)'
  <2>1. Frame(d)
    BY <1>3 DEF Frame
  <2>2. EndingOK(d) /\ Listed(d)'
    BY <1>3 DEF EndInv, EndingOK, Listed
  <2>3. \E x \in Record : log' = Append(log, x) /\ (txid[d] # 0 => x.tx # txid[d])
    BY <1>5
  <2> QED BY <1>1, <2>1, <2>2, <2>3, OthersEnding
<1> QED BY <1>7, <1>8, <1>9, <1>10

(***************************************************************************)
(* The invariant.                                                          *)
(***************************************************************************)
LEMMA EndInvInit == Init => EndInv
<1> SUFFICES ASSUME Init PROVE EndInv
  OBVIOUS
<1>1. DOMAIN log = {}
  BY EmptySeq DEF Init
<1>2. EndsUndone /\ UnfinishedHeld /\ AllListed
  BY <1>1 DEF EndsUndone, UnfinishedHeld, AllListed
<1>3. ASSUME NEW c \in Client PROVE EndingOK(c)
  BY DEF Init, NoThread, EndingOK, Compensated, Undoes, Listed, OneLate, HasEnded, Setting
<1> QED BY <1>2, <1>3, ValueInvInit DEF EndInv

LEMMA EndInvNext == EndInv /\ [Next]_vars => EndInv'
<1> SUFFICES ASSUME EndInv, [Next]_vars PROVE EndInv'
  OBVIOUS
<1>1. ValueInv' /\ TxnInv /\ LockInv
  BY ValueInvNext DEF EndInv, ValueInv, TxnInv
<1>2. ASSUME NEW c \in Client, Receiving(c) \/ Executing(c) PROVE EndInv'
  <2>1. \A d \in Client : d # c => Frame(d)
    BY <1>1, <1>2, FrameStep
  <2>2. CASE Logging(c)
    <3>1. PICK r \in Record : LogStep(c, r)
      BY <1>1, <2>2, LoggingIs
    <3>2. /\ log' = Append(log, r) /\ txid' = txid /\ tx_list' = tx_list /\ r.tx = txid[c]
          /\ r.type # "CHECK"
      BY <3>1 DEF LogStep, Appends
    <3>3. EndsUndone'
      BY <2>1, <3>1, LoggedEnds
    <3>4. UnfinishedHeld' /\ AllListed'
      BY <3>2, LoggedUnfinished, LoggedListed
    <3>5. EndingOK(c)'
      BY <3>1, LoggedOwnEnding
    <3>6. ASSUME NEW d \in Client, d # c PROVE EndingOK(d)'
      <4>1. EndingOK(d) /\ Listed(d)'
        BY <3>2 DEF EndInv, EndingOK, Listed
      <4>2. txid[d] # 0 => r.tx # txid[d]
        BY <1>1, <3>2, <3>6 DEF TxnInv, TxIds
      <4> QED BY <1>1, <2>1, <3>2, <3>6, <4>1, <4>2, OthersEnding
    <3> QED BY <1>1, <3>3, <3>4, <3>5, <3>6 DEF EndInv
  <2>3. CASE ~Logging(c)
    <3>1. Moves(c) /\ UNCHANGED <<log, lsn>>
      BY <1>1, <1>2, <2>3, MovesIs
    <3>2. MovesList(c)
      BY <1>1, <1>2, <2>3, MovesListIs
    <3>3. \A d \in Client : Listed(d)'
      BY <2>1, <3>2, MovedListed
    <3>4. EndsUndone' /\ UnfinishedHeld' /\ AllListed'
      BY <2>1, <3>1, MovedWhole
    <3>5. EndingOK(c)'
      BY <3>1, <3>3, MovedOwnEnding
    <3>6. ASSUME NEW d \in Client, d # c PROVE EndingOK(d)'
      <4>1. EndingOK(d)
        BY DEF EndInv
      <4> QED BY <1>1, <2>1, <3>1, <3>3, <3>6, <4>1, OthersEnding
    <3> QED BY <1>1, <3>4, <3>5, <3>6 DEF EndInv
  <2> QED BY <2>2, <2>3
<1>3. ASSUME UNCHANGED <<log, pc, txid, last_lsn, new_lsn, cursor, tx_list>> PROVE EndInv'
  <2>1. EndsUndone' /\ UnfinishedHeld' /\ AllListed'
    BY <1>3 DEF EndInv, EndsUndone, UnfinishedHeld, AllListed
  <2>2. ASSUME NEW d \in Client PROVE EndingOK(d)'
    <3>1. EndingOK(d)
      BY DEF EndInv
    <3> QED BY <1>3, <3>1 DEF EndingOK, Compensated, Undoes, Listed, OneLate, HasEnded
  <2> QED BY <1>1, <2>1, <2>2 DEF EndInv
<1>4. CASE CkptBegin \/ UNCHANGED vars
  BY <1>3, <1>4 DEF CkptBegin
<1>5. CASE CkptLog
  BY <1>1, <1>5, CheckpointEnding DEF EndInv
<1> QED BY <1>2, <1>4, <1>5 DEF Next

LEMMA EndInvAlways == Spec => []EndInv
BY EndInvInit, EndInvNext, PTL DEF Spec

(***************************************************************************)
(* The theorems.                                                           *)
(***************************************************************************)

\* A transaction that logged END has undone every one of its updates exactly
\* once, and each compensation points at the record to undo next.
THEOREM EndsRolledBack == Spec => []RolledBack
<1>1. EndInv => RolledBack
  <2> SUFFICES ASSUME EndInv, NEW i \in DOMAIN log, log[i].type = "END", NEW k \in Key,
                      NEW u \in UpdatesOf(log, {log[i].tx}, k)
               PROVE  Cardinality({r \in 1 .. i - 1 :
                        /\ log[r].type = "CLR" /\ log[r].tx = log[i].tx /\ log[r].key = k
                        /\ log[r].new = log[u].old /\ log[r].undo_next = log[u].prev}) = 1
    BY DEF RolledBack
  <2> DEFINE clrs == {r \in 1 .. i - 1 :
                        /\ log[r].type = "CLR" /\ log[r].tx = log[i].tx /\ log[r].key = k
                        /\ log[r].new = log[u].old /\ log[r].undo_next = log[u].prev}
  <2>1. IsUpdate(log, u, log[i].tx) /\ log[u].key = k
    BY DEF UpdatesOf, IsUpdate
  <2>2. One(ClrsOf(log, u)) /\ \A j \in DOMAIN log : log[j].tx = log[i].tx => j <= i
    BY <2>1 DEF EndInv, EndsUndone
  <2>3. DOMAIN log = 1 .. Len(log) /\ Len(log) \in Nat
    BY LogIsSeq DEF EndInv, ValueInv, TxnInv, LockInv
  <2>4. clrs = ClrsOf(log, u)
    <3>1. ASSUME NEW j \in ClrsOf(log, u) PROVE j \in clrs
      <4>1. /\ j \in DOMAIN log /\ log[j].type = "CLR" /\ log[j].tx = log[i].tx /\ log[j].key = k
            /\ log[j].new = log[u].old /\ log[j].undo_next = log[u].prev
        BY <2>1 DEF ClrsOf, Compensates, IsUpdate
      <4>2. j <= i /\ j # i
        BY <2>2, <4>1
      <4> QED BY <2>3, <4>1, <4>2
    <3>2. ASSUME NEW j \in clrs PROVE j \in ClrsOf(log, u)
      BY <2>1, <2>3 DEF ClrsOf, Compensates, IsUpdate
    <3> QED BY <3>1, <3>2
  <2> HIDE DEF clrs
  <2>5. \E x : clrs = {x}
    BY <2>2, <2>4 DEF One
  <2>6. Cardinality(clrs) = 1
    BY <2>5, FS_Singleton
  <2> QED BY <2>6 DEF clrs
<1> QED BY <1>1, EndInvAlways, PTL

\* A checkpoint misses no unfinished transaction, and the last_lsn it lists is
\* out of date by one record at most.
THEOREM CheckpointListsUnfinished == Spec => []CheckListsUnfinished
<1>1. EndInv => CheckListsUnfinished
  <2> SUFFICES ASSUME EndInv, NEW i \in DOMAIN log, log[i].type = "CHECK",
                      NEW j \in 1 .. i - 1, log[j].tx # 0,
                      \A m \in RecordsBefore(log[j].tx, i) : log[m].type \notin {"COMMIT", "END"}
               PROVE  \E n \in DOMAIN log[i].list :
                        /\ log[i].list[n].tx_id = log[j].tx
                        /\ log[i].list[n].last_lsn \in
                             {Max(RecordsBefore(log[j].tx, i)),
                              log[Max(RecordsBefore(log[j].tx, i))].prev}
    BY DEF CheckListsUnfinished
  <2> DEFINE mine == RecordsBefore(log[j].tx, i)
  <2>1. mine = {m \in 1 .. i - 1 : log[m].tx = log[j].tx} /\ mine \in SUBSET Nat
    BY DEF RecordsBefore
  <2>2. \A m \in 1 .. i - 1 : log[m].tx = log[j].tx => log[m].type \notin {"COMMIT", "END"}
    BY DEF RecordsBefore
  <2>3. PICK n \in DOMAIN log[i].list, z \in 1 .. i - 1 :
          /\ log[i].list[n].tx_id = log[j].tx
          /\ IsLargest({m \in 1 .. i - 1 : log[m].tx = log[j].tx}, z)
          /\ log[i].list[n].last_lsn \in {z, log[z].prev}
    <3>1. ListsUnfinished(log, i)
      BY DEF EndInv, AllListed
    <3> QED BY <2>2, <3>1 DEF ListsUnfinished
  <2> HIDE DEF mine
  <2>4. Max(mine) = z
    BY <2>1, <2>3, LargestIs
  <2> QED BY <2>3, <2>4 DEF mine
<1> QED BY <1>1, EndInvAlways, PTL
=============================================================================
