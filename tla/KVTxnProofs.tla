---------------------------- MODULE KVTxnProofs ----------------------------
(***************************************************************************)
(* Theorems about KVTxn, for every set of clients, keys, values and locks  *)
(* and every bound: the types, the locks and their lists, the log's chain, *)
(* and the rollback that follows it.                                       *)
(***************************************************************************)
EXTENDS KVTxn, SequenceTheorems, WellFoundedInduction, TLAPS

USE DEF vars, logVars, lockVars

(***************************************************************************)
(* Lemmas about the operators.                                             *)
(***************************************************************************)


\* A nonempty set of natural numbers has a smallest element.
LEMMA MinType ==
  ASSUME NEW S \in SUBSET Nat, S # {}
  PROVE  Min(S) \in S /\ \A n \in S : Min(S) <= n
<1> DEFINE less == {p \in Nat \X Nat : p[1] < p[2]}
<1>1. IsWellFoundedOn(less, Nat)
  BY NatLessThanWellFounded DEF OpToRel
<1>2. PICK m \in S : \A n \in S : ~ (<<n, m>> \in less)
  <2> HIDE DEF less
  <2> QED BY <1>1, WFMin
<1>3. ASSUME NEW n \in S PROVE m <= n
  <2>1. n \in Nat /\ m \in Nat
    OBVIOUS
  <2>2. ~ (<<n, m>>[1] < <<n, m>>[2])
    BY <1>2, <2>1
  <2> QED BY <2>1, <2>2
<1> QED BY <1>3 DEF Min

\* kv_ll_del leaves a list of the same kind.
LEMMA RemoveFirstType ==
  ASSUME NEW S, NEW s \in Seq(S), NEW e
  PROVE  RemoveFirst(s, e) \in Seq(S)
<1>1. CASE \E i \in 1 .. Len(s) : s[i] = e
  <2> DEFINE I == {i \in 1 .. Len(s) : s[i] = e}
             m == SelectInSeq(s, LAMBDA v : v = e)
  <2>1. m \in 1 .. Len(s)
    <3>1. m = Min(I)
      BY <1>1 DEF SelectInSeq
    <3>2. I \in SUBSET Nat /\ I # {}
      BY <1>1
    <3>3. Min(I) \in I
      <4> HIDE DEF I
      <4> QED BY <3>2, MinType
    <3> HIDE DEF m
    <3> QED BY <3>1, <3>3
  <2> HIDE DEF m
  <2>2. SubSeq(s, 1, m - 1) \in Seq(S) /\ SubSeq(s, m + 1, Len(s)) \in Seq(S)
    BY <2>1, SubSeqProperties, ElementOfSeq
  <2>3. RemoveAt(s, m) \in Seq(S)
    BY <2>2, ConcatProperties DEF RemoveAt
  <2> QED BY <1>1, <2>3 DEF RemoveFirst, m
<1>2. CASE ~ \E i \in 1 .. Len(s) : s[i] = e
  BY <1>2 DEF RemoveFirst
<1> QED BY <1>1, <1>2

\* Every record appended has the type of the log's records.
LEMMA TxRecordType ==
  ASSUME NEW n \in Nat, NEW prev \in Nat, NEW tx \in Nat, NEW type \in LogType
  PROVE  TxRecord(n, prev, tx, type) \in Record
BY EmptySeq DEF TxRecord, Record, LogValue

LEMMA DataRecordType ==
  ASSUME NEW n \in Nat, NEW prev \in Nat, NEW tx \in Nat, NEW type \in LogType,
         NEW undo_next \in Nat, NEW key \in Key \cup {NoKey},
         NEW before \in LogValue, NEW after \in LogValue
  PROVE  DataRecord(n, prev, tx, type, undo_next, key, before, after) \in Record
BY EmptySeq DEF DataRecord, Record

LEMMA CheckRecordType ==
  ASSUME NEW n \in Nat, NEW list \in Seq(Ongoing)
  PROVE  CheckRecord(n, list) \in Record
BY DEF CheckRecord, Record, LogType, LogValue

\* Values keep their type on the way to the log and back.
LEMMA LogValues ==
  /\ \A v \in HtValue : ToLog(v) \in LogValue
  /\ \A v \in LogValue : FromLog(v) \in HtValue
BY DEF ToLog, FromLog, HtValue, LogValue

\* What kv_recovery_get_log returns is a record of the log.
LEMMA GetLogType ==
  ASSUME NEW l \in Seq(Record), NEW n, HasLog(l, n)
  PROVE  GetLog(l, n) \in Record
<1> DEFINE I == {i \in DOMAIN l : l[i].lsn = n}
           First(i) == l[i].lsn = n /\ \A j \in 1 .. i - 1 : l[j].lsn # n
<1>1. I \in SUBSET Nat /\ I # {}
  BY DEF HasLog
<1>2. Min(I) \in I /\ \A i \in I : Min(I) <= i
  <2> HIDE DEF I
  <2> QED BY <1>1, MinType
<1>3. Min(I) \in DOMAIN l /\ First(Min(I))
  <2> DEFINE m == Min(I)
  <2>1. m \in DOMAIN l /\ l[m].lsn = n /\ \A i \in DOMAIN l : l[i].lsn = n => m <= i
    BY <1>2
  <2> HIDE DEF m
  <2>2. ASSUME NEW j \in 1 .. m - 1 PROVE l[j].lsn # n
    BY <2>1
  <2>3. First(m)
    BY <2>1, <2>2
  <2> QED BY <2>1, <2>3 DEF m
<1>4. \E i \in DOMAIN l : First(i)
  BY <1>3
<1>5. (CHOOSE i \in DOMAIN l : First(i)) \in DOMAIN l
  BY <1>4
<1>6. GetLog(l, n) = l[CHOOSE i \in DOMAIN l : First(i)]
  BY DEF GetLog
<1> QED BY <1>5, <1>6

(***************************************************************************)
(* Types and locks.  The two need each other: a counter of a kv_rwl stays  *)
(* a natural number because only its owner decrements it, and an owner     *)
(* has counted it.                                                         *)
(***************************************************************************)

\* A thread that runs a command has a transaction, and a data command a key.
ThreadOK ==
  \A c \in Client :
    /\ pc[c] \notin {"ready", "gone"} => txid[c] # 0
    /\ cmd[c].op # "none" => cmd[c].key \in Key
    /\ pc[c] \in {"lock", "reply", "log", "set_update", "apply"} => cmd[c].op # "none"
    /\ pc[c] \in {"set_clr", "undo_apply"} => HasLog(log, cursor[c])

LockInv == TypeOK /\ LocksMatchList /\ ThreadOK

LEMMA LockInvInit == Init => LockInv
<1> SUFFICES ASSUME Init PROVE LockInv
  OBVIOUS
<1>1. TypeOK
  BY EmptySeq DEF Init, TypeOK, NoThread, NoLocks, NoCmd, Cmd, PC, HtValue
<1>2. LocksMatchList
  BY TxnConstants DEF Init, LocksMatchList, NoLocks
<1>3. ThreadOK
  BY DEF Init, ThreadOK, NoCmd
<1> QED BY <1>1, <1>2, <1>3 DEF LockInv

\* Appending a record keeps the log's type, and what the log had it still has.
LEMMA AppendKeeps ==
  ASSUME NEW l \in Seq(Record), NEW r \in Record
  PROVE  /\ Append(l, r) \in Seq(Record)
         /\ \A n : HasLog(l, n) => HasLog(Append(l, r), n)
BY AppendProperties DEF HasLog

\* The same of a record a client appends.
LEMMA WriteLogType ==
  ASSUME TypeOK, NEW c \in Client, NEW r \in Record, WriteLog(c, r)
  PROVE  /\ log' \in Seq(Record) /\ lsn' \in Nat /\ new_lsn' \in [Client -> Nat]
         /\ \A n : HasLog(log, n) => HasLog(log', n)
<1>1. log' = Append(log, r) /\ log \in Seq(Record) /\ lsn \in Nat
  BY DEF WriteLog, TypeOK
<1>2. log' \in Seq(Record) /\ \A n : HasLog(log, n) => HasLog(log', n)
  BY <1>1, AppendKeeps
<1>3. lsn' \in Nat /\ new_lsn' \in [Client -> Nat]
  BY <1>1 DEF WriteLog, TypeOK
<1> QED BY <1>2, <1>3

\* Appending a record of a running command, and the step to label.
LEMMA LoggingStep ==
  ASSUME LockInv, NEW c \in Client, NEW r \in Record, NEW label \in PC,
         WriteLog(c, r), Goto(c, label), txid[c] # 0,
         label \in {"lock", "reply", "log", "set_update", "apply"} => cmd[c].op # "none",
         label \in {"set_clr", "undo_apply"} => HasLog(log, cursor[c]) /\ cursor' = cursor,
         cursor' \in {cursor, [cursor EXCEPT ![c] = 0]},
         UNCHANGED <<transaction_id, tx_list, ht, lockVars, ckpt, cmd, txid, last_lsn, old>>
  PROVE  LockInv'
<1> USE DEF LockInv
<1>1. /\ log' \in Seq(Record) /\ lsn' \in Nat /\ new_lsn' \in [Client -> Nat]
      /\ \A n : HasLog(log, n) => HasLog(log', n)
  BY WriteLogType
<1>2. TypeOK'
  <2>1. pc' \in [Client -> PC] /\ cursor' \in [Client -> Nat]
    BY DEF TypeOK, Goto
  <2>2. UNCHANGED <<transaction_id, tx_list, ht, owner, lock_count, held, ckpt,
                    cmd, txid, last_lsn, old>>
    OBVIOUS
  <2> QED BY <1>1, <2>1, <2>2 DEF TypeOK
<1>3. LocksMatchList'
  BY DEF LocksMatchList
<1>4. ThreadOK'
  <2> SUFFICES ASSUME NEW d \in Client PROVE ThreadOK!(d)'
    BY DEF ThreadOK
  <2>1. CASE d = c
    BY <1>1, <2>1 DEF ThreadOK, TypeOK, Goto
  <2>2. CASE d # c
    BY <1>1, <2>2 DEF ThreadOK, TypeOK, Goto
  <2> QED BY <2>1, <2>2
<1> QED BY <1>2, <1>3, <1>4

\* What a checkpoint lists has the type of its record's list.
LEMMA OngoingListType ==
  ASSUME TypeOK, NEW tail \in Uninitialised
  PROVE  OngoingList \o tail \in Seq(Ongoing)
<1>1. ASSUME NEW i \in 1 .. Len(tx_list)
      PROVE  [tx_id |-> txid[tx_list[i]], last_lsn |-> last_lsn[tx_list[i]]] \in Ongoing
  <2>1. tx_list[i] \in Client
    BY ElementOfSeq DEF TypeOK
  <2> QED BY <2>1 DEF TypeOK, Ongoing
<1>2. Len(tx_list) \in Nat /\ ckpt.size \in Nat
  BY LenProperties DEF TypeOK
<1>3. OngoingList \in [1 .. Len(tx_list) -> Ongoing]
  BY <1>1 DEF OngoingList
<1>4. OngoingList \in Seq(Ongoing)
  BY <1>2, <1>3, SeqDef
<1>5. tail \in Seq(Ongoing)
  BY <1>2, SeqDef, TxnConstants DEF Uninitialised
<1> QED BY <1>4, <1>5, ConcatProperties

LEMMA LockInvNext == LockInv /\ [Next]_vars => LockInv'
<1> SUFFICES ASSUME LockInv, [Next]_vars PROVE LockInv'
  OBVIOUS
<1> USE DEF LockInv
<1>1. ASSUME NEW c \in Client, Begin(c) PROVE LockInv'
  <2>1. TypeOK'
    <3>1. tx_list' \in Seq(Client)
      BY <1>1, AppendProperties DEF Begin, StartTx, TypeOK
    <3> QED BY <1>1, <3>1 DEF Begin, StartTx, TypeOK, At, Goto, PC
  <2>2. LocksMatchList'
    BY <1>1 DEF Begin, StartTx, LocksMatchList, TypeOK, At
  <2>3. ThreadOK'
    BY <1>1 DEF Begin, StartTx, ThreadOK, TypeOK, At, Goto
  <2> QED BY <2>1, <2>2, <2>3
<1>2. ASSUME NEW c \in Client, NEW op \in {"get", "set", "del"}, NEW k \in Key,
             NEW v \in HtValue, Receive(c, op, k, v)
      PROVE  LockInv'
  <2> DEFINE command == [op |-> op, key |-> k, val |-> v, single |-> txid[c] = 0]
  <2>1. command \in Cmd
    <3>1. (txid[c] = 0) \in BOOLEAN
      OBVIOUS
    <3> QED BY <3>1 DEF Cmd
  <2>2. cmd' = [cmd EXCEPT ![c] = command]
    BY <1>2 DEF Receive
  <2>3. command.op = op /\ command.key = k
    OBVIOUS
  <2> HIDE DEF command
  <2>4. TypeOK'
    <3>1. cmd' \in [Client -> Cmd]
      BY <2>1, <2>2 DEF TypeOK
    <3>2. /\ transaction_id' \in Nat /\ tx_list' \in Seq(Client)
          /\ pc' \in [Client -> PC]
          /\ txid' \in [Client -> Nat] /\ last_lsn' \in [Client -> Nat]
      <4>1. CASE StartTx(c)
        BY <4>1, AppendProperties DEF StartTx, TypeOK, Goto, PC
      <4>2. CASE /\ Goto(c, "lock")
                 /\ UNCHANGED <<transaction_id, txid, last_lsn, tx_list>>
        BY <4>2 DEF TypeOK, Goto, PC
      <4> QED BY <1>2, <4>1, <4>2 DEF Receive
    <3>3. UNCHANGED <<log, lsn, ht, owner, lock_count, held, ckpt, new_lsn, old, cursor>>
      BY <1>2 DEF Receive
    <3> QED BY <3>1, <3>2, <3>3 DEF TypeOK
  <2>5. LocksMatchList'
    BY <1>2 DEF Receive, StartTx, LocksMatchList, TypeOK, At
  <2>6. ThreadOK'
    BY <1>2, <2>2, <2>3 DEF Receive, StartTx, ThreadOK, TypeOK, At, Goto
  <2> QED BY <2>4, <2>5, <2>6
<1>3. ASSUME NEW c \in Client, Disconnect(c) PROVE LockInv'
  <2>1. TypeOK'
    BY <1>3 DEF Disconnect, TypeOK, At, Goto, PC
  <2>2. LocksMatchList'
    BY <1>3 DEF Disconnect, LocksMatchList
  <2>3. ThreadOK'
    BY <1>3 DEF Disconnect, ThreadOK, TypeOK, At, Goto
  <2> QED BY <2>1, <2>2, <2>3
<1>4. ASSUME NEW c \in Client, BeginLog(c) PROVE LockInv'
  <2> DEFINE r == TxRecord(lsn + 1, last_lsn[c], txid[c], "BEGIN")
  <2>1. r \in Record
    BY TxRecordType DEF TypeOK, LogType
  <2>2. txid[c] # 0 /\ "set_begin" \in PC
    BY <1>4 DEF BeginLog, At, ThreadOK, PC, Setting
  <2> HIDE DEF r
  <2> QED BY <1>4, <2>1, <2>2, LoggingStep DEF BeginLog, r
<1>5. ASSUME NEW c \in Client, UpdateLog(c) PROVE LockInv'
  <2> DEFINE r == DataRecord(lsn + 1, last_lsn[c], txid[c], "UPDATE", 0, cmd[c].key,
                             ToLog(old[c]), ToLog(cmd[c].val))
  <2>1. r \in Record
    <3>1. old[c] \in HtValue /\ cmd[c].val \in HtValue /\ cmd[c].key \in Key \cup {NoKey}
      BY DEF TypeOK, Cmd
    <3>2. lsn + 1 \in Nat /\ last_lsn[c] \in Nat /\ txid[c] \in Nat
      BY DEF TypeOK
    <3>3. "UPDATE" \in LogType /\ 0 \in Nat
      BY DEF LogType
    <3> QED BY <3>1, <3>2, <3>3, LogValues, DataRecordType
  <2>2. /\ txid[c] # 0 /\ "set_update" \in PC
        /\ cmd[c].op # "none"
    BY <1>5 DEF UpdateLog, At, ThreadOK, PC, Setting
  <2> HIDE DEF r
  <2> QED BY <1>5, <2>1, <2>2, LoggingStep DEF UpdateLog, r
<1>6. ASSUME NEW c \in Client, CommitLog(c) PROVE LockInv'
  <2> DEFINE r == TxRecord(lsn + 1, last_lsn[c], txid[c], "COMMIT")
  <2>1. r \in Record
    BY TxRecordType DEF TypeOK, LogType
  <2>2. txid[c] # 0 /\ "set_commit" \in PC
    BY <1>6 DEF CommitLog, At, ThreadOK, PC, Setting
  <2> HIDE DEF r
  <2> QED BY <1>6, <2>1, <2>2, LoggingStep DEF CommitLog, r
<1>7. ASSUME NEW c \in Client, AbortLog(c) PROVE LockInv'
  <2> DEFINE r == TxRecord(lsn + 1, last_lsn[c], txid[c], "ABORT")
  <2>1. r \in Record
    BY TxRecordType DEF TypeOK, LogType
  <2>2. txid[c] # 0 /\ "set_abort" \in PC
    BY <1>7 DEF AbortLog, At, ThreadOK, PC, Setting
  <2> HIDE DEF r
  <2> QED BY <1>7, <2>1, <2>2, LoggingStep DEF AbortLog, r
<1>8. ASSUME NEW c \in Client, ClrLog(c) PROVE LockInv'
  <2> DEFINE r == DataRecord(lsn + 1, last_lsn[c], txid[c], "CLR", UndoNext(c),
                             Undoing(c).key, Undoing(c).new, Undoing(c).old)
  <2>1. r \in Record
    <3>1. Undoing(c) \in Record
      BY <1>8, GetLogType DEF ClrLog, TypeOK, Undoing
    <3>2. /\ Undoing(c).key \in Key \cup {NoKey}
          /\ Undoing(c).new \in LogValue /\ Undoing(c).old \in LogValue
          /\ UndoNext(c) \in Nat
      BY <3>1 DEF Record, UndoNext
    <3>3. lsn + 1 \in Nat /\ last_lsn[c] \in Nat /\ txid[c] \in Nat
      BY DEF TypeOK
    <3>4. "CLR" \in LogType
      BY DEF LogType
    <3> QED BY <3>2, <3>3, <3>4, DataRecordType
  <2>2. /\ txid[c] # 0 /\ "set_clr" \in PC
        /\ HasLog(log, cursor[c]) /\ cursor' = cursor
    BY <1>8 DEF ClrLog, At, ThreadOK, PC, Setting
  <2> HIDE DEF r
  <2> QED BY <1>8, <2>1, <2>2, LoggingStep DEF ClrLog, r
<1>9. ASSUME NEW c \in Client, EndLog(c) PROVE LockInv'
  <2> DEFINE r == TxRecord(lsn + 1, last_lsn[c], txid[c], "END")
  <2>1. r \in Record
    BY TxRecordType DEF TypeOK, LogType
  <2>2. txid[c] # 0 /\ "set_end" \in PC
    BY <1>9 DEF EndLog, At, ThreadOK, PC, Setting
  <2> HIDE DEF r
  <2> QED BY <1>9, <2>1, <2>2, LoggingStep DEF EndLog, r
<1>10. ASSUME NEW c \in Client, SetLast(c) PROVE LockInv'
  <2>1. txid[c] # 0
    BY <1>10 DEF SetLast, ThreadOK, Setting
  <2>2. pc[c] = "set_clr" => Undoing(c) \in Record
    BY GetLogType DEF TypeOK, ThreadOK, Undoing
  <2>3. AfterSet(c) \in {"ready", "lock", "apply", "rollback", "undo_apply", "unlock"}
    BY <1>10 DEF SetLast, Setting, AfterSet, AfterClr
  <2>4. TypeOK'
    <3>1. pc' \in [Client -> PC]
      BY <1>10, <2>3 DEF SetLast, Goto, TypeOK, PC
    <3>2. last_lsn' \in [Client -> Nat] /\ new_lsn' \in [Client -> Nat]
      BY <1>10 DEF SetLast, TypeOK
    <3>3. cursor' \in [Client -> Nat]
      <4> DEFINE next == CASE At(c, "set_abort") -> new_lsn[c]
                           [] At(c, "set_clr") /\ AfterClr(c) = "rollback" -> UndoNext(c)
                           [] OTHER -> cursor[c]
      <4>1. next \in Nat
        BY <2>2 DEF At, UndoNext, Record, TypeOK
      <4>2. cursor' = [cursor EXCEPT ![c] = next]
        BY <1>10 DEF SetLast
      <4> HIDE DEF next
      <4> QED BY <4>1, <4>2 DEF TypeOK
    <3> QED BY <1>10, <3>1, <3>2, <3>3 DEF SetLast, TypeOK
  <2>5. LocksMatchList'
    BY <1>10 DEF SetLast, LocksMatchList
  <2>6. ThreadOK'
    <3> SUFFICES ASSUME NEW d \in Client PROVE ThreadOK!(d)'
      BY DEF ThreadOK
    <3>1. CASE d = c
      <4>1. AfterSet(c) = "lock" => cmd[c].op # "none"
        BY <1>10 DEF SetLast, Setting, AfterSet, AfterClr
      <4>2. AfterSet(c) = "apply" => cmd[c].op # "none"
        BY <1>10 DEF SetLast, Setting, AfterSet, AfterClr, ThreadOK
      <4>3. AfterSet(c) = "undo_apply" => HasLog(log, cursor[c]) /\ cursor'[c] = cursor[c]
        BY <1>10 DEF SetLast, Setting, AfterSet, ThreadOK, At, TypeOK
      <4>4. pc'[c] = AfterSet(c) /\ UNCHANGED <<txid, cmd, log>>
        BY <1>10 DEF SetLast, Goto, TypeOK
      <4>5. cmd[c].op # "none" => cmd[c].key \in Key
        BY DEF ThreadOK
      <4> QED BY <2>1, <2>3, <3>1, <4>1, <4>2, <4>3, <4>4, <4>5
    <3>2. CASE d # c
      BY <1>10, <3>2 DEF SetLast, Goto, ThreadOK, TypeOK
    <3> QED BY <3>1, <3>2
  <2> QED BY <2>4, <2>5, <2>6
<1>11. ASSUME NEW c \in Client, Lock(c) PROVE LockInv'
  <2> DEFINE s == StripeOf[cmd[c].key]
  <2>1. cmd[c].key \in Key /\ txid[c] # 0 /\ cmd[c].op # "none"
    BY <1>11 DEF Lock, At, ThreadOK
  <2>2. s \in Stripe
    BY <2>1, TxnConstants
  <2>3. /\ CanLock(c, s)
        /\ owner' = [owner EXCEPT ![s] = c]
        /\ lock_count' = [lock_count EXCEPT ![s] = @ + 1]
        /\ held' = [held EXCEPT ![c][s] = @ + 1]
    BY <1>11 DEF Lock
  <2> HIDE DEF s
  <2>4. TypeOK'
    <3>1. owner' \in [Stripe -> Client \cup {NoOwner}] /\ lock_count' \in [Stripe -> Nat]
      BY <2>2, <2>3 DEF TypeOK
    <3>2. held' \in [Client -> [Stripe -> Nat]]
      BY <2>2, <2>3 DEF TypeOK
    <3>3. old' \in [Client -> HtValue] /\ pc' \in [Client -> PC]
      BY <1>11, <2>1 DEF Lock, Goto, TypeOK, PC
    <3> QED BY <1>11, <3>1, <3>2, <3>3 DEF Lock, TypeOK
  <2>5. LocksMatchList'
    <3>1. ASSUME NEW t \in Stripe
          PROVE  /\ owner'[t] = NoOwner <=> lock_count'[t] = 0
                 /\ \A d \in Client :
                      held'[d][t] = IF owner'[t] = d THEN lock_count'[t] ELSE 0
      <4>1. CASE t = s
        BY <2>2, <2>3, <4>1, TxnConstants DEF CanLock, LocksMatchList, TypeOK
      <4>2. CASE t # s
        BY <2>2, <2>3, <4>2 DEF LocksMatchList, TypeOK
      <4> QED BY <4>1, <4>2
    <3>2. ASSUME NEW d \in Client, NEW t \in Stripe, owner'[t] = d PROVE txid'[d] # 0
      BY <1>11, <2>1, <2>2, <2>3, <3>2 DEF Lock, LocksMatchList, TypeOK
    <3> QED BY <3>1, <3>2 DEF LocksMatchList
  <2>6. ThreadOK'
    <3>1. UNCHANGED <<log, cmd, txid, cursor>>
      BY <1>11 DEF Lock
    <3>2. /\ pc'[c] \in {"reply", "log"}
          /\ \A d \in Client : d # c => pc'[d] = pc[d]
      BY <1>11 DEF Lock, Goto, TypeOK
    <3> QED BY <2>1, <3>1, <3>2 DEF ThreadOK
  <2> QED BY <2>4, <2>5, <2>6
<1>12. ASSUME NEW c \in Client, Finish(c), pc[c] \in {"reply", "apply"}, ht' \in [Key -> HtValue],
              UNCHANGED <<logVars, transaction_id, tx_list, lockVars, ckpt, txid, last_lsn,
                          new_lsn, cursor>>
       PROVE  LockInv'
  <2>1. TypeOK'
    <3>1. pc' \in [Client -> PC]
      BY <1>12 DEF Finish, Goto, TypeOK, PC
    <3>2. cmd' \in [Client -> Cmd]
      <4>1. NoCmd \in Cmd
        BY DEF NoCmd, Cmd, HtValue
      <4> QED BY <1>12, <4>1 DEF Finish, TypeOK
    <3>3. old' \in [Client -> HtValue]
      BY <1>12 DEF Finish, TypeOK, HtValue
    <3> QED BY <1>12, <3>1, <3>2, <3>3 DEF TypeOK
  <2>2. LocksMatchList'
    BY <1>12 DEF LocksMatchList
  <2>3. ThreadOK'
    BY <1>12 DEF Finish, Goto, ThreadOK, TypeOK, NoCmd
  <2> QED BY <2>1, <2>2, <2>3
<1>13. ASSUME NEW c \in Client, Reply(c) PROVE LockInv'
  <2>1. ht' \in [Key -> HtValue]
    BY <1>13 DEF Reply, TypeOK
  <2> QED BY <1>12, <1>13, <2>1 DEF Reply, At
<1>14. ASSUME NEW c \in Client, Apply(c) PROVE LockInv'
  <2>1. ht' \in [Key -> HtValue]
    BY <1>14 DEF Apply, TypeOK, Cmd
  <2> QED BY <1>12, <1>14, <2>1 DEF Apply, At
<1>15. ASSUME NEW c \in Client, SkipRecord(c) PROVE LockInv'
  <2>1. UndoNext(c) \in Nat
    BY <1>15, GetLogType DEF SkipRecord, TypeOK, Undoing, UndoNext, Record
  <2>2. TypeOK'
    BY <1>15, <2>1 DEF SkipRecord, TypeOK
  <2>3. LocksMatchList'
    BY <1>15 DEF SkipRecord, LocksMatchList
  <2>4. ThreadOK'
    BY <1>15 DEF SkipRecord, ThreadOK, TypeOK, At
  <2> QED BY <2>2, <2>3, <2>4
<1>16. ASSUME NEW c \in Client, UndoApply(c) PROVE LockInv'
  <2>1. Undoing(c) \in Record
    BY <1>16, GetLogType DEF UndoApply, At, ThreadOK, TypeOK, Undoing
  <2>2. UndoNext(c) \in Nat /\ Undoing(c).old \in LogValue
    BY <2>1 DEF UndoNext, Record
  <2>3. TypeOK'
    <3>1. ht' \in [Key -> HtValue]
      BY <1>16, <2>2, LogValues DEF UndoApply, TypeOK
    <3>2. pc' \in [Client -> PC] /\ cursor' \in [Client -> Nat]
      BY <1>16, <2>2 DEF UndoApply, Goto, TypeOK, PC
    <3> QED BY <1>16, <3>1, <3>2 DEF UndoApply, TypeOK
  <2>4. LocksMatchList'
    BY <1>16 DEF UndoApply, LocksMatchList
  <2>5. ThreadOK'
    BY <1>16 DEF UndoApply, ThreadOK, Goto, TypeOK, At
  <2> QED BY <2>3, <2>4, <2>5
<1>17. ASSUME NEW c \in Client, Unlock(c) PROVE LockInv'
  <2>1. PICK s \in Stripe :
          /\ held[c][s] > 0
          /\ Released(c, s)
          /\ held' = [held EXCEPT ![c][s] = @ - 1]
    BY <1>17 DEF Unlock
  <2>2. owner[s] = c /\ lock_count[s] = held[c][s]
    BY <2>1 DEF LocksMatchList, TypeOK
  <2>3. /\ lock_count' = [lock_count EXCEPT ![s] = @ - 1]
        /\ owner' = IF lock_count[s] = 1 THEN [owner EXCEPT ![s] = NoOwner] ELSE owner
    BY <2>1, <2>2 DEF Released
  <2>4. TypeOK'
    <3>1. owner' \in [Stripe -> Client \cup {NoOwner}] /\ lock_count' \in [Stripe -> Nat]
      BY <2>1, <2>2, <2>3 DEF TypeOK
    <3>2. held' \in [Client -> [Stripe -> Nat]]
      BY <2>1 DEF TypeOK
    <3> QED BY <1>17, <3>1, <3>2 DEF Unlock, TypeOK
  <2>5. LocksMatchList'
    <3>1. ASSUME NEW t \in Stripe
          PROVE  /\ owner'[t] = NoOwner <=> lock_count'[t] = 0
                 /\ \A d \in Client :
                      held'[d][t] = IF owner'[t] = d THEN lock_count'[t] ELSE 0
      <4>1. CASE t = s
        BY SMTT(60), <2>1, <2>2, <2>3, <4>1, TxnConstants DEF LocksMatchList, TypeOK
      <4>2. CASE t # s
        BY <2>1, <2>3, <4>2 DEF LocksMatchList, TypeOK
      <4> QED BY <4>1, <4>2
    <3>2. ASSUME NEW d \in Client, NEW t \in Stripe, owner'[t] = d PROVE txid'[d] # 0
      BY <1>17, <2>1, <2>3, <3>2, TxnConstants DEF Unlock, LocksMatchList, TypeOK
    <3> QED BY <3>1, <3>2 DEF LocksMatchList
  <2>6. ThreadOK'
    BY <1>17 DEF Unlock, ThreadOK
  <2> QED BY <2>4, <2>5, <2>6
<1>18. ASSUME NEW c \in Client, Leave(c) PROVE LockInv'
  <2>1. \A s \in Stripe : owner[s] # c
    <3> SUFFICES ASSUME NEW s \in Stripe, owner[s] = c PROVE FALSE
      OBVIOUS
    <3>1. held[c][s] = 0 /\ held[c][s] = lock_count[s]
      BY <1>18 DEF Leave, LocksMatchList
    <3>2. lock_count[s] # 0
      BY TxnConstants DEF LocksMatchList
    <3> QED BY <3>1, <3>2
  <2>2. UNCHANGED <<owner, lock_count>>
    BY <1>18, <2>1 DEF Leave, Released
  <2>3. TypeOK'
    <3>1. tx_list' \in Seq(Client)
      BY <1>18, RemoveFirstType DEF Leave, TypeOK
    <3>2. pc' \in [Client -> PC] /\ txid' \in [Client -> Nat] /\ last_lsn' \in [Client -> Nat]
      BY <1>18 DEF Leave, Goto, TypeOK, PC
    <3>3. cmd' \in [Client -> Cmd]
      <4>1. NoCmd \in Cmd
        BY DEF NoCmd, Cmd, HtValue
      <4> QED BY <1>18, <4>1 DEF Leave, TypeOK
    <3> QED BY <1>18, <2>2, <3>1, <3>2, <3>3 DEF Leave, TypeOK
  <2>4. LocksMatchList'
    BY <1>18, <2>1, <2>2 DEF Leave, LocksMatchList, TypeOK
  <2>5. ThreadOK'
    BY <1>18 DEF Leave, ThreadOK, Goto, TypeOK, NoCmd
  <2> QED BY <2>3, <2>4, <2>5
<1>19. CASE CkptBegin
  <2>1. TypeOK'
    BY <1>19, LenProperties DEF CkptBegin, TypeOK
  <2>2. LocksMatchList' /\ ThreadOK'
    BY <1>19 DEF CkptBegin, LocksMatchList, ThreadOK
  <2> QED BY <2>1, <2>2
<1>20. CASE CkptLog
  <2>1. PICK tail \in Uninitialised :
          log' = Append(log, CheckRecord(lsn + 1, OngoingList \o tail))
    BY <1>20 DEF CkptLog
  <2>2. lsn + 1 \in Nat /\ OngoingList \o tail \in Seq(Ongoing)
    BY <2>1, OngoingListType DEF TypeOK
  <2>3. CheckRecord(lsn + 1, OngoingList \o tail) \in Record
    BY <2>2, CheckRecordType
  <2>4. log' \in Seq(Record) /\ \A n : HasLog(log, n) => HasLog(log', n)
    BY <2>1, <2>3, AppendKeeps DEF TypeOK
  <2>5. TypeOK'
    BY <1>20, <2>4 DEF CkptLog, TypeOK
  <2>6. LocksMatchList' /\ ThreadOK'
    BY <1>20, <2>4 DEF CkptLog, LocksMatchList, ThreadOK
  <2> QED BY <2>5, <2>6
<1>21. CASE UNCHANGED vars
  BY <1>21 DEF TypeOK, LocksMatchList, ThreadOK
<1>22. ASSUME NEW c \in Client, Get(c) \/ Set(c) \/ Del(c) PROVE LockInv'
  BY <1>2, <1>22 DEF Get, Set, Del, HtValue
<1> QED BY <1>1, <1>3, <1>4, <1>5, <1>6, <1>7, <1>8, <1>9, <1>10, <1>11, <1>13, <1>14,
           <1>15, <1>16, <1>17, <1>18, <1>19, <1>20, <1>21, <1>22
        DEF Next, Receiving, Executing, Logging

LEMMA LockInvAlways == Spec => []LockInv
BY LockInvInit, LockInvNext, PTL DEF Spec

\* Every variable keeps its type, whatever the clients do.
THEOREM TypeCorrect == Spec => []TypeOK
<1>1. LockInv => TypeOK
  BY DEF LockInv
<1> QED BY <1>1, LockInvAlways, PTL

\* The lock manager's counts and owners are those of the transactions' lock
\* lists; the unlock after a single command's transaction releases nothing.
THEOREM LocksMatch == Spec => []LocksMatchList
<1>1. LockInv => LocksMatchList
  BY DEF LockInv
<1> QED BY <1>1, LockInvAlways, PTL

(***************************************************************************)
(* The log's prev_lsn chain, the rollback that follows it and the writes   *)
(* it makes.                                                               *)
(***************************************************************************)

(***************************************************************************)
(* The inductive invariant.                                                *)
(***************************************************************************)

\* LSNs are line numbers, and prev_lsn is the LSN of the last record before of
\* the same transaction, 0 at its BEGIN record only.
RecordOK(i) ==
  /\ log[i].lsn = i
  /\ log[i].tx <= transaction_id
  /\ log[i].type = "UPDATE" => log[i].key \in Key
  /\ log[i].tx # 0 =>
       /\ log[i].prev \in 0 .. i - 1
       /\ log[i].prev # 0 => log[log[i].prev].tx = log[i].tx
       /\ log[i].prev = 0 => log[i].type = "BEGIN"
       /\ \A j \in 1 .. i - 1 : log[j].tx = log[i].tx => j <= log[i].prev

LogOK == lsn = Len(log) /\ \A i \in DOMAIN log : RecordOK(i)

\* No two clients share a transaction id, and none is ahead of the counter.
TxIds ==
  \A c \in Client :
    /\ txid[c] <= transaction_id
    /\ txid[c] # 0 => \A d \in Client : d # c => txid[d] # txid[c]

\* The last record of transaction tx in log l has LSN n, 0 when it has none.
IsLast(l, n, tx) ==
  /\ n \in 0 .. Len(l)
  /\ n # 0 => l[n].tx = tx
  /\ \A i \in DOMAIN l : l[i].tx = tx => i <= n

\* A client knows the last record of its transaction: by the LSN the log call
\* returned until kv_tx_set_last_lsn, by last_lsn from then on.
LastKnown(c) ==
  txid[c] # 0 =>
    IF pc[c] \in Setting
    THEN new_lsn[c] # 0 /\ IsLast(log, new_lsn[c], txid[c])
    ELSE IsLast(log, last_lsn[c], txid[c]) /\ (last_lsn[c] = 0 <=> pc[c] = "begin_log")

\* A rollback is at a record of its own transaction.
CursorOwn(c) ==
  pc[c] \in {"rollback", "set_clr", "undo_apply"} =>
    /\ cursor[c] \in 1 .. Len(log)
    /\ log[cursor[c]].tx = txid[c]
    /\ pc[c] # "rollback" => log[cursor[c]].type = "UPDATE"

\* Until it releases its locks a transaction owns the lock of every key it has
\* logged an update of, and of the key its command has locked.
WritesOwned(c) ==
  /\ pc[c] \in {"reply", "log", "set_update", "apply"} => owner[StripeOf[cmd[c].key]] = c
  /\ pc[c] \in {"set_update", "apply"} =>
       \E i \in DOMAIN log :
         log[i].tx = txid[c] /\ log[i].type = "UPDATE" /\ log[i].key = cmd[c].key
  /\ txid[c] # 0 /\ pc[c] # "unlock" =>
       \A i \in DOMAIN log :
         log[i].tx = txid[c] /\ log[i].type = "UPDATE" => owner[StripeOf[log[i].key]] = c

ClientOK(c) == LastKnown(c) /\ CursorOwn(c) /\ WritesOwned(c)

TxnInv == LockInv /\ LogOK /\ TxIds /\ \A c \in Client : ClientOK(c)

(***************************************************************************)
(* Lemmas.                                                                 *)
(***************************************************************************)

\* The log as a sequence of records.
LEMMA LogIsSeq ==
  ASSUME TypeOK
  PROVE  /\ log \in Seq(Record) /\ Len(log) \in Nat /\ DOMAIN log = 1 .. Len(log)
         /\ \A i \in 1 .. Len(log) :
              /\ log[i] \in Record
              /\ log[i].tx \in Nat /\ log[i].prev \in Nat /\ log[i].lsn \in Nat
<1>1. log \in Seq(Record)
  BY DEF TypeOK
<1>2. Len(log) \in Nat /\ DOMAIN log = 1 .. Len(log)
  BY <1>1, LenProperties
<1>3. \A i \in 1 .. Len(log) : log[i] \in Record
  BY <1>1, ElementOfSeq
<1> QED BY <1>1, <1>2, <1>3 DEF Record

\* A log one record longer.
LEMMA Appended ==
  ASSUME TypeOK, NEW r \in Record, log' = Append(log, r)
  PROVE  /\ Len(log') = Len(log) + 1 /\ DOMAIN log' = 1 .. Len(log) + 1
         /\ \A i \in 1 .. Len(log) : log'[i] = log[i]
         /\ log'[Len(log) + 1] = r
BY LogIsSeq, AppendProperties

\* When LSNs are line numbers, reading a record by its LSN finds that line.
LEMMA GetLogAt ==
  ASSUME TypeOK, LogOK, NEW n \in 1 .. Len(log)
  PROVE  HasLog(log, n) /\ GetLog(log, n) = log[n]
<1> DEFINE First(i) == log[i].lsn = n /\ \A j \in 1 .. i - 1 : log[j].lsn # n
<1>1. DOMAIN log = 1 .. Len(log) /\ \A i \in 1 .. Len(log) : log[i].lsn = i
  BY LogIsSeq DEF LogOK, RecordOK
<1>2. \A i \in DOMAIN log : First(i) <=> i = n
  BY <1>1, LogIsSeq
<1>3. (CHOOSE i \in DOMAIN log : First(i)) = n
  <2> HIDE DEF First
  <2> QED BY <1>1, <1>2
<1>4. GetLog(log, n) = log[CHOOSE i \in DOMAIN log : First(i)]
  BY DEF GetLog
<1> QED BY <1>1, <1>3, <1>4 DEF HasLog

\* Steps that append nothing keep the log's shape; the counter of ids may grow.
LEMMA LogKept ==
  ASSUME LockInv, LogOK, UNCHANGED <<log, lsn>>,
         transaction_id' \in {transaction_id, transaction_id + 1}
  PROVE  LogOK'
<1>1. /\ DOMAIN log = 1 .. Len(log) /\ transaction_id \in Nat
      /\ \A i \in 1 .. Len(log) : log[i].tx \in Nat
  BY LogIsSeq DEF LockInv, TypeOK
<1> QED BY <1>1 DEF LogOK, RecordOK

\* A record appended behind its transaction's last one keeps it too.
LEMMA LogGrown ==
  ASSUME LockInv, LogOK, UNCHANGED transaction_id,
         NEW r \in Record, log' = Append(log, r), lsn' = lsn + 1,
         r.lsn = lsn + 1, r.tx <= transaction_id, r.type = "UPDATE" => r.key \in Key,
         r.tx # 0 => IsLast(log, r.prev, r.tx) /\ (r.prev = 0 => r.type = "BEGIN")
  PROVE  LogOK'
<1>1. TypeOK
  BY DEF LockInv
<1> DEFINE n == Len(log) + 1
<1>2. /\ Len(log') = n /\ DOMAIN log' = 1 .. n /\ n \in Nat
      /\ \A i \in 1 .. Len(log) : log'[i] = log[i]
      /\ log'[n] = r
  BY <1>1, Appended, LogIsSeq
<1>3. DOMAIN log = 1 .. Len(log) /\ Len(log) \in Nat
  BY <1>1, LogIsSeq
<1>4. lsn = Len(log)
  BY DEF LogOK
<1>5. ASSUME NEW i \in DOMAIN log' PROVE RecordOK(i)'
  <2>1. CASE i \in 1 .. Len(log)
    <3>1. RecordOK(i)
      BY <1>3, <2>1 DEF LogOK
    <3>2. log'[i] = log[i] /\ \A j \in 1 .. i - 1 : log'[j] = log[j]
      BY <1>2, <1>3, <2>1
    <3>3. log[i].tx # 0 /\ log[i].prev # 0 => log'[log[i].prev] = log[log[i].prev]
      BY <1>2, <1>3, <2>1, <3>1 DEF RecordOK
    <3> QED BY <3>1, <3>2, <3>3 DEF RecordOK
  <2>2. CASE i = n
    <3>1. r.lsn = n /\ r.tx <= transaction_id' /\ (r.type = "UPDATE" => r.key \in Key)
      BY <1>4
    <3>2. ASSUME r.tx # 0
          PROVE  /\ r.prev \in 0 .. n - 1
                 /\ r.prev # 0 => log'[r.prev].tx = r.tx
                 /\ r.prev = 0 => r.type = "BEGIN"
                 /\ \A j \in 1 .. n - 1 : log'[j].tx = r.tx => j <= r.prev
      BY <1>2, <1>3, <3>2 DEF IsLast
    <3>3. log'[i] = r
      BY <1>2, <2>2
    <3> QED BY <2>2, <3>1, <3>2, <3>3 DEF RecordOK
  <2> QED BY <1>2, <1>3, <2>1, <2>2
<1>6. lsn' = Len(log')
  BY <1>2, <1>4
<1> QED BY <1>5, <1>6 DEF LogOK

\* m is the log l with records appended, none of them of transaction tx.
Without(l, m, tx) ==
  /\ Len(l) \in Nat /\ Len(m) \in Nat /\ Len(l) <= Len(m)
  /\ DOMAIN l = 1 .. Len(l) /\ DOMAIN m = 1 .. Len(m)
  /\ \A i \in 1 .. Len(l) : m[i] = l[i]
  /\ \A i \in Len(l) + 1 .. Len(m) : m[i].tx # tx

LEMMA StepWithout ==
  ASSUME TypeOK, NEW tx,
         \/ log' = log
         \/ \E r \in Record : log' = Append(log, r) /\ r.tx # tx
  PROVE  Without(log, log', tx)
<1>1. DOMAIN log = 1 .. Len(log) /\ Len(log) \in Nat
  BY LogIsSeq
<1>2. CASE log' = log
  BY <1>1, <1>2 DEF Without
<1>3. CASE \E r \in Record : log' = Append(log, r) /\ r.tx # tx
  <2>1. PICK r \in Record : log' = Append(log, r) /\ r.tx # tx
    BY <1>3
  <2>2. /\ Len(log') = Len(log) + 1 /\ DOMAIN log' = 1 .. Len(log) + 1
        /\ \A i \in 1 .. Len(log) : log'[i] = log[i]
        /\ log'[Len(log) + 1] = r
    BY <2>1, Appended
  <2>3. \A i \in Len(log) + 1 .. Len(log') : log'[i].tx # tx
    <3>1. ASSUME NEW i \in Len(log) + 1 .. Len(log') PROVE i = Len(log) + 1
      BY <1>1, <2>2
    <3> QED BY <2>1, <2>2, <3>1
  <2>4. Len(log') \in Nat /\ Len(log) <= Len(log') /\ DOMAIN log' = 1 .. Len(log')
    BY <1>1, <2>2
  <2> QED BY <1>1, <2>2, <2>3, <2>4 DEF Without
<1> QED BY <1>2, <1>3

\* What appending records of other transactions leaves as it was.
LEMMA LastKept ==
  ASSUME NEW l, NEW m, NEW tx, NEW n, Without(l, m, tx), IsLast(l, n, tx)
  PROVE  IsLast(m, n, tx)
<1>1. n \in 0 .. Len(m)
  BY DEF Without, IsLast
<1>2. ASSUME n # 0 PROVE m[n].tx = tx
  <2>1. n \in 1 .. Len(l) /\ l[n].tx = tx
    BY <1>2 DEF Without, IsLast
  <2> QED BY <2>1 DEF Without
<1>3. ASSUME NEW i \in DOMAIN m, m[i].tx = tx PROVE i <= n
  <2>1. i \in 1 .. Len(l)
    BY <1>3 DEF Without
  <2> QED BY <1>3, <2>1 DEF Without, IsLast
<1> QED BY <1>1, <1>2, <1>3 DEF IsLast

\* A step of somebody else that takes no lock from d and appends no record of
\* its transaction leaves d as it was.
LEMMA OtherClient ==
  ASSUME LockInv, LogOK, NEW d \in Client, ClientOK(d),
         pc'[d] = pc[d], cmd'[d] = cmd[d], txid'[d] = txid[d], last_lsn'[d] = last_lsn[d],
         new_lsn'[d] = new_lsn[d], cursor'[d] = cursor[d],
         \A s \in Stripe : owner[s] = d => owner'[s] = d,
         txid[d] # 0 => Without(log, log', txid[d])
  PROVE  ClientOK(d)'
<1>1. LastKnown(d)'
  <2> SUFFICES ASSUME txid[d] # 0 PROVE LastKnown(d)'
    BY DEF LastKnown
  <2>1. LastKnown(d) /\ Without(log, log', txid[d])
    BY DEF ClientOK
  <2>2. CASE pc[d] \in Setting
    <3>1. new_lsn[d] # 0 /\ IsLast(log, new_lsn[d], txid[d])
      BY <2>1, <2>2 DEF LastKnown
    <3>2. IsLast(log', new_lsn[d], txid[d])
      BY <2>1, <3>1, LastKept
    <3> QED BY <2>2, <3>1, <3>2 DEF LastKnown
  <2>3. CASE pc[d] \notin Setting
    <3>1. /\ IsLast(log, last_lsn[d], txid[d])
          /\ last_lsn[d] = 0 <=> pc[d] = "begin_log"
      BY <2>1, <2>3 DEF LastKnown
    <3>2. IsLast(log', last_lsn[d], txid[d])
      BY <2>1, <3>1, LastKept
    <3> QED BY <2>3, <3>1, <3>2 DEF LastKnown
  <2> QED BY <2>2, <2>3
<1>2. CursorOwn(d)'
  <2> SUFFICES ASSUME pc[d] \in {"rollback", "set_clr", "undo_apply"} PROVE CursorOwn(d)'
    BY DEF CursorOwn
  <2>1. Without(log, log', txid[d])
    BY DEF LockInv, ThreadOK
  <2>2. /\ cursor[d] \in 1 .. Len(log)
        /\ log[cursor[d]].tx = txid[d]
        /\ pc[d] # "rollback" => log[cursor[d]].type = "UPDATE"
    BY DEF ClientOK, CursorOwn
  <2>3. cursor[d] \in 1 .. Len(log') /\ log'[cursor[d]] = log[cursor[d]]
    BY <2>1, <2>2 DEF Without
  <2> QED BY <2>2, <2>3 DEF CursorOwn
<1>3. WritesOwned(d)'
  <2>1. \A k \in Key : StripeOf[k] \in Stripe
    BY TxnConstants
  <2>2. pc[d] \in {"reply", "log", "set_update", "apply"} => cmd[d].key \in Key
    BY DEF LockInv, ThreadOK
  <2>3. pc[d] \in {"set_update", "apply"} => txid[d] # 0
    BY DEF LockInv, ThreadOK
  <2>4. pc[d] \in {"reply", "log", "set_update", "apply"} => owner'[StripeOf[cmd[d].key]] = d
    BY <2>1, <2>2 DEF ClientOK, WritesOwned
  <2>5. ASSUME pc[d] \in {"set_update", "apply"}
        PROVE  \E i \in DOMAIN log' :
            log'[i].tx = txid[d] /\ log'[i].type = "UPDATE" /\ log'[i].key = cmd[d].key
    <3>1. PICK i \in DOMAIN log :
            log[i].tx = txid[d] /\ log[i].type = "UPDATE" /\ log[i].key = cmd[d].key
      BY <2>5 DEF ClientOK, WritesOwned
    <3>2. i \in DOMAIN log' /\ log'[i] = log[i]
      BY <2>3, <2>5 DEF Without
    <3> QED BY <3>1, <3>2
  <2>6. ASSUME txid[d] # 0, pc[d] # "unlock", NEW i \in DOMAIN log',
               log'[i].tx = txid[d], log'[i].type = "UPDATE"
        PROVE  owner'[StripeOf[log'[i].key]] = d
    <3>1. i \in DOMAIN log /\ log'[i] = log[i]
      BY <2>6 DEF Without
    <3>2. owner[StripeOf[log[i].key]] = d
      BY <2>6, <3>1 DEF ClientOK, WritesOwned
    <3>3. log[i].key \in Key
      BY <2>6, <3>1 DEF LogOK, RecordOK
    <3> QED BY <2>1, <3>1, <3>2, <3>3
  <2> QED BY <2>4, <2>5, <2>6 DEF WritesOwned
<1> QED BY <1>1, <1>2, <1>3 DEF ClientOK

\* A step of client c moves nobody else, and takes no lock from anybody else.
Frame(d) ==
  /\ pc'[d] = pc[d] /\ cmd'[d] = cmd[d] /\ txid'[d] = txid[d] /\ last_lsn'[d] = last_lsn[d]
  /\ new_lsn'[d] = new_lsn[d] /\ cursor'[d] = cursor[d]
  /\ \A s \in Stripe : owner[s] = d => owner'[s] = d

LEMMA FrameStep ==
  ASSUME LockInv, NEW c \in Client, Receiving(c) \/ Executing(c), NEW d \in Client, d # c
  PROVE  Frame(d)
<1> USE DEF Goto, Frame
<1>0. /\ pc \in [Client -> PC] /\ cmd \in [Client -> Cmd]
      /\ txid \in [Client -> Nat] /\ last_lsn \in [Client -> Nat]
      /\ new_lsn \in [Client -> Nat] /\ cursor \in [Client -> Nat]
      /\ owner \in [Stripe -> Client \cup {NoOwner}]
  BY DEF LockInv, TypeOK
<1>1. CASE Begin(c)
  BY <1>0, <1>1 DEF Begin, StartTx
<1>2. ASSUME NEW op, NEW k, NEW v, Receive(c, op, k, v) PROVE Frame(d)
  BY <1>0, <1>2 DEF Receive, StartTx
<1>3. CASE Disconnect(c)
  BY <1>0, <1>3 DEF Disconnect
<1>4. CASE Logging(c)
  BY <1>0, <1>4 DEF Logging, BeginLog, UpdateLog, CommitLog, AbortLog, ClrLog, EndLog, WriteLog
<1>5. CASE SetLast(c)
  BY <1>0, <1>5 DEF SetLast
<1>6. CASE Lock(c)
  <2>1. cmd[c].key \in Key
    BY <1>6 DEF LockInv, Lock, At, ThreadOK
  <2>2. StripeOf[cmd[c].key] \in Stripe
    BY <2>1, TxnConstants
  <2> QED BY <1>0, <1>6, <2>2, TxnConstants DEF Lock, CanLock
<1>7. CASE Reply(c) \/ Apply(c)
  BY <1>0, <1>7 DEF Reply, Apply, Finish
<1>8. CASE SkipRecord(c) \/ UndoApply(c)
  BY <1>0, <1>8 DEF SkipRecord, UndoApply
<1>9. CASE Unlock(c)
  BY <1>0, <1>9 DEF Unlock, Released
<1>10. CASE Leave(c)
  BY <1>0, <1>10 DEF Leave, Released
<1> QED BY <1>1, <1>2, <1>3, <1>4, <1>5, <1>6, <1>7, <1>8, <1>9, <1>10
        DEF Receiving, Executing, Get, Set, Del

\* So they stay as they were, if what is logged is a record of c's transaction.
LEMMA Others ==
  ASSUME TxnInv, NEW c \in Client, Receiving(c) \/ Executing(c),
         \/ log' = log
         \/ \E r \in Record : log' = Append(log, r) /\ r.tx = txid[c]
  PROVE  \A d \in Client : d # c => ClientOK(d)'
<1> SUFFICES ASSUME NEW d \in Client, d # c PROVE ClientOK(d)'
  OBVIOUS
<1>1. Frame(d)
  BY FrameStep DEF TxnInv
<1>2. txid[d] # 0 => txid[c] # txid[d]
  BY DEF TxnInv, TxIds
<1>3. txid[d] # 0 => Without(log, log', txid[d])
  BY <1>2, StepWithout DEF TxnInv, LockInv
<1> HIDE DEF Frame
<1>4. LockInv /\ LogOK /\ ClientOK(d)
  BY DEF TxnInv
<1> QED BY <1>1, <1>3, <1>4, OtherClient DEF Frame

\* The ids of transactions stay distinct when none starts; one may end.
LEMMA TxIdsKept ==
  ASSUME TxnInv, NEW c \in Client, transaction_id' = transaction_id,
         txid' \in {txid, [txid EXCEPT ![c] = 0]}
  PROVE  TxIds'
<1>1. txid \in [Client -> Nat] /\ transaction_id \in Nat
  BY DEF TxnInv, LockInv, TypeOK
<1> QED BY <1>1 DEF TxnInv, TxIds

\* A client that appends a record of its transaction behind the last one.
LEMMA RecordLogged ==
  ASSUME TxnInv, NEW c \in Client, NEW r \in Record, NEW label \in Setting,
         WriteLog(c, r), Goto(c, label), txid[c] # 0, pc[c] \notin Setting,
         r.lsn = lsn + 1, r.prev = last_lsn[c], r.tx = txid[c],
         pc[c] = "begin_log" => r.type = "BEGIN",
         pc[c] # "unlock",
         r.type = "UPDATE" => r.key \in Key /\ owner[StripeOf[r.key]] = c,
         label = "set_update" => r.type = "UPDATE" /\ r.key = cmd[c].key,
         label = "set_clr" => /\ pc[c] = "rollback" /\ cursor' = cursor
                              /\ log[cursor[c]].type = "UPDATE",
         UNCHANGED <<transaction_id, cmd, txid, last_lsn, owner>>
  PROVE  LogOK' /\ TxIds' /\ ClientOK(c)'
<1> USE DEF TxnInv
<1>1. TypeOK /\ LogOK /\ ClientOK(c)
  BY DEF LockInv
<1>2. IsLast(log, last_lsn[c], txid[c]) /\ (last_lsn[c] = 0 => pc[c] = "begin_log")
  BY <1>1 DEF ClientOK, LastKnown
<1>3. log' = Append(log, r) /\ lsn' = lsn + 1
  BY DEF WriteLog
<1>4. LogOK'
  <2>1. r.tx <= transaction_id
    BY DEF TxIds
  <2> QED BY <1>2, <1>3, <2>1, LogGrown
<1>5. TxIds'
  BY TxIdsKept
<1> DEFINE n == Len(log) + 1
<1>6. /\ Len(log') = n /\ DOMAIN log' = 1 .. n /\ n \in Nat /\ Len(log) \in Nat
      /\ \A i \in 1 .. Len(log) : log'[i] = log[i]
      /\ log'[n] = r
      /\ DOMAIN log = 1 .. Len(log)
  BY <1>1, <1>3, Appended, LogIsSeq
<1>7. pc'[c] = label /\ new_lsn'[c] = n /\ txid'[c] = txid[c] /\ cmd'[c] = cmd[c]
  BY <1>1 DEF WriteLog, Goto, TypeOK, LogOK
<1>8. LastKnown(c)'
  <2>1. IsLast(log', n, txid[c])
    <3> SUFFICES n \in 0 .. Len(log') /\ log'[n].tx = txid[c] /\ \A i \in DOMAIN log' : i <= n
      BY DEF IsLast
    <3> QED BY <1>6
  <2>2. n # 0
    BY <1>6
  <2> HIDE DEF n
  <2> QED BY <1>7, <2>1, <2>2 DEF LastKnown
<1>9. CursorOwn(c)'
  <2> SUFFICES ASSUME label = "set_clr" PROVE CursorOwn(c)'
    BY <1>7 DEF CursorOwn, Setting
  <2>1. /\ cursor[c] \in 1 .. Len(log) /\ log[cursor[c]].tx = txid[c]
        /\ log[cursor[c]].type = "UPDATE" /\ cursor' = cursor
    BY <1>1 DEF ClientOK, CursorOwn
  <2>2. cursor[c] \in 1 .. Len(log') /\ log'[cursor[c]] = log[cursor[c]]
    BY <1>6, <2>1
  <2> QED BY <1>7, <2>1, <2>2 DEF CursorOwn
<1>10. WritesOwned(c)'
  <2>1. ASSUME label = "set_update"
        PROVE  /\ owner[StripeOf[cmd[c].key]] = c
               /\ \E i \in DOMAIN log' :
                    log'[i].tx = txid[c] /\ log'[i].type = "UPDATE" /\ log'[i].key = cmd[c].key
    <3>1. n \in DOMAIN log' /\ log'[n] = r
      BY <1>6
    <3>2. r.type = "UPDATE" /\ r.key = cmd[c].key
      BY <2>1
    <3> QED BY <3>1, <3>2
  <2>2. ASSUME NEW i \in DOMAIN log', log'[i].tx = txid[c], log'[i].type = "UPDATE"
        PROVE  owner[StripeOf[log'[i].key]] = c
    <3>1. CASE i = n
      BY <1>6, <2>2, <3>1
    <3>2. CASE i \in DOMAIN log
      <4>1. log'[i] = log[i]
        BY <1>6, <3>2
      <4> QED BY <1>1, <2>2, <3>2, <4>1 DEF ClientOK, WritesOwned
    <3> QED BY <1>6, <3>1, <3>2
  <2>3. label \notin {"reply", "log", "apply"}
    BY DEF Setting
  <2> QED BY <1>7, <2>1, <2>2, <2>3 DEF WritesOwned
<1> QED BY <1>4, <1>5, <1>8, <1>9, <1>10 DEF ClientOK

\* Every logging step does.
LEMMA LoggingKeeps ==
  ASSUME TxnInv, NEW c \in Client, Logging(c)
  PROVE  /\ LogOK' /\ TxIds' /\ ClientOK(c)'
         /\ \E r \in Record : log' = Append(log, r) /\ r.tx = txid[c]
<1> DEFINE Result == /\ LogOK' /\ TxIds' /\ ClientOK(c)'
                     /\ \E r \in Record : log' = Append(log, r) /\ r.tx = txid[c]
<1>0. /\ lsn + 1 \in Nat /\ last_lsn[c] \in Nat /\ txid[c] \in Nat
      /\ ThreadOK /\ TypeOK /\ LogOK /\ ClientOK(c)
  BY DEF TxnInv, LockInv, TypeOK
<1>1. ASSUME BeginLog(c) PROVE Result
  <2> DEFINE r == TxRecord(lsn + 1, last_lsn[c], txid[c], "BEGIN")
  <2>1. /\ r \in Record /\ r.lsn = lsn + 1 /\ r.prev = last_lsn[c] /\ r.tx = txid[c]
        /\ r.type = "BEGIN"
    BY <1>0, TxRecordType DEF LogType, TxRecord
  <2> HIDE DEF r
  <2>2. /\ WriteLog(c, r) /\ Goto(c, "set_begin") /\ pc[c] = "begin_log"
        /\ UNCHANGED <<transaction_id, cmd, txid, last_lsn, owner>>
    BY <1>1 DEF BeginLog, At, r
  <2>3. txid[c] # 0
    BY <1>0, <2>2 DEF ThreadOK
  <2> QED BY <2>1, <2>2, <2>3, RecordLogged DEF WriteLog, Setting
<1>2. ASSUME UpdateLog(c) PROVE Result
  <2> DEFINE r == DataRecord(lsn + 1, last_lsn[c], txid[c], "UPDATE", 0, cmd[c].key,
                             ToLog(old[c]), ToLog(cmd[c].val))
  <2>1. /\ r.lsn = lsn + 1 /\ r.prev = last_lsn[c] /\ r.tx = txid[c]
        /\ r.type = "UPDATE" /\ r.key = cmd[c].key
    BY DEF DataRecord
  <2>2. r \in Record
    <3>1. old[c] \in HtValue /\ cmd[c].val \in HtValue /\ cmd[c].key \in Key \cup {NoKey}
      BY <1>0 DEF TypeOK, Cmd
    <3>2. "UPDATE" \in LogType /\ 0 \in Nat
      BY DEF LogType
    <3> QED BY <1>0, <3>1, <3>2, LogValues, DataRecordType
  <2>3. /\ WriteLog(c, r) /\ Goto(c, "set_update") /\ pc[c] = "log"
        /\ UNCHANGED <<transaction_id, cmd, txid, last_lsn, owner>>
    BY <1>2 DEF UpdateLog, At
  <2> HIDE DEF r
  <2>4. txid[c] # 0 /\ cmd[c].key \in Key
    BY <1>0, <2>3 DEF ThreadOK
  <2>5. owner[StripeOf[cmd[c].key]] = c
    BY <1>0, <2>3 DEF ClientOK, WritesOwned
  <2> QED BY <2>1, <2>2, <2>3, <2>4, <2>5, RecordLogged DEF WriteLog, Setting
<1>3. ASSUME CommitLog(c) PROVE Result
  <2> DEFINE r == TxRecord(lsn + 1, last_lsn[c], txid[c], "COMMIT")
  <2>1. /\ r \in Record /\ r.lsn = lsn + 1 /\ r.prev = last_lsn[c] /\ r.tx = txid[c]
        /\ r.type = "COMMIT"
    BY <1>0, TxRecordType DEF LogType, TxRecord
  <2> HIDE DEF r
  <2>2. /\ WriteLog(c, r) /\ Goto(c, "set_commit") /\ pc[c] \in {"commit_log", "ready"}
        /\ UNCHANGED <<transaction_id, cmd, txid, last_lsn, owner>>
    BY <1>3 DEF CommitLog, At, r
  <2>3. txid[c] # 0
    BY <1>0, <1>3 DEF CommitLog, At, ThreadOK
  <2> QED BY <2>1, <2>2, <2>3, RecordLogged DEF WriteLog, Setting
<1>4. ASSUME AbortLog(c) PROVE Result
  <2> DEFINE r == TxRecord(lsn + 1, last_lsn[c], txid[c], "ABORT")
  <2>1. /\ r \in Record /\ r.lsn = lsn + 1 /\ r.prev = last_lsn[c] /\ r.tx = txid[c]
        /\ r.type = "ABORT"
    BY <1>0, TxRecordType DEF LogType, TxRecord
  <2> HIDE DEF r
  <2>2. /\ WriteLog(c, r) /\ Goto(c, "set_abort") /\ pc[c] = "ready"
        /\ UNCHANGED <<transaction_id, cmd, txid, last_lsn, owner>>
    BY <1>4 DEF AbortLog, At, r
  <2>3. txid[c] # 0
    BY <1>4 DEF AbortLog
  <2> QED BY <2>1, <2>2, <2>3, RecordLogged DEF WriteLog, Setting
<1>5. ASSUME ClrLog(c) PROVE Result
  <2> DEFINE r == DataRecord(lsn + 1, last_lsn[c], txid[c], "CLR", UndoNext(c),
                             Undoing(c).key, Undoing(c).new, Undoing(c).old)
  <2>1. /\ r.lsn = lsn + 1 /\ r.prev = last_lsn[c] /\ r.tx = txid[c] /\ r.type = "CLR"
    BY DEF DataRecord
  <2>2. r \in Record
    <3>1. Undoing(c) \in Record
      BY <1>0, <1>5, GetLogType DEF ClrLog, TypeOK, Undoing
    <3>2. /\ Undoing(c).key \in Key \cup {NoKey}
          /\ Undoing(c).new \in LogValue /\ Undoing(c).old \in LogValue
          /\ UndoNext(c) \in Nat
      BY <3>1 DEF Record, UndoNext
    <3>3. "CLR" \in LogType
      BY DEF LogType
    <3> QED BY <1>0, <3>2, <3>3, DataRecordType
  <2>3. /\ WriteLog(c, r) /\ Goto(c, "set_clr") /\ pc[c] = "rollback"
        /\ UNCHANGED <<transaction_id, cmd, txid, last_lsn, owner, cursor>>
        /\ Undoing(c).type = "UPDATE"
    BY <1>5 DEF ClrLog, At
  <2> HIDE DEF r
  <2>4. txid[c] # 0
    BY <1>0, <2>3 DEF ThreadOK
  <2>5. Undoing(c) = log[cursor[c]]
    BY <1>0, <2>3, GetLogAt DEF ClientOK, CursorOwn, Undoing
  <2> QED BY <2>1, <2>2, <2>3, <2>4, <2>5, RecordLogged DEF WriteLog, Setting
<1>6. ASSUME EndLog(c) PROVE Result
  <2> DEFINE r == TxRecord(lsn + 1, last_lsn[c], txid[c], "END")
  <2>1. /\ r \in Record /\ r.lsn = lsn + 1 /\ r.prev = last_lsn[c] /\ r.tx = txid[c]
        /\ r.type = "END"
    BY <1>0, TxRecordType DEF LogType, TxRecord
  <2> HIDE DEF r
  <2>2. /\ WriteLog(c, r) /\ Goto(c, "set_end") /\ pc[c] = "rollback"
        /\ UNCHANGED <<transaction_id, cmd, txid, last_lsn, owner>>
    BY <1>6 DEF EndLog, At, r
  <2>3. txid[c] # 0
    BY <1>0, <2>2 DEF ThreadOK
  <2> QED BY <2>1, <2>2, <2>3, RecordLogged DEF WriteLog, Setting
<1> QED BY <1>1, <1>2, <1>3, <1>4, <1>5, <1>6 DEF Logging

\* From a record that is not its transaction's BEGIN, prev_lsn leads to another
\* record of the transaction.
LEMMA PrevOfOwn ==
  ASSUME TypeOK, LogOK, NEW i \in 1 .. Len(log), log[i].tx # 0, log[i].type # "BEGIN"
  PROVE  log[i].prev \in 1 .. Len(log) /\ log[log[i].prev].tx = log[i].tx
<1>1. RecordOK(i) /\ Len(log) \in Nat
  BY LogIsSeq DEF LogOK
<1> QED BY <1>1 DEF RecordOK

\* A transaction that starts has a new id and no record.
LEMMA StartKeeps ==
  ASSUME TxnInv, NEW c \in Client, StartTx(c), UNCHANGED <<log, lsn, owner, cursor>>
  PROVE  LogOK' /\ TxIds' /\ ClientOK(c)'
<1> DEFINE n == transaction_id + 1
<1>1. /\ TypeOK /\ LogOK /\ transaction_id \in Nat /\ txid \in [Client -> Nat]
      /\ DOMAIN log = 1 .. Len(log) /\ Len(log) \in Nat
      /\ \A i \in 1 .. Len(log) : log[i].tx \in Nat
  BY LogIsSeq DEF TxnInv, LockInv, TypeOK
<1>2. /\ transaction_id' = n /\ txid' = [txid EXCEPT ![c] = n]
      /\ last_lsn'[c] = 0 /\ pc'[c] = "begin_log"
  BY DEF StartTx, Goto, TxnInv, LockInv, TypeOK
<1>3. LogOK'
  BY <1>1, LogKept DEF StartTx, TxnInv
<1>4. TxIds'
  BY <1>1, <1>2 DEF TxnInv, TxIds
<1>5. \A i \in DOMAIN log : log[i].tx # n
  <2>1. ASSUME NEW i \in DOMAIN log PROVE log[i].tx <= transaction_id /\ log[i].tx \in Nat
    BY <1>1 DEF LogOK, RecordOK
  <2> QED BY <1>1, <2>1
<1>6. LastKnown(c)'
  <2>1. IsLast(log, 0, n)
    BY <1>1, <1>5 DEF IsLast
  <2>2. log' = log /\ txid'[c] = n
    BY <1>1, <1>2
  <2> HIDE DEF n
  <2> QED BY <1>2, <2>1, <2>2 DEF LastKnown, Setting
<1>7. CursorOwn(c)'
  BY <1>2 DEF CursorOwn
<1>8. WritesOwned(c)'
  <2>1. log' = log /\ txid'[c] = n
    BY <1>1, <1>2
  <2> HIDE DEF n
  <2> QED BY <1>2, <1>5, <2>1 DEF WritesOwned
<1> QED BY <1>3, <1>4, <1>6, <1>7, <1>8 DEF ClientOK

\* kv_tx_set_last_lsn.
LEMMA SetLastKeeps ==
  ASSUME TxnInv, NEW c \in Client, SetLast(c)
  PROVE  ClientOK(c)'
<1>1. /\ TypeOK /\ LogOK /\ ClientOK(c) /\ ThreadOK
      /\ Len(log) \in Nat
  BY LogIsSeq DEF TxnInv, LockInv
<1>2. pc[c] \in Setting /\ txid[c] # 0
  BY <1>1 DEF SetLast, ThreadOK, Setting
<1>3. new_lsn[c] # 0 /\ IsLast(log, new_lsn[c], txid[c])
  BY <1>1, <1>2 DEF ClientOK, LastKnown
<1>4. /\ pc'[c] = AfterSet(c) /\ last_lsn'[c] = new_lsn[c]
      /\ cursor'[c] = CASE At(c, "set_abort") -> new_lsn[c]
                        [] At(c, "set_clr") /\ AfterClr(c) = "rollback" -> UndoNext(c)
                        [] OTHER -> cursor[c]
      /\ UNCHANGED <<log, txid, cmd, owner>>
  BY <1>1 DEF SetLast, Goto, TypeOK
<1>5. /\ AfterSet(c) \in {"ready", "lock", "apply", "rollback", "undo_apply", "unlock"}
      /\ AfterSet(c) = "apply" => pc[c] = "set_update"
      /\ AfterSet(c) \in {"rollback", "undo_apply"} => pc[c] \in {"set_abort", "set_clr"}
      /\ pc[c] = "set_abort" => AfterSet(c) = "rollback"
      /\ pc[c] = "set_clr" => AfterSet(c) = AfterClr(c)
  BY <1>2 DEF Setting, AfterSet, AfterClr
<1>6. LastKnown(c)'
  BY <1>3, <1>4, <1>5 DEF LastKnown, Setting
<1>7. CursorOwn(c)'
  <2>1. CASE pc[c] = "set_abort"
    <3>1. cursor'[c] = new_lsn[c] /\ pc'[c] = "rollback"
      BY <1>4, <1>5, <2>1 DEF At
    <3>2. new_lsn[c] \in 1 .. Len(log) /\ log[new_lsn[c]].tx = txid[c]
      BY <1>1, <1>3 DEF IsLast
    <3> QED BY <1>4, <3>1, <3>2 DEF CursorOwn
  <2>2. CASE pc[c] = "set_clr"
    <3>1. /\ cursor[c] \in 1 .. Len(log)
          /\ log[cursor[c]].tx = txid[c] /\ log[cursor[c]].type = "UPDATE"
      BY <1>1, <2>2 DEF ClientOK, CursorOwn
    <3>2. CASE AfterClr(c) = "rollback"
      <4>1. cursor'[c] = UndoNext(c) /\ pc'[c] = "rollback"
        BY <1>4, <1>5, <2>2, <3>2 DEF At
      <4>2. UndoNext(c) = log[cursor[c]].prev
        BY <1>1, <3>1, GetLogAt DEF UndoNext, Undoing
      <4>3. UndoNext(c) \in 1 .. Len(log) /\ log[UndoNext(c)].tx = txid[c]
        BY <1>1, <1>2, <3>1, <4>2, PrevOfOwn
      <4> QED BY <1>4, <4>1, <4>3 DEF CursorOwn
    <3>3. CASE AfterClr(c) # "rollback"
      <4>1. cursor'[c] = cursor[c]
        BY <1>4, <2>2, <3>3 DEF At
      <4> QED BY <1>4, <3>1, <4>1 DEF CursorOwn
    <3> QED BY <3>2, <3>3
  <2> QED BY <1>4, <1>5, <2>1, <2>2 DEF CursorOwn
<1>8. WritesOwned(c)'
  <2>1. pc[c] # "unlock"
    BY <1>2 DEF Setting
  <2>2. pc'[c] \notin {"reply", "log", "set_update"} /\ (pc'[c] = "apply" => pc[c] = "set_update")
    BY <1>4, <1>5
  <2> QED BY <1>1, <1>4, <2>1, <2>2 DEF ClientOK, WritesOwned
<1> QED BY <1>6, <1>7, <1>8 DEF ClientOK

\* A step of a rollback to the record before.
LEMMA CursorBack ==
  ASSUME TxnInv, NEW c \in Client, pc[c] \in {"rollback", "undo_apply"}, pc'[c] = "rollback",
         Undoing(c).type # "BEGIN", cursor'[c] = UndoNext(c),
         UNCHANGED <<log, owner, cmd, txid, last_lsn, new_lsn>>
  PROVE  ClientOK(c)'
<1>1. TypeOK /\ LogOK /\ ClientOK(c) /\ ThreadOK
  BY DEF TxnInv, LockInv
<1>2. /\ cursor[c] \in 1 .. Len(log) /\ log[cursor[c]].tx = txid[c] /\ txid[c] # 0
  BY <1>1 DEF ClientOK, CursorOwn, ThreadOK
<1>3. Undoing(c) = log[cursor[c]]
  BY <1>1, <1>2, GetLogAt DEF Undoing
<1>4. UndoNext(c) \in 1 .. Len(log) /\ log[UndoNext(c)].tx = txid[c]
  BY <1>1, <1>2, <1>3, PrevOfOwn DEF UndoNext
<1>5. CursorOwn(c)'
  BY <1>4 DEF CursorOwn
<1>6. LastKnown(c)'
  BY <1>1 DEF ClientOK, LastKnown, Setting
<1>7. WritesOwned(c)'
  BY <1>1 DEF ClientOK, WritesOwned
<1> QED BY <1>5, <1>6, <1>7 DEF ClientOK

\* Every step of a client that logs nothing.
LEMMA QuietKeeps ==
  ASSUME TxnInv, NEW c \in Client, Receiving(c) \/ Executing(c), ~ Logging(c)
  PROVE  LogOK' /\ TxIds' /\ ClientOK(c)' /\ log' = log
<1> DEFINE Result == LogOK' /\ TxIds' /\ ClientOK(c)' /\ log' = log
<1>0. /\ TypeOK /\ LogOK /\ ClientOK(c) /\ ThreadOK /\ LockInv
      /\ pc \in [Client -> PC] /\ cmd \in [Client -> Cmd] /\ txid \in [Client -> Nat]
      /\ last_lsn \in [Client -> Nat] /\ cursor \in [Client -> Nat]
      /\ owner \in [Stripe -> Client \cup {NoOwner}]
  BY DEF TxnInv, LockInv, TypeOK
<1>1. ASSUME UNCHANGED <<log, lsn, transaction_id>>, txid' \in {txid, [txid EXCEPT ![c] = 0]}
      PROVE  LogOK' /\ TxIds' /\ log' = log
  BY <1>0, <1>1, LogKept, TxIdsKept
<1>2. ASSUME Begin(c) PROVE Result
  BY <1>2, StartKeeps DEF Begin
<1>3. ASSUME NEW op, NEW k, NEW v, Receive(c, op, k, v) PROVE Result
  <2>1. CASE StartTx(c)
    BY <1>3, <2>1, StartKeeps DEF Receive
  <2>2. CASE ~ StartTx(c)
    <3>1. /\ txid[c] # 0 /\ pc[c] = "ready" /\ pc'[c] = "lock"
          /\ UNCHANGED <<log, lsn, transaction_id, owner, txid, last_lsn>>
      BY <1>0, <1>3, <2>2 DEF Receive, At, Goto
    <3>2. ClientOK(c)'
      BY <1>0, <3>1 DEF ClientOK, LastKnown, CursorOwn, WritesOwned, Setting
    <3> QED BY <1>1, <3>1, <3>2
  <2> QED BY <2>1, <2>2
<1>4. ASSUME Disconnect(c) PROVE Result
  <2>1. /\ pc[c] = "ready" /\ pc'[c] = "gone"
        /\ UNCHANGED <<log, lsn, transaction_id, owner, txid, last_lsn>>
    BY <1>0, <1>4 DEF Disconnect, At, Goto
  <2>2. ClientOK(c)'
    BY <1>0, <2>1 DEF ClientOK, LastKnown, CursorOwn, WritesOwned, Setting
  <2> QED BY <1>1, <2>1, <2>2
<1>5. ASSUME SetLast(c) PROVE Result
  BY <1>1, <1>5, SetLastKeeps DEF SetLast
<1>6. ASSUME Lock(c) PROVE Result
  <2> DEFINE s == StripeOf[cmd[c].key]
  <2>1. cmd[c].key \in Key
    BY <1>0, <1>6 DEF Lock, At, ThreadOK
  <2>2. s \in Stripe
    BY <2>1, TxnConstants
  <2>3. owner'[s] = c /\ \A t \in Stripe : owner[t] = c => owner'[t] = c
    BY <1>0, <1>6, <2>2 DEF Lock
  <2>4. /\ pc[c] = "lock" /\ pc'[c] \in {"reply", "log"}
        /\ UNCHANGED <<log, lsn, transaction_id, txid, last_lsn, cmd>>
    BY <1>0, <1>6 DEF Lock, At, Goto
  <2>5. LastKnown(c)' /\ CursorOwn(c)'
    BY <1>0, <2>4 DEF ClientOK, LastKnown, CursorOwn, Setting
  <2>6. WritesOwned(c)'
    <3>1. ASSUME txid[c] # 0, NEW i \in DOMAIN log, log[i].tx = txid[c], log[i].type = "UPDATE"
          PROVE  owner'[StripeOf[log[i].key]] = c
      <4>1. owner[StripeOf[log[i].key]] = c
        BY <1>0, <2>4, <3>1 DEF ClientOK, WritesOwned
      <4>2. StripeOf[log[i].key] \in Stripe
        BY <1>0, <3>1, TxnConstants DEF LogOK, RecordOK
      <4> QED BY <2>3, <4>1, <4>2
    <3> QED BY <2>3, <2>4, <3>1 DEF WritesOwned
  <2> QED BY <1>1, <2>4, <2>5, <2>6 DEF ClientOK
<1>7. ASSUME Reply(c) \/ Apply(c) PROVE Result
  <2>1. /\ pc[c] \in {"reply", "apply"} /\ pc'[c] \in {"commit_log", "ready"}
        /\ UNCHANGED <<log, lsn, transaction_id, owner, txid, last_lsn>>
    BY <1>0, <1>7 DEF Reply, Apply, Finish, At, Goto
  <2>2. ClientOK(c)'
    BY <1>0, <2>1 DEF ClientOK, LastKnown, CursorOwn, WritesOwned, Setting
  <2> QED BY <1>1, <2>1, <2>2
<1>8. ASSUME SkipRecord(c) PROVE Result
  <2>1. cursor'[c] = UndoNext(c) /\ pc[c] = "rollback" /\ pc' = pc /\ Undoing(c).type # "BEGIN"
    BY <1>0, <1>8 DEF SkipRecord, At
  <2> QED BY <1>1, <1>8, <2>1, CursorBack DEF SkipRecord
<1>9. ASSUME UndoApply(c) PROVE Result
  <2>1. cursor'[c] = UndoNext(c) /\ pc[c] = "undo_apply" /\ pc'[c] = "rollback"
    BY <1>0, <1>9 DEF UndoApply, At, Goto
  <2>2. Undoing(c).type # "BEGIN"
    <3>1. cursor[c] \in 1 .. Len(log) /\ log[cursor[c]].type = "UPDATE"
      BY <1>0, <2>1 DEF ClientOK, CursorOwn
    <3> QED BY <1>0, <3>1, GetLogAt DEF Undoing
  <2> QED BY <1>1, <1>9, <2>1, <2>2, CursorBack DEF UndoApply
<1>10. ASSUME Unlock(c) PROVE Result
  <2>1. /\ pc[c] = "unlock"
        /\ UNCHANGED <<log, lsn, transaction_id, txid, last_lsn, pc, cmd>>
    BY <1>10 DEF Unlock, At
  <2>2. ClientOK(c)'
    BY <1>0, <2>1 DEF ClientOK, LastKnown, CursorOwn, WritesOwned, Setting
  <2> QED BY <1>1, <2>1, <2>2
<1>11. ASSUME Leave(c) PROVE Result
  <2>1. /\ pc'[c] = "ready" /\ txid'[c] = 0 /\ txid' = [txid EXCEPT ![c] = 0]
        /\ UNCHANGED <<log, lsn, transaction_id>>
    BY <1>0, <1>11 DEF Leave, Goto
  <2>2. ClientOK(c)'
    BY <2>1 DEF ClientOK, LastKnown, CursorOwn, WritesOwned
  <2> QED BY <1>1, <2>1, <2>2
<1> QED BY <1>2, <1>3, <1>4, <1>5, <1>6, <1>7, <1>8, <1>9, <1>10, <1>11
        DEF Receiving, Executing, Get, Set, Del

\* The checkpoint's record belongs to no transaction.
LEMMA CheckpointKeeps ==
  ASSUME TxnInv, CkptBegin \/ CkptLog
  PROVE  LogOK' /\ TxIds' /\ \A d \in Client : ClientOK(d)'
<1>0. TypeOK /\ LogOK /\ LockInv
  BY DEF TxnInv, LockInv
<1>1. TxIds'
  BY DEF TxnInv, TxIds, CkptBegin, CkptLog
<1>2. ASSUME NEW d \in Client, txid[d] # 0 => Without(log, log', txid[d]) PROVE ClientOK(d)'
  <2>1. UNCHANGED <<pc, cmd, txid, last_lsn, new_lsn, cursor, owner>>
    BY DEF CkptBegin, CkptLog
  <2> QED BY <1>0, <1>2, <2>1, OtherClient DEF TxnInv
<1>3. CASE CkptBegin
  <2>1. LogOK'
    BY <1>0, <1>3, LogKept DEF CkptBegin
  <2>2. ASSUME NEW d \in Client PROVE Without(log, log', txid[d])
    BY <1>0, <1>3, StepWithout DEF CkptBegin
  <2> QED BY <1>1, <1>2, <2>1, <2>2
<1>4. CASE CkptLog
  <2>1. PICK tail \in Uninitialised :
          log' = Append(log, CheckRecord(lsn + 1, OngoingList \o tail))
    BY <1>4 DEF CkptLog
  <2> DEFINE r == CheckRecord(lsn + 1, OngoingList \o tail)
  <2>2. r.lsn = lsn + 1 /\ r.tx = 0 /\ r.type = "CHECK"
    BY DEF CheckRecord
  <2>3. r \in Record
    <3>1. lsn + 1 \in Nat /\ OngoingList \o tail \in Seq(Ongoing)
      BY <1>0, <2>1, OngoingListType DEF TypeOK
    <3> QED BY <3>1, CheckRecordType
  <2>4. log' = Append(log, r) /\ lsn' = lsn + 1 /\ transaction_id' = transaction_id
    BY <1>4, <2>1 DEF CkptLog
  <2> HIDE DEF r
  <2>5. r.tx <= transaction_id
    BY <1>0, <2>2 DEF TypeOK
  <2>6. LogOK'
    BY <1>0, <2>2, <2>3, <2>4, <2>5, LogGrown
  <2>7. ASSUME NEW d \in Client, txid[d] # 0 PROVE Without(log, log', txid[d])
    BY <1>0, <2>2, <2>3, <2>4, <2>7, StepWithout
  <2> QED BY <1>1, <1>2, <2>6, <2>7
<1> QED BY <1>3, <1>4

LEMMA TxnInvInit == Init => TxnInv
<1> SUFFICES ASSUME Init PROVE TxnInv
  OBVIOUS
<1>1. Len(log) = 0 /\ DOMAIN log = {} /\ lsn = 0
  BY EmptySeq DEF Init
<1>2. LogOK
  BY <1>1 DEF LogOK
<1>3. TxIds
  BY DEF Init, TxIds, NoThread
<1>4. \A c \in Client : ClientOK(c)
  BY DEF Init, ClientOK, LastKnown, CursorOwn, WritesOwned, NoThread
<1> QED BY <1>2, <1>3, <1>4, LockInvInit DEF TxnInv

LEMMA TxnInvNext == TxnInv /\ [Next]_vars => TxnInv'
<1> SUFFICES ASSUME TxnInv, [Next]_vars PROVE TxnInv'
  OBVIOUS
<1>1. LockInv'
  BY LockInvNext DEF TxnInv
<1>2. ASSUME NEW c \in Client, Receiving(c) \/ Executing(c)
      PROVE  LogOK' /\ TxIds' /\ \A d \in Client : ClientOK(d)'
  <2>1. LogOK' /\ TxIds' /\ ClientOK(c)'
    BY <1>2, LoggingKeeps, QuietKeeps
  <2>2. \/ log' = log
        \/ \E r \in Record : log' = Append(log, r) /\ r.tx = txid[c]
    BY <1>2, LoggingKeeps, QuietKeeps
  <2> QED BY <1>2, <2>1, <2>2, Others
<1>3. CASE CkptBegin \/ CkptLog
  BY <1>1, <1>3, CheckpointKeeps DEF TxnInv
<1>4. CASE UNCHANGED vars
  BY <1>1, <1>4 DEF TxnInv, LogOK, RecordOK, TxIds, ClientOK, LastKnown, IsLast, CursorOwn,
                    WritesOwned
<1> QED BY <1>1, <1>2, <1>3, <1>4 DEF Next, TxnInv

LEMMA TxnInvAlways == Spec => []TxnInv
BY TxnInvInit, TxnInvNext, PTL DEF Spec

\* A rollback finds every record it asks for, and they are its own: the NULL
\* that kv_recovery_get_log may return, and that ends the server, never comes.
THEOREM RollbackFinds == Spec => []RollbackFindsItsRecords
<1>1. TxnInv => RollbackFindsItsRecords
  <2> SUFFICES ASSUME TxnInv, NEW c \in Client, pc[c] \in {"rollback", "set_clr", "undo_apply"}
               PROVE  HasLog(log, cursor[c]) /\ Undoing(c).tx = txid[c]
    BY DEF RollbackFindsItsRecords
  <2>1. cursor[c] \in 1 .. Len(log) /\ log[cursor[c]].tx = txid[c]
    BY DEF TxnInv, ClientOK, CursorOwn
  <2> QED BY <2>1, GetLogAt DEF TxnInv, LockInv, Undoing
<1> QED BY <1>1, TxnInvAlways, PTL

\* LSNs are line numbers, and prev_lsn is the LSN of the transaction's record
\* before, though the thread learns that LSN outside lsn_lock.
THEOREM ChainHolds == Spec => []PrevChain
<1>1. TxnInv => PrevChain
  <2> SUFFICES ASSUME TypeOK, LogOK PROVE PrevChain
    BY DEF TxnInv, LockInv
  <2>1. DOMAIN log = 1 .. Len(log) /\ Len(log) \in Nat
    BY LogIsSeq
  <2>2. ASSUME NEW i \in DOMAIN log, log[i].tx # 0
        PROVE  log[i].prev = IF RecordsBefore(log[i].tx, i) = {} THEN 0
                             ELSE Max(RecordsBefore(log[i].tx, i))
    <3> DEFINE before == RecordsBefore(log[i].tx, i)
               p == log[i].prev
    <3>1. RecordOK(i) /\ i \in 1 .. Len(log)
      BY <2>1 DEF LogOK
    <3>2. /\ p \in 0 .. i - 1
          /\ p # 0 => log[p].tx = log[i].tx
          /\ \A j \in 1 .. i - 1 : log[j].tx = log[i].tx => j <= p
      BY <2>2, <3>1 DEF RecordOK
    <3>3. p # 0 => p \in before
      BY <2>1, <3>1, <3>2 DEF RecordsBefore
    <3>4. \A j \in before : j <= p /\ j \in Nat /\ j # 0
      BY <3>2 DEF RecordsBefore
    <3> HIDE DEF before, p
    <3>5. CASE before = {}
      BY <3>3, <3>5 DEF before, p
    <3>6. CASE before # {}
      <4>1. p \in Nat
        BY <2>1, <3>1, <3>2
      <4>2. p # 0
        BY <3>4, <3>6, <4>1
      <4>3. p \in before /\ \A j \in before : p >= j
        BY <3>3, <3>4, <4>1, <4>2
      <4>4. ASSUME NEW x \in before, \A j \in before : x >= j PROVE x = p
        BY <3>4, <4>1, <4>3, <4>4
      <4>5. Max(before) = p
        BY <4>3, <4>4 DEF Max
      <4> QED BY <3>6, <4>5 DEF before, p
    <3> QED BY <3>5, <3>6
  <2>3. lsn = Len(log) /\ \A i \in DOMAIN log : log[i].lsn = i
    BY DEF LogOK, RecordOK
  <2> QED BY <2>2, <2>3 DEF PrevChain, RecordsBefore
<1> QED BY <1>1, TxnInvAlways, PTL

\* Every change of the hash table is made by a client that owns the key's lock,
\* keeps it over the change, and has logged an update of the key.
THEOREM WritesStrict == Spec => StrictWrite
<1>1. TxnInv /\ [Next]_vars =>
        [\A k \in Key : ht'[k] # ht[k] =>
           \E c \in Client :
             /\ owner[StripeOf[k]] = c /\ owner'[StripeOf[k]] = c
             /\ UpdatesOf(log, {txid[c]}, k) # {}]_vars
  <2> SUFFICES ASSUME TxnInv, Next, NEW k \in Key, ht'[k] # ht[k]
               PROVE  \E c \in Client :
                        /\ owner[StripeOf[k]] = c /\ owner'[StripeOf[k]] = c
                        /\ UpdatesOf(log, {txid[c]}, k) # {}
    OBVIOUS
  <2>1. PICK c \in Client : Apply(c) \/ UndoApply(c)
    BY ZenonT(60) DEF Next, Receiving, Executing, Logging, Begin, Get, Set, Del, Receive, Disconnect,
           BeginLog, UpdateLog, CommitLog, AbortLog, ClrLog, EndLog, SetLast, Lock, Reply,
           SkipRecord, Unlock, Leave, CkptBegin, CkptLog
  <2>2. TypeOK /\ LogOK /\ ClientOK(c) /\ ht \in [Key -> HtValue] /\ owner' = owner
    BY <2>1 DEF TxnInv, LockInv, TypeOK, Apply, UndoApply
  <2>3. CASE Apply(c)
    <3>1. pc[c] = "apply" /\ k = cmd[c].key
      BY <2>2, <2>3 DEF Apply, At
    <3>2. /\ owner[StripeOf[k]] = c
          /\ \E i \in DOMAIN log :
               log[i].tx = txid[c] /\ log[i].type = "UPDATE" /\ log[i].key = k
      BY <2>2, <3>1 DEF ClientOK, WritesOwned
    <3> QED BY <2>2, <3>2 DEF UpdatesOf
  <2>4. CASE UndoApply(c)
    <3>1. /\ pc[c] = "undo_apply" /\ cursor[c] \in 1 .. Len(log)
          /\ log[cursor[c]].tx = txid[c] /\ log[cursor[c]].type = "UPDATE"
      BY <2>2, <2>4 DEF UndoApply, At, ClientOK, CursorOwn
    <3>2. Undoing(c) = log[cursor[c]] /\ cursor[c] \in DOMAIN log /\ txid[c] # 0
      BY <2>2, <3>1, GetLogAt, LogIsSeq DEF Undoing, TxnInv, LockInv, ThreadOK
    <3>3. k = log[cursor[c]].key
      BY <2>2, <2>4, <3>2 DEF UndoApply
    <3>4. owner[StripeOf[k]] = c
      BY <2>2, <3>1, <3>2, <3>3 DEF ClientOK, WritesOwned
    <3> QED BY <2>2, <3>1, <3>2, <3>3, <3>4 DEF UpdatesOf
  <2> QED BY <2>1, <2>3, <2>4
<1> QED BY <1>1, TxnInvAlways, PTL DEF Spec, StrictWrite
=============================================================================
