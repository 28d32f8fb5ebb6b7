------------------------- MODULE KVRecoveryProofs -------------------------
(***************************************************************************)
(* The server across crashes, for every set of clients, keys, values and   *)
(* locks, whatever an uninitialised list element holds, and every bound:   *)
(* the ids of transactions, the files of the snapshot process, what a      *)
(* rollback asks of the log, what rollbacks write, a rollback that a crash *)
(* cuts short and recovery's undo goes on with included, and the values a  *)
(* restarted server has.                                                   *)
(***************************************************************************)
EXTENDS KVRecovery, KVValueProofs, FiniteSetTheorems

USE DEF vars, logVars, lockVars, diskVars, recoveryVars, allVars

(***************************************************************************)
(* The inductive invariant: types, ids, files, records.                    *)
(***************************************************************************)
Tables == [Key -> HtValue]

Process == [pc : {"snapshot", "create", "last_lsn"}, lsn : Nat \ {0}, ht : Tables, own : BOOLEAN]

DiskTypeOK ==
  /\ DOMAIN snapshots \subseteq Nat \ {0}
  /\ \A n \in DOMAIN snapshots : snapshots[n] \in Tables
  /\ last_checked \in {Missing, Blank} \cup (Nat \ {0})
  /\ children \subseteq Process
  /\ rec \in [check : Int, todo : Seq(Ongoing), tx : Nat, last : Nat, cursor : Nat]

Types == LockInv /\ DiskTypeOK /\ transaction_id <= MaxTx

\* Recovery runs before any client's thread.
Alone ==
  server \notin {"up", "dead"} => \A c \in Client : pc[c] = "ready" /\ txid[c] = 0

Begun(i) == log[i].type = "BEGIN"

\* The counter is never behind a transaction that has begun, or is about to.
IdsInv ==
  /\ TxIds /\ TxIdsUnique
  /\ \A i \in DOMAIN log : Begun(i) => log[i].tx <= transaction_id
  /\ \A c \in Client : pc[c] = "begin_log" =>
       \A i \in DOMAIN log : Begun(i) => log[i].tx # txid[c]

\* A snapshot process has its CHECK record in the log from its first step on,
\* and its snapshot is there before last_checked_lsn.kvdb is touched.
IsCheck(n) == \E i \in DOMAIN log : log[i].lsn = n /\ log[i].type = "CHECK"

CheckedInv ==
  /\ last_checked > 0 => last_checked \in DOMAIN snapshots /\ IsCheck(last_checked)
  /\ \A p \in children : IsCheck(p.lsn) /\ (p.pc # "snapshot" => p.lsn \in DOMAIN snapshots)

\* The log l has a record with LSN n, and it is transaction tx's.
OwnRecord(l, n, tx) == tx # 0 /\ n \in 1 .. Len(l) /\ l[n].tx = tx

Unwinding == {"ABORT", "CLR", "END"}

\* prev_lsn and undo_next_lsn lead back within a transaction, to its BEGIN
\* record; behind an ABORT there is only what unwinds; a checkpoint lists
\* records that are there.
Chained(i) ==
  /\ log[i].lsn = i /\ log[i].tx <= transaction_id
  /\ log[i].tx # 0 =>
       /\ log[i].prev \in 0 .. i - 1
       /\ log[i].prev = 0 => log[i].type = "BEGIN"
       /\ log[i].prev # 0 => OwnRecord(log, log[i].prev, log[i].tx)
       /\ log[i].type = "CLR" => OwnRecord(log, log[i].undo_next, log[i].tx)
       /\ log[i].type \notin Unwinding =>
            \A j \in 1 .. i - 1 : log[j].tx = log[i].tx => log[j].type # "ABORT"
  /\ \A n \in DOMAIN log[i].list : OwnRecord(log, log[i].list[n].last_lsn, log[i].list[n].tx_id)

\* What a client knows of the log.
Knows(c) ==
  /\ last_lsn[c] # 0 => OwnRecord(log, last_lsn[c], txid[c])
  /\ txid[c] # 0 /\ pc[c] \notin {"begin_log", "set_begin"} => last_lsn[c] # 0
  /\ pc[c] \in Setting => OwnRecord(log, new_lsn[c], txid[c])
  /\ pc[c] \in {"rollback", "set_clr", "undo_apply"} => OwnRecord(log, cursor[c], txid[c])
  /\ pc[c] \in {"set_clr", "undo_apply"} => log[cursor[c]].type = "UPDATE"
  /\ txid[c] # 0
     /\ pc[c] \notin {"set_abort", "rollback", "set_clr", "undo_apply", "set_end", "unlock"} =>
       \A i \in DOMAIN log : log[i].tx = txid[c] => log[i].type # "ABORT"

\* A server that found one record begins with lsn 0, and gives LSN 1 again.
OneTwice == Len(log) >= 2 /\ log[2].lsn = 1

\* What recovery knows of it.
RecKnows ==
  /\ server \in {"up", "analyze", "undo"} => lsn = Len(log) \/ (lsn = 0 /\ Len(log) = 1)
  /\ server \in {"analyze", "undo"} =>
       \A n \in DOMAIN rec.todo : OwnRecord(log, rec.todo[n].last_lsn, rec.todo[n].tx_id)
  /\ server = "undo" => OwnRecord(log, rec.cursor, rec.tx) /\ OwnRecord(log, rec.last, rec.tx)

Sound == (\A i \in DOMAIN log : Chained(i)) /\ (\A c \in Client : Knows(c)) /\ RecKnows

RecoveryInv == Types /\ Alone /\ IdsInv /\ CheckedInv /\ (Misled \/ Sound)

(***************************************************************************)
(* Types.                                                                  *)
(***************************************************************************)
RecType == [check : Int, todo : Seq(Ongoing), tx : Nat, last : Nat, cursor : Nat]

\* The running server's steps are those of KVTxn.
LEMMA RunningIsTxn == Running \/ Checkpoint \/ Fork => Next
BY DEF Running, Checkpoint, Fork, Next

\* What a step of a recovery leaves alone.
Still ==
  UNCHANGED <<transaction_id, tx_list, lockVars, ckpt, pc, cmd, txid, last_lsn, new_lsn,
              old, cursor>>

\* The clients' part of the types does not depend on the log's length.
LEMMA StillTyped ==
  ASSUME LockInv, Still, lsn' \in Nat, ht' \in Tables,
         log' = log \/ \E r \in Record : log' = Append(log, r)
  PROVE  LockInv'
<1>1. log' \in Seq(Record) /\ \A n : HasLog(log, n) => HasLog(log', n)
  BY ZenonT(60), AppendKeeps DEF LockInv, TypeOK
<1>2. TypeOK'
  BY <1>1 DEF LockInv, TypeOK, Still, Tables
<1>3. LocksMatchList'
  BY DEF LockInv, LocksMatchList, Still
<1>4. ThreadOK'
  BY <1>1 DEF LockInv, ThreadOK, Still
<1> QED BY <1>2, <1>3, <1>4 DEF LockInv

\* The record a recovery appends.
LEMMA UndoTyped ==
  ASSUME LockInv, DiskTypeOK, HasLog(log, rec.cursor)
  PROVE  /\ GetLog(log, rec.cursor) \in Record /\ rec \in RecType
         /\ GetLog(log, rec.cursor).prev \in Nat
         /\ TxRecord(lsn + 1, rec.cursor, rec.tx, "END") \in Record
         /\ DataRecord(lsn + 1, rec.last, rec.tx, "CLR", GetLog(log, rec.cursor).prev,
                       GetLog(log, rec.cursor).key, GetLog(log, rec.cursor).new,
                       GetLog(log, rec.cursor).old) \in Record
<1>1. GetLog(log, rec.cursor) \in Record
  BY GetLogType DEF LockInv, TypeOK
<1>2. /\ rec.last \in Nat /\ rec.tx \in Nat /\ rec.cursor \in Nat /\ lsn + 1 \in Nat
      /\ rec \in RecType
  BY DEF DiskTypeOK, LockInv, TypeOK, RecType
<1>3. /\ GetLog(log, rec.cursor).prev \in Nat
      /\ GetLog(log, rec.cursor).key \in Key \cup {NoKey}
      /\ GetLog(log, rec.cursor).new \in LogValue /\ GetLog(log, rec.cursor).old \in LogValue
  BY <1>1 DEF Record
<1>4. "END" \in LogType /\ "CLR" \in LogType
  BY DEF LogType
<1>5. TxRecord(lsn + 1, rec.cursor, rec.tx, "END") \in Record
  BY <1>2, <1>4, TxRecordType
<1> HIDE DEF Record
<1>6. DataRecord(lsn + 1, rec.last, rec.tx, "CLR", GetLog(log, rec.cursor).prev,
                 GetLog(log, rec.cursor).key, GetLog(log, rec.cursor).new,
                 GetLog(log, rec.cursor).old) \in Record
  BY <1>2, <1>3, <1>4, DataRecordType
<1> QED BY <1>1, <1>2, <1>3, <1>5, <1>6

\* The next listed transaction, and what the analysis finds of it.
LEMMA FoundIs ==
  ASSUME LockInv, DiskTypeOK, NEW entry \in Ongoing, NEW types
  PROVE  /\ Found(entry, types) \in SUBSET Nat
         /\ \A n \in Found(entry, types) :
              HasLog(log, n) /\ GetLog(log, n).tx = entry.tx_id /\ GetLog(log, n).type \in types
         /\ Found(entry, types) # {} =>
              /\ Max(Found(entry, types)) \in Found(entry, types)
              /\ \A n \in Found(entry, types) : n <= Max(Found(entry, types))
<1> DEFINE from == Larger(rec.check, entry.last_lsn) + 1
           S == Found(entry, types)
<1>1. from \in Nat /\ Len(log) \in Nat
  BY LogIsSeq DEF Larger, Ongoing, DiskTypeOK, LockInv
<1>2. S \in SUBSET (0 .. from + Len(log))
  BY <1>1 DEF Found, ReadFrom
<1>3. S \in SUBSET Nat
  BY <1>2
<1>4. ASSUME NEW n \in S
      PROVE  HasLog(log, n) /\ GetLog(log, n).tx = entry.tx_id /\ GetLog(log, n).type \in types
  BY <1>1, <1>4 DEF Found, ReadFrom
<1>5. ASSUME S # {} PROVE Max(S) \in S /\ \A n \in S : n <= Max(S)
  <2>1. from + Len(log) \in Nat
    BY <1>1
  <2> HIDE DEF from, S
  <2>2. PICK m \in S : IsLargest(S, m)
    BY <1>2, <1>5, <2>1, LargestExists
  <2>3. Max(S) = m
    BY <1>3, <2>2, LargestIs
  <2> QED BY <2>2, <2>3 DEF IsLargest
<1> QED BY <1>3, <1>4, <1>5

LEMMA AnalyzeTyped ==
  ASSUME LockInv, DiskTypeOK, rec.todo # <<>>
  PROVE  /\ Head(rec.todo) \in Ongoing /\ Tail(rec.todo) \in Seq(Ongoing)
         /\ LastFound(Head(rec.todo)) \in Nat
         /\ TxRecord(lsn + 1, LastFound(Head(rec.todo)), Head(rec.todo).tx_id, "ABORT") \in Record
<1>1. rec.todo \in Seq(Ongoing)
  BY DEF DiskTypeOK
<1>2. Head(rec.todo) \in Ongoing /\ Tail(rec.todo) \in Seq(Ongoing)
  BY <1>1, HeadTailProperties
<1>3. LastFound(Head(rec.todo)) \in Nat
  <2>1. Found(Head(rec.todo), LogType) # {} =>
          Max(Found(Head(rec.todo), LogType)) \in Nat
    BY <1>2, FoundIs
  <2> QED BY <1>2, <2>1 DEF LastFound, Ongoing
<1>4. Head(rec.todo).tx_id \in Nat /\ lsn + 1 \in Nat /\ "ABORT" \in LogType
  BY <1>2 DEF Ongoing, LockInv, TypeOK, LogType
<1> QED BY <1>2, <1>3, <1>4, TxRecordType

LEMMA AnalyzeIs ==
  ASSUME LockInv, DiskTypeOK, Analyze
  PROVE  /\ Still /\ UNCHANGED <<ht, diskVars, children>>
         /\ rec' \in RecType
         /\ \/ UNCHANGED logVars
            \/ LET r == TxRecord(lsn + 1, LastFound(Head(rec.todo)), Head(rec.todo).tx_id, "ABORT")
               IN  r \in Record /\ log' = Append(log, r) /\ lsn' = lsn + 1
<1> DEFINE entry == Head(rec.todo)
           last == LastFound(entry)
           r == TxRecord(lsn + 1, last, entry.tx_id, "ABORT")
<1>1. /\ entry \in Ongoing /\ Tail(rec.todo) \in Seq(Ongoing) /\ last \in Nat /\ r \in Record
      /\ rec \in RecType
  BY AnalyzeTyped DEF Analyze, DiskTypeOK, RecType
<1>2. NextListed(Tail(rec.todo)) \in RecType
  BY <1>1 DEF NextListed, NoRec, RecType
<1>3. ASSUME NEW n \in Nat
      PROVE  [rec EXCEPT !.todo = Tail(rec.todo), !.tx = entry.tx_id, !.last = last,
                         !.cursor = n] \in RecType
  <2>1. entry.tx_id \in Nat
    BY <1>1 DEF Ongoing
  <2> HIDE DEF entry, last
  <2> QED BY <1>1, <1>3, <2>1 DEF RecType
<1>4. ASSUME AbortStarted(entry) PROVE GetLog(log, last) \in Record
  <2>1. PICK a \in Found(entry, {"ABORT"}) : TRUE
    BY <1>4 DEF AbortStarted
  <2>2. a \in Found(entry, LogType)
    BY <2>1 DEF Found, LogType
  <2>3. HasLog(log, last)
    BY <1>1, <2>2, FoundIs DEF LastFound
  <2> QED BY <2>3, GetLogType DEF LockInv, TypeOK
<1>5. ASSUME AbortStarted(entry)
      PROVE  (IF GetLog(log, last).type = "ABORT"
              THEN GetLog(log, last).prev ELSE GetLog(log, last).undo_next) \in Nat
  BY <1>4, <1>5 DEF Record
<1>6. lsn + 1 \in Nat
  BY DEF LockInv, TypeOK
<1>7. Still /\ UNCHANGED <<ht, diskVars, children>>
  BY DEF Analyze, Still
<1>8. \/ rec' = NextListed(Tail(rec.todo)) /\ UNCHANGED logVars
      \/ /\ log' = Append(log, r) /\ lsn' = lsn + 1
         /\ rec' = [rec EXCEPT !.todo = Tail(rec.todo), !.tx = entry.tx_id, !.last = last,
                               !.cursor = lsn + 1]
      \/ /\ AbortStarted(entry) /\ UNCHANGED logVars
         /\ rec' = [rec EXCEPT !.todo = Tail(rec.todo), !.tx = entry.tx_id, !.last = last,
                               !.cursor = IF GetLog(log, last).type = "ABORT"
                                          THEN GetLog(log, last).prev
                                          ELSE GetLog(log, last).undo_next]
  BY DEF Analyze, RecoveryLog
<1> HIDE DEF entry, last, r
<1>9. rec' \in RecType
  BY <1>2, <1>3, <1>5, <1>6, <1>8
<1> QED BY <1>1, <1>7, <1>8, <1>9 DEF entry, last, r

LEMMA UndoIs ==
  ASSUME LockInv, DiskTypeOK, Undo
  PROVE  /\ Still /\ UNCHANGED <<ht, diskVars, children>>
         /\ rec' \in RecType
         /\ \/ UNCHANGED logVars
            \/ \E r \in Record :
                 /\ log' = Append(log, r) /\ lsn' = lsn + 1
                 /\ r.lsn = lsn + 1 /\ r.tx = rec.tx /\ r.type \in {"CLR", "END"}
<1> DEFINE at == GetLog(log, rec.cursor)
           end == TxRecord(lsn + 1, rec.cursor, rec.tx, "END")
           clr == DataRecord(lsn + 1, rec.last, rec.tx, "CLR", at.prev, at.key, at.new, at.old)
<1>1. HasLog(log, rec.cursor) =>
        end \in Record /\ clr \in Record /\ rec \in RecType /\ at.prev \in Nat
  BY UndoTyped
<1>2. /\ end.lsn = lsn + 1 /\ end.tx = rec.tx /\ end.type = "END"
      /\ clr.lsn = lsn + 1 /\ clr.tx = rec.tx /\ clr.type = "CLR"
  BY DEF TxRecord, DataRecord
<1>3. Still /\ UNCHANGED <<ht, diskVars, children>>
  BY DEF Undo, Still
<1>4. lsn + 1 \in Nat /\ rec \in RecType
  BY DEF LockInv, TypeOK, DiskTypeOK, RecType
<1>5. NextListed(rec.todo) \in RecType
  BY <1>4 DEF NextListed, NoRec, RecType
<1>6. \/ UNCHANGED <<log, lsn, rec>>
      \/ /\ HasLog(log, rec.cursor) /\ log' = Append(log, end) /\ lsn' = lsn + 1
         /\ rec' = NextListed(rec.todo)
      \/ /\ HasLog(log, rec.cursor) /\ log' = Append(log, clr) /\ lsn' = lsn + 1
         /\ rec' = [rec EXCEPT !.last = lsn + 1, !.cursor = at.prev]
      \/ /\ HasLog(log, rec.cursor) /\ UNCHANGED logVars
         /\ rec' = [rec EXCEPT !.cursor = at.prev]
  BY DEF Undo, RecoveryLog
<1> HIDE DEF at, end, clr
<1>7. rec' \in RecType
  <2>1. ASSUME at.prev \in Nat
        PROVE  /\ [rec EXCEPT !.last = lsn + 1, !.cursor = at.prev] \in RecType
               /\ [rec EXCEPT !.cursor = at.prev] \in RecType
    BY <1>4, <2>1 DEF RecType
  <2> QED BY <1>1, <1>4, <1>5, <1>6, <2>1
<1>8. \/ UNCHANGED logVars
      \/ \E r \in Record :
           /\ log' = Append(log, r) /\ lsn' = lsn + 1
           /\ r.lsn = lsn + 1 /\ r.tx = rec.tx /\ r.type \in {"CLR", "END"}
  BY <1>1, <1>2, <1>6
<1> QED BY <1>3, <1>7, <1>8

\* What is redone is a table.
LEMMA RedoneType ==
  ASSUME LockInv, DiskTypeOK, NEW t \in Tables, NEW n \in Nat
  PROVE  Redone(t, n) \in Tables
<1> SUFFICES ASSUME NEW k \in Key PROVE Redone(t, n)[k] \in HtValue
  BY DEF Redone, Tables
<1> DEFINE S == {m \in ReadFrom(n) :
                   GetLog(log, m).type \in {"UPDATE", "CLR"} /\ GetLog(log, m).key = k}
<1>1. Redone(t, n)[k] = IF S = {} THEN t[k] ELSE FromLog(GetLog(log, Max(S)).new)
  BY DEF Redone
<1>2. Len(log) \in Nat /\ n + Len(log) \in Nat
  BY LogIsSeq DEF LockInv
<1>3. S \in SUBSET (0 .. n + Len(log)) /\ S \in SUBSET Nat
  BY <1>2 DEF ReadFrom
<1>4. \A m \in S : HasLog(log, m)
  BY <1>2 DEF ReadFrom
<1> HIDE DEF S
<1>5. CASE S # {}
  <2>1. PICK m \in S : IsLargest(S, m)
    BY <1>2, <1>3, <1>5, LargestExists
  <2>2. Max(S) = m
    BY <1>3, <2>1, LargestIs
  <2>3. GetLog(log, m) \in Record
    BY <1>4, GetLogType DEF LockInv, TypeOK
  <2>4. GetLog(log, m).new \in LogValue
    BY <2>3 DEF Record
  <2> QED BY <1>1, <1>5, <2>2, <2>4, LogValues
<1> QED BY <1>1, <1>5 DEF Tables

\* After a crash everything but the files is as at the beginning.
LEMMA CrashIs ==
  ASSUME LockInv, DiskTypeOK, Crash
  PROVE  /\ LockInv' /\ rec' \in RecType /\ UNCHANGED <<log, transaction_id, diskVars>>
         /\ children' \subseteq Process
         /\ \A p \in children' : \E q \in children : p.pc = q.pc /\ p.lsn = q.lsn
         /\ pc' = [c \in Client |-> "ready"] /\ txid' = [c \in Client |-> 0]
         /\ last_lsn' = [c \in Client |-> 0]
<1>1. TypeOK'
  <2>1. /\ log' \in Seq(Record) /\ lsn' \in Nat /\ transaction_id' \in Nat
        /\ tx_list' \in Seq(Client) /\ ht' \in [Key -> HtValue]
    BY EmptySeq DEF Crash, LockInv, TypeOK, EmptyTable, HtValue
  <2>2. /\ owner' \in [Stripe -> Client \cup {NoOwner}] /\ lock_count' \in [Stripe -> Nat]
        /\ ckpt' \in [held : BOOLEAN, size : Nat] /\ held' \in [Client -> [Stripe -> Nat]]
    BY DEF Crash, NoLocks
  <2>3. /\ pc' \in [Client -> PC] /\ cmd' \in [Client -> Cmd] /\ txid' \in [Client -> Nat]
        /\ last_lsn' \in [Client -> Nat] /\ new_lsn' \in [Client -> Nat]
        /\ old' \in [Client -> HtValue] /\ cursor' \in [Client -> Nat]
    BY DEF Crash, NoThread, NoCmd, Cmd, PC, HtValue
  <2> QED BY <2>1, <2>2, <2>3 DEF TypeOK
<1>2. LocksMatchList'
  BY TxnConstants DEF Crash, LocksMatchList, NoLocks
<1>3. ThreadOK'
  BY DEF Crash, ThreadOK, NoCmd
<1>4. rec' \in RecType
  BY EmptySeq DEF Crash, NoRec, RecType, Missing
<1>5. PICK survive \in SUBSET children : children' = {[p EXCEPT !.own = FALSE] : p \in survive}
  BY DEF Crash
<1>6. ASSUME NEW q \in survive
      PROVE  /\ [q EXCEPT !.own = FALSE] \in Process
             /\ [q EXCEPT !.own = FALSE].pc = q.pc /\ [q EXCEPT !.own = FALSE].lsn = q.lsn
  <2>1. q \in Process
    BY DEF DiskTypeOK
  <2> QED BY <2>1 DEF Process
<1>7. ASSUME NEW p \in children'
      PROVE  p \in Process /\ \E q \in children : p.pc = q.pc /\ p.lsn = q.lsn
  <2>1. PICK q \in survive : p = [q EXCEPT !.own = FALSE]
    BY <1>5
  <2> QED BY <1>6, <2>1
<1> QED BY <1>1, <1>2, <1>3, <1>4, <1>7 DEF LockInv, Crash, NoThread

\* The last LSN that is read back is a number.
LEMMA RestartIs ==
  ASSUME LockInv, DiskTypeOK, RecoverStart
  PROVE  /\ Still /\ UNCHANGED <<log, ht, diskVars, children>> /\ lsn' \in Nat
         /\ rec' \in RecType
<1>1. Len(log) \in Nat /\ \A i \in 1 .. Len(log) : log[i].lsn \in Nat
  BY LogIsSeq DEF LockInv
<1>2. LastLsn \in Nat
  BY <1>1 DEF LastLsn
<1>3. Listed(last_checked) \in Seq(Ongoing)
  <2>1. CASE HasLog(log, last_checked)
    <3>1. GetLog(log, last_checked) \in Record
      BY <2>1, GetLogType DEF LockInv, TypeOK
    <3> QED BY <2>1, <3>1 DEF Listed, Record
  <2>2. CASE ~HasLog(log, last_checked)
    BY <2>2, EmptySeq DEF Listed
  <2> QED BY <2>1, <2>2
<1>4. last_checked \in Int
  BY DEF DiskTypeOK, Missing, Blank
<1>5. rec' \in RecType
  BY <1>3, <1>4 DEF RecoverStart, NoRec, RecType
<1> QED BY <1>2, <1>5 DEF RecoverStart, Still

\* The four steps of a snapshot process.
LEMMA ForkTyped ==
  ASSUME Types, Fork
  PROVE  /\ SnapshotProcess("snapshot") \in Process
         /\ children' = children \cup {SnapshotProcess("snapshot")}
         /\ UNCHANGED <<diskVars, rec>>
BY DEF Fork, SnapshotProcess, Process, Types, LockInv, TypeOK, Tables

LEMMA ProcessTyped ==
  ASSUME DiskTypeOK, WriteSnapshot \/ CreateLastChecked \/ WriteLastChecked
  PROVE  DiskTypeOK'
<1>0. ASSUME NEW p \in children PROVE p \in Process /\ p.lsn \in Nat \ {0} /\ p.ht \in Tables
  BY DEF DiskTypeOK, Process
<1>1. ASSUME NEW p \in children, NEW at \in {"snapshot", "create", "last_lsn"}, Continues(p, at)
      PROVE  children' \subseteq Process
  <2>1. [p EXCEPT !.pc = at] \in Process
    BY <1>0 DEF Process
  <2> QED BY <1>1, <2>1 DEF Continues, DiskTypeOK
<1>2. CASE WriteSnapshot
  <2>1. PICK p \in children :
          /\ snapshots' = [n \in DOMAIN snapshots \cup {p.lsn} |->
                             IF n = p.lsn THEN p.ht ELSE snapshots[n]]
          /\ Continues(p, IF last_checked = Missing THEN "create" ELSE "last_lsn")
          /\ UNCHANGED <<last_checked, rec>>
    BY <1>2 DEF WriteSnapshot
  <2>2. children' \subseteq Process
    BY <1>1, <2>1
  <2>3. /\ DOMAIN snapshots' \subseteq Nat \ {0}
        /\ \A n \in DOMAIN snapshots' : snapshots'[n] \in Tables
        /\ DOMAIN snapshots \subseteq DOMAIN snapshots'
    BY <1>0, <2>1 DEF DiskTypeOK
  <2> QED BY <2>1, <2>2, <2>3 DEF DiskTypeOK
<1>3. CASE CreateLastChecked
  <2>1. PICK p \in children : last_checked' = Blank /\ Continues(p, "last_lsn")
                              /\ UNCHANGED <<snapshots, rec>>
    BY <1>3 DEF CreateLastChecked
  <2>2. children' \subseteq Process
    BY <1>1, <2>1
  <2> QED BY <2>1, <2>2 DEF DiskTypeOK
<1>4. CASE WriteLastChecked
  <2>1. PICK p \in children : /\ p.pc = "last_lsn" /\ last_checked' = p.lsn
                              /\ children' = children \ {p} /\ UNCHANGED <<snapshots, rec>>
    BY <1>4 DEF WriteLastChecked
  <2> QED BY <1>0, <2>1 DEF DiskTypeOK
<1> QED BY <1>2, <1>3, <1>4

\* What is read back of a number of eight digits.
LEMMA PlaceValues ==
  /\ Place[1] = 268435456 /\ Place[2] = 16777216 /\ Place[3] = 1048576
  /\ Place[4] = 65536 /\ Place[5] = 4096 /\ Place[6] = 256 /\ Place[7] = 16 /\ Place[8] = 1
BY SMT DEF Place

LEMMA Horner ==
  ASSUME NEW a \in Nat, NEW b \in Nat, NEW c \in Nat, NEW d \in Nat,
         NEW e \in Nat, NEW f \in Nat, NEW g \in Nat, NEW n \in Nat,
         NEW rb \in Nat, NEW rc \in Nat, NEW rd \in Nat, NEW re \in Nat,
         NEW rf \in Nat, NEW rg \in Nat, NEW rn \in Nat,
         b = 16 * a + rb, c = 16 * b + rc, d = 16 * c + rd, e = 16 * d + re,
         f = 16 * e + rf, g = 16 * f + rg, n = 16 * g + rn
  PROVE  a * 268435456 + rb * 16777216 + rc * 1048576 + rd * 65536
         + re * 4096 + rf * 256 + rg * 16 + rn = n
BY SMT

LEMMA HexReadBack ==
  ASSUME NEW n \in Nat, HasEightDigits(n)
  PROVE  FromHex(Hex(n)) = n
<1> DEFINE P(i) == n \div Place[i]
<1>1. \A i \in 1 .. 8 : P(i) \in Nat /\ P(i) % 16 \in Nat
  BY SMT DEF Place
<1>2. P(1) % 16 = P(1) /\ P(8) = n
  BY <1>1, PlaceValues, SMT DEF HasEightDigits
<1>3. /\ P(2) = 16 * P(1) + (P(2) % 16) /\ P(3) = 16 * P(2) + (P(3) % 16)
      /\ P(4) = 16 * P(3) + (P(4) % 16) /\ P(5) = 16 * P(4) + (P(5) % 16)
      /\ P(6) = 16 * P(5) + (P(6) % 16) /\ P(7) = 16 * P(6) + (P(7) % 16)
      /\ P(8) = 16 * P(7) + (P(8) % 16)
  BY PlaceValues, SMT
<1>4. \A i \in 1 .. 8 : Hex(n)[i] = P(i) % 16
  BY DEF Hex
<1> HIDE DEF P
<1>5. FromHex(Hex(n)) =
          P(1) * 268435456 + (P(2) % 16) * 16777216 + (P(3) % 16) * 1048576
        + (P(4) % 16) * 65536 + (P(5) % 16) * 4096 + (P(6) % 16) * 256
        + (P(7) % 16) * 16 + (P(8) % 16)
  BY <1>1, <1>2, <1>4, PlaceValues, SMT DEF FromHex
<1> QED BY <1>1, <1>2, <1>3, <1>5, Horner, SMT

\* The ids go on from the last one issued.
LEMMA LastIdRead ==
  ASSUME Types
  PROVE  LastTxId = transaction_id
<1>1. transaction_id \in Nat /\ transaction_id <= MaxTx
  BY DEF Types, LockInv, TypeOK
<1>2. HasEightDigits(transaction_id)
  BY <1>1, TxnConstants, RecoveryConstants, PlaceValues, SMT DEF HasEightDigits
<1> QED BY <1>1, <1>2, HexReadBack DEF LastTxId

LEMMA RedoTyped ==
  ASSUME Types, Redo
  PROVE  Still /\ UNCHANGED <<logVars, diskVars, children>> /\ ht' \in Tables /\ rec' \in RecType
<1>1. rec' \in RecType
  BY EmptySeq DEF Redo, NoRec, RecType, Missing
<1>2. ht \in Tables /\ EmptyTable \in Tables
  BY DEF Types, LockInv, TypeOK, Tables, EmptyTable, HtValue
<1>3. CASE CannotRedo
  BY <1>1, <1>2, <1>3, LastIdRead DEF Redo, Still
<1>4. CASE ~CannotRedo
  <2>1. ht' = IF last_checked = Missing THEN Redone(EmptyTable, 1)
              ELSE Redone(snapshots[last_checked], last_checked + 1)
    BY <1>4 DEF Redo
  <2>2. last_checked # Missing => last_checked + 1 \in Nat /\ snapshots[last_checked] \in Tables
    BY <1>4 DEF CannotRedo, Types, DiskTypeOK
  <2>3. ht' \in Tables
    BY <1>2, <2>1, <2>2, RedoneType DEF Types
  <2> QED BY <1>1, <2>3, LastIdRead DEF Redo, Still
<1> QED BY <1>3, <1>4

LEMMA TypesInit == RecoveryInit => Types
<1> SUFFICES ASSUME RecoveryInit PROVE Types
  OBVIOUS
<1>1. LockInv
  BY LockInvInit DEF RecoveryInit
<1>2. rec \in RecType
  BY EmptySeq DEF RecoveryInit, NoRec, RecType, Missing
<1>3. transaction_id <= MaxTx
  BY TxnConstants DEF RecoveryInit, Init
<1> QED BY <1>1, <1>2, <1>3 DEF Types, DiskTypeOK, RecoveryInit, RecType

\* No step of the running server issues an id beyond MaxTx.
LEMMA IdsBounded ==
  ASSUME LockInv, transaction_id <= MaxTx, Running \/ Checkpoint \/ Fork
  PROVE  transaction_id' <= MaxTx
<1>0. transaction_id \in Nat /\ MaxTx \in Nat
  BY TxnConstants DEF LockInv, TypeOK
<1>1. ASSUME NEW c \in Client, Receiving(c) \/ Executing(c)
      PROVE  transaction_id' = transaction_id \/ StartTx(c)
  <2>1. CASE Receiving(c)
    BY <2>1 DEF Receiving, Begin, Get, Set, Del, Receive, Disconnect
  <2>2. CASE Logging(c)
    BY <2>2 DEF Logging, BeginLog, UpdateLog, CommitLog, AbortLog, ClrLog, EndLog
  <2>3. CASE \/ SetLast(c) \/ Lock(c) \/ Reply(c) \/ Apply(c) \/ SkipRecord(c)
             \/ UndoApply(c) \/ Unlock(c) \/ Leave(c)
    BY <2>3 DEF SetLast, Lock, Reply, Apply, SkipRecord, UndoApply, Unlock, Leave
  <2> QED BY <1>1, <2>1, <2>2, <2>3 DEF Executing
<1>2. CASE Running
  BY <1>0, <1>1, <1>2 DEF Running, StartTx
<1>3. CASE Checkpoint \/ Fork
  BY <1>3 DEF Checkpoint, CkptBegin, Fork, CkptLog
<1> QED BY <1>2, <1>3

LEMMA TypesNext == Types /\ [RecoveryNext]_allVars => Types'
<1> SUFFICES ASSUME Types, [RecoveryNext]_allVars PROVE Types'
  OBVIOUS
<1>0. LockInv /\ DiskTypeOK /\ transaction_id <= MaxTx
  BY DEF Types
<1>1. CASE Running \/ Checkpoint
  <2>1. LockInv' /\ transaction_id' <= MaxTx
    BY <1>0, <1>1, RunningIsTxn, LockInvNext, IdsBounded
  <2>2. DiskTypeOK'
    BY <1>0, <1>1 DEF Running, Checkpoint, DiskTypeOK
  <2> QED BY <2>1, <2>2 DEF Types
<1>2. CASE RollbackFails \/ UNCHANGED allVars
  <2>1. LockInv' /\ transaction_id' <= MaxTx
    BY <1>0, <1>2, LockInvNext DEF RollbackFails
  <2>2. DiskTypeOK'
    BY <1>0, <1>2 DEF RollbackFails, DiskTypeOK
  <2> QED BY <2>1, <2>2 DEF Types
<1>3. CASE Fork
  <2>1. LockInv' /\ transaction_id' <= MaxTx
    BY <1>0, <1>3, RunningIsTxn, LockInvNext, IdsBounded
  <2>2. DiskTypeOK'
    BY <1>0, <1>3, ForkTyped DEF DiskTypeOK
  <2> QED BY <2>1, <2>2 DEF Types
<1>4. CASE WriteSnapshot \/ CreateLastChecked \/ WriteLastChecked
  <2>1. UNCHANGED vars
    BY <1>4 DEF WriteSnapshot, CreateLastChecked, WriteLastChecked
  <2>2. LockInv' /\ transaction_id' <= MaxTx
    BY <1>0, <2>1, LockInvNext
  <2> QED BY <1>0, <1>4, <2>2, ProcessTyped DEF Types
<1>5. CASE Crash
  BY <1>0, <1>5, CrashIs DEF Types, DiskTypeOK, RecType
<1>6. ASSUME Still, UNCHANGED <<diskVars, children>>, rec' \in RecType, lsn' \in Nat, ht' \in Tables,
             log' = log \/ \E r \in Record : log' = Append(log, r)
      PROVE  Types'
  <2>1. LockInv' /\ transaction_id' <= MaxTx
    BY <1>0, <1>6, StillTyped DEF Still
  <2>2. DiskTypeOK'
    BY <1>0, <1>6 DEF DiskTypeOK, RecType
  <2> QED BY <2>1, <2>2 DEF Types
<1>7. ht \in Tables /\ lsn \in Nat /\ lsn + 1 \in Nat
  BY <1>0 DEF LockInv, TypeOK, Tables
<1>8. CASE RecoverStart
  BY <1>0, <1>6, <1>7, <1>8, RestartIs
<1>9. CASE Analyze
  BY <1>0, <1>6, <1>7, <1>9, AnalyzeIs
<1>10. CASE Undo
  BY <1>0, <1>6, <1>7, <1>10, UndoIs
<1>11. CASE Redo
  BY <1>6, <1>7, <1>11, RedoTyped
<1> QED BY <1>1, <1>2, <1>3, <1>4, <1>5, <1>8, <1>9, <1>10, <1>11 DEF RecoveryNext

(***************************************************************************)
(* A client's step.                                                        *)
(***************************************************************************)

\* Client c appends record r.
Adds(c, r) ==
  /\ log' = Append(log, r) /\ lsn' = lsn + 1 /\ new_lsn'[c] = lsn + 1
  /\ r.lsn = lsn + 1 /\ r.tx = txid[c] /\ r.prev = last_lsn[c] /\ r.list = <<>>
  /\ txid[c] # 0 /\ UNCHANGED <<transaction_id, txid, last_lsn>>
  /\ \/ pc[c] = "begin_log" /\ pc'[c] = "set_begin" /\ r.type = "BEGIN"
     \/ pc[c] = "log" /\ pc'[c] = "set_update" /\ r.type = "UPDATE"
     \/ pc[c] \in {"commit_log", "ready"} /\ pc'[c] = "set_commit" /\ r.type = "COMMIT"
     \/ pc[c] = "ready" /\ pc'[c] = "set_abort" /\ r.type = "ABORT"
     \/ /\ pc[c] = "rollback" /\ pc'[c] = "set_clr" /\ r.type = "CLR" /\ cursor'[c] = cursor[c]
        /\ Undoing(c).type = "UPDATE" /\ r.undo_next = Undoing(c).prev
        /\ r.key = Undoing(c).key /\ r.new = Undoing(c).old
     \/ /\ pc[c] = "rollback" /\ pc'[c] = "set_end" /\ r.type = "END"
        /\ Undoing(c).type = "BEGIN"

\* Client c appends nothing: it starts or leaves a transaction, learns the LSN
\* of its record, or does something else.
Starts(c) ==
  /\ pc[c] = "ready" /\ pc'[c] = "begin_log" /\ txid[c] = 0
  /\ transaction_id' = transaction_id + 1
  /\ txid' = [txid EXCEPT ![c] = transaction_id + 1] /\ last_lsn'[c] = 0

Leaves(c) ==
  /\ pc[c] = "unlock" /\ pc'[c] = "ready" /\ UNCHANGED transaction_id
  /\ txid' = [txid EXCEPT ![c] = 0] /\ last_lsn'[c] = 0

Learns(c) ==
  /\ UNCHANGED <<transaction_id, txid>> /\ last_lsn'[c] = new_lsn[c]
  /\ \/ pc[c] = "set_begin" /\ pc'[c] \in {"ready", "lock"}
     \/ pc[c] = "set_update" /\ pc'[c] = "apply"
     \/ pc[c] = "set_abort" /\ pc'[c] = "rollback" /\ cursor'[c] = new_lsn[c]
     \/ pc[c] = "set_clr" /\ pc'[c] = "undo_apply" /\ cursor'[c] = cursor[c]
     \/ pc[c] = "set_clr" /\ pc'[c] = "rollback" /\ cursor'[c] = Undoing(c).prev
     \/ pc[c] \in {"set_commit", "set_end"} /\ pc'[c] = "unlock"

Walks(c) ==
  /\ UNCHANGED <<transaction_id, txid, last_lsn>>
  /\ \/ pc[c] = "ready" /\ pc'[c] \in {"lock", "gone"}
     \/ pc[c] = "lock" /\ pc'[c] \in {"reply", "log"}
     \/ pc[c] \in {"reply", "apply"} /\ pc'[c] \in {"ready", "commit_log"}
     \/ /\ pc[c] = "rollback" /\ pc'[c] = "rollback" /\ cursor'[c] = Undoing(c).prev
        /\ Undoing(c).type \notin {"BEGIN", "UPDATE"}
     \/ pc[c] = "undo_apply" /\ pc'[c] = "rollback" /\ cursor'[c] = Undoing(c).prev
     \/ pc[c] = "unlock" /\ pc'[c] = "unlock"

LEMMA AddsIs ==
  ASSUME LockInv, NEW c \in Client, Logging(c)
  PROVE  \E r \in Record : Adds(c, r)
<1>0. /\ lsn + 1 \in Nat /\ last_lsn[c] \in Nat /\ txid[c] \in Nat
      /\ pc \in [Client -> PC] /\ new_lsn \in [Client -> Nat] /\ cursor \in [Client -> Nat]
      /\ ThreadOK /\ TypeOK
  BY DEF LockInv, TypeOK
<1>1. ASSUME NEW type \in LogType
      PROVE  /\ TxRecord(lsn + 1, last_lsn[c], txid[c], type) \in Record
             /\ TxRecord(lsn + 1, last_lsn[c], txid[c], type).lsn = lsn + 1
             /\ TxRecord(lsn + 1, last_lsn[c], txid[c], type).prev = last_lsn[c]
             /\ TxRecord(lsn + 1, last_lsn[c], txid[c], type).tx = txid[c]
             /\ TxRecord(lsn + 1, last_lsn[c], txid[c], type).type = type
             /\ TxRecord(lsn + 1, last_lsn[c], txid[c], type).list = <<>>
  <2>1. TxRecord(lsn + 1, last_lsn[c], txid[c], type) \in Record
    BY <1>0, TxRecordType
  <2> QED BY <2>1 DEF TxRecord
<1>2. ASSUME NEW r, NEW label \in Setting, WriteLog(c, r), Goto(c, label)
      PROVE  /\ log' = Append(log, r) /\ lsn' = lsn + 1 /\ new_lsn'[c] = lsn + 1
             /\ pc'[c] = label
  BY <1>0, <1>2 DEF WriteLog, Goto
<1>3. ASSUME NEW type \in LogType, NEW label \in Setting,
             WriteLog(c, TxRecord(lsn + 1, last_lsn[c], txid[c], type)), Goto(c, label),
             txid[c] # 0, UNCHANGED <<transaction_id, txid, last_lsn>>,
             \/ pc[c] = "begin_log" /\ label = "set_begin" /\ type = "BEGIN"
             \/ pc[c] \in {"commit_log", "ready"} /\ label = "set_commit" /\ type = "COMMIT"
             \/ pc[c] = "ready" /\ label = "set_abort" /\ type = "ABORT"
             \/ /\ pc[c] = "rollback" /\ label = "set_end" /\ type = "END"
                /\ Undoing(c).type = "BEGIN"
      PROVE  \E r \in Record : Adds(c, r)
  <2> DEFINE r == TxRecord(lsn + 1, last_lsn[c], txid[c], type)
  <2>1. /\ r \in Record /\ r.lsn = lsn + 1 /\ r.prev = last_lsn[c] /\ r.tx = txid[c]
        /\ r.type = type /\ r.list = <<>>
    BY <1>1
  <2>2. log' = Append(log, r) /\ lsn' = lsn + 1 /\ new_lsn'[c] = lsn + 1 /\ pc'[c] = label
    BY <1>2, <1>3
  <2> HIDE DEF r
  <2> QED BY <1>3, <2>1, <2>2 DEF Adds
<1>4. CASE BeginLog(c)
  <2>1. /\ pc[c] = "begin_log" /\ Goto(c, "set_begin")
        /\ WriteLog(c, TxRecord(lsn + 1, last_lsn[c], txid[c], "BEGIN"))
        /\ UNCHANGED <<transaction_id, txid, last_lsn>>
    BY <1>4 DEF BeginLog, At
  <2>2. txid[c] # 0 /\ "BEGIN" \in LogType /\ "set_begin" \in Setting
    BY <1>0, <2>1 DEF ThreadOK, LogType, Setting
  <2> QED BY <1>3, <2>1, <2>2
<1>5. CASE UpdateLog(c)
  <2> DEFINE r == DataRecord(lsn + 1, last_lsn[c], txid[c], "UPDATE", 0, cmd[c].key,
                             ToLog(old[c]), ToLog(cmd[c].val))
  <2>1. /\ r.lsn = lsn + 1 /\ r.prev = last_lsn[c] /\ r.tx = txid[c] /\ r.type = "UPDATE"
        /\ r.list = <<>>
    BY DEF DataRecord
  <2>2. r \in Record
    <3>1. old[c] \in HtValue /\ cmd[c].val \in HtValue /\ cmd[c].key \in Key \cup {NoKey}
      BY <1>0 DEF TypeOK, Cmd
    <3>2. "UPDATE" \in LogType /\ 0 \in Nat
      BY DEF LogType
    <3> QED BY <1>0, <3>1, <3>2, LogValues, DataRecordType
  <2>3. /\ WriteLog(c, r) /\ Goto(c, "set_update") /\ pc[c] = "log"
        /\ UNCHANGED <<transaction_id, txid, last_lsn>> /\ "set_update" \in Setting
    BY <1>5 DEF UpdateLog, At, Setting
  <2>4. txid[c] # 0
    BY <1>0, <2>3 DEF ThreadOK
  <2> HIDE DEF r
  <2>5. log' = Append(log, r) /\ lsn' = lsn + 1 /\ new_lsn'[c] = lsn + 1 /\ pc'[c] = "set_update"
    BY <1>2, <2>3
  <2>6. Adds(c, r)
    BY <2>1, <2>3, <2>4, <2>5 DEF Adds
  <2> QED BY <2>2, <2>6
<1>6. CASE CommitLog(c)
  <2>1. /\ pc[c] \in {"commit_log", "ready"} /\ Goto(c, "set_commit")
        /\ WriteLog(c, TxRecord(lsn + 1, last_lsn[c], txid[c], "COMMIT"))
        /\ UNCHANGED <<transaction_id, txid, last_lsn>>
    BY <1>6 DEF CommitLog, At
  <2>2. txid[c] # 0 /\ "COMMIT" \in LogType /\ "set_commit" \in Setting
    BY <1>0, <1>6 DEF CommitLog, At, ThreadOK, LogType, Setting
  <2> QED BY <1>3, <2>1, <2>2
<1>7. CASE AbortLog(c)
  <2>1. /\ pc[c] = "ready" /\ Goto(c, "set_abort")
        /\ WriteLog(c, TxRecord(lsn + 1, last_lsn[c], txid[c], "ABORT"))
        /\ UNCHANGED <<transaction_id, txid, last_lsn>> /\ txid[c] # 0
    BY <1>7 DEF AbortLog, At
  <2>2. "ABORT" \in LogType /\ "set_abort" \in Setting
    BY DEF LogType, Setting
  <2> QED BY <1>3, <2>1, <2>2
<1>8. CASE ClrLog(c)
  <2> DEFINE r == DataRecord(lsn + 1, last_lsn[c], txid[c], "CLR", UndoNext(c),
                             Undoing(c).key, Undoing(c).new, Undoing(c).old)
  <2>1. /\ WriteLog(c, r) /\ Goto(c, "set_clr") /\ pc[c] = "rollback" /\ HasLog(log, cursor[c])
        /\ Undoing(c).type = "UPDATE" /\ cursor' = cursor
        /\ UNCHANGED <<transaction_id, txid, last_lsn>> /\ "set_clr" \in Setting
    BY <1>8 DEF ClrLog, At, Setting
  <2>2. Undoing(c) \in Record /\ txid[c] # 0
    BY <1>0, <2>1, GetLogType DEF TypeOK, Undoing, ThreadOK
  <2>3. /\ r.lsn = lsn + 1 /\ r.prev = last_lsn[c] /\ r.tx = txid[c] /\ r.type = "CLR"
        /\ r.undo_next = Undoing(c).prev /\ r.list = <<>>
        /\ r.key = Undoing(c).key /\ r.new = Undoing(c).old
    BY DEF DataRecord, UndoNext
  <2>4. r \in Record
    <3>1. /\ Undoing(c).key \in Key \cup {NoKey}
          /\ Undoing(c).new \in LogValue /\ Undoing(c).old \in LogValue
          /\ UndoNext(c) \in Nat
      BY <2>2 DEF Record, UndoNext
    <3>2. "CLR" \in LogType
      BY DEF LogType
    <3> QED BY <1>0, <3>1, <3>2, DataRecordType
  <2> HIDE DEF r
  <2>5. log' = Append(log, r) /\ lsn' = lsn + 1 /\ new_lsn'[c] = lsn + 1 /\ pc'[c] = "set_clr"
    BY <1>2, <2>1
  <2>6. Adds(c, r)
    BY <2>1, <2>2, <2>3, <2>5 DEF Adds
  <2> QED BY <2>4, <2>6
<1>9. CASE EndLog(c)
  <2>1. /\ pc[c] = "rollback" /\ Goto(c, "set_end") /\ Undoing(c).type = "BEGIN"
        /\ WriteLog(c, TxRecord(lsn + 1, last_lsn[c], txid[c], "END"))
        /\ UNCHANGED <<transaction_id, txid, last_lsn>>
    BY <1>9 DEF EndLog, At
  <2>2. txid[c] # 0 /\ "END" \in LogType /\ "set_end" \in Setting
    BY <1>0, <2>1 DEF ThreadOK, LogType, Setting
  <2> QED BY <1>3, <2>1, <2>2
<1> QED BY <1>4, <1>5, <1>6, <1>7, <1>8, <1>9 DEF Logging

LEMMA WalksIs ==
  ASSUME LockInv, NEW c \in Client, Receiving(c) \/ Executing(c), ~Logging(c)
  PROVE  UNCHANGED logVars /\ (Starts(c) \/ Leaves(c) \/ Learns(c) \/ Walks(c))
<1> DEFINE Result == UNCHANGED logVars /\ (Starts(c) \/ Leaves(c) \/ Learns(c) \/ Walks(c))
<1>0. /\ pc \in [Client -> PC] /\ txid \in [Client -> Nat] /\ last_lsn \in [Client -> Nat]
      /\ cursor \in [Client -> Nat]
  BY DEF LockInv, TypeOK
<1>1. ASSUME StartTx(c), pc[c] = "ready", txid[c] = 0, UNCHANGED logVars PROVE Result
  BY <1>0, <1>1 DEF StartTx, Goto, Starts
<1>2. ASSUME Begin(c) PROVE Result
  BY <1>1, <1>2 DEF Begin, At
<1>3. ASSUME NEW op, NEW k, NEW v, Receive(c, op, k, v) PROVE Result
  <2>1. CASE StartTx(c) /\ txid[c] = 0
    BY <1>1, <1>3, <2>1 DEF Receive, At
  <2>2. CASE Goto(c, "lock") /\ UNCHANGED <<transaction_id, txid, last_lsn>>
    BY <1>0, <1>3, <2>2 DEF Receive, At, Goto, Walks
  <2> QED BY <1>3, <2>1, <2>2 DEF Receive
<1>4. ASSUME Disconnect(c) PROVE Result
  BY <1>0, <1>4 DEF Disconnect, At, Goto, Walks
<1>5. ASSUME SetLast(c) PROVE Result
  <2>1. /\ UNCHANGED <<log, lsn, transaction_id, txid>> /\ pc'[c] = AfterSet(c)
        /\ last_lsn'[c] = new_lsn[c]
        /\ cursor'[c] = CASE At(c, "set_abort") -> new_lsn[c]
                          [] At(c, "set_clr") /\ AfterClr(c) = "rollback" -> UndoNext(c)
                          [] OTHER -> cursor[c]
        /\ pc[c] \in Setting
    BY <1>0, <1>5 DEF SetLast, Goto
  <2>2. CASE pc[c] = "set_clr"
    BY <2>1, <2>2 DEF AfterSet, AfterClr, UndoNext, At, Learns
  <2>3. CASE pc[c] # "set_clr"
    BY <2>1, <2>3 DEF Setting, AfterSet, At, Learns
  <2> QED BY <2>2, <2>3
<1>6. ASSUME Lock(c) PROVE Result
  BY <1>0, <1>6 DEF Lock, At, Goto, Walks
<1>7. ASSUME Reply(c) \/ Apply(c) PROVE Result
  BY <1>0, <1>7 DEF Reply, Apply, Finish, At, Goto, Walks
<1>8. ASSUME SkipRecord(c) PROVE Result
  BY <1>0, <1>8 DEF SkipRecord, At, UndoNext, Walks
<1>9. ASSUME UndoApply(c) PROVE Result
  BY <1>0, <1>9 DEF UndoApply, At, Goto, UndoNext, Walks
<1>10. ASSUME Unlock(c) PROVE Result
  BY <1>0, <1>10 DEF Unlock, At, Walks
<1>11. ASSUME Leave(c) PROVE Result
  BY <1>0, <1>11 DEF Leave, At, Goto, Leaves
<1> QED BY <1>2, <1>3, <1>4, <1>5, <1>6, <1>7, <1>8, <1>9, <1>10, <1>11
        DEF Receiving, Executing, Get, Set, Del

(***************************************************************************)
(* Transaction ids.                                                        *)
(***************************************************************************)
LEMMA AloneNext == Types /\ Alone /\ [RecoveryNext]_allVars => Alone'
<1> SUFFICES ASSUME Types, Alone, [RecoveryNext]_allVars PROVE Alone'
  OBVIOUS
<1>0. LockInv /\ DiskTypeOK
  BY DEF Types
<1>1. CASE Running \/ Checkpoint \/ Fork \/ RollbackFails
  BY <1>1 DEF Running, Checkpoint, Fork, RollbackFails, Alone
<1>2. CASE WriteSnapshot \/ CreateLastChecked \/ WriteLastChecked \/ UNCHANGED allVars
  BY <1>2 DEF WriteSnapshot, CreateLastChecked, WriteLastChecked, Alone
<1>3. CASE Crash
  BY <1>0, <1>3, CrashIs DEF Alone
<1>4. CASE RecoverStart \/ Analyze \/ Undo \/ Redo
  BY <1>4 DEF RecoverStart, Analyze, Undo, Redo, Alone
<1> QED BY <1>1, <1>2, <1>3, <1>4 DEF RecoveryNext

\* No id is used again as long as no transaction starts and no BEGIN is logged.
LEMMA IdsKept ==
  ASSUME LockInv, IdsInv, transaction_id' = transaction_id,
         log' = log \/ \E r \in Record : log' = Append(log, r) /\ r.type # "BEGIN",
         \A c \in Client : txid'[c] \in {0, txid[c]},
         \A c \in Client : pc'[c] = "begin_log" => pc[c] = "begin_log" /\ txid'[c] = txid[c]
  PROVE  IdsInv'
<1>1. DOMAIN log = 1 .. Len(log) /\ Len(log) \in Nat /\ transaction_id \in Nat /\ TypeOK
  BY LogIsSeq DEF LockInv, TypeOK
<1>2. ASSUME NEW i \in DOMAIN log', log'[i].type = "BEGIN"
      PROVE  i \in DOMAIN log /\ log'[i] = log[i]
  <2>1. CASE log' = log
    BY <1>2, <2>1
  <2>2. ASSUME NEW r \in Record, log' = Append(log, r), r.type # "BEGIN"
        PROVE  i \in DOMAIN log /\ log'[i] = log[i]
    <3>1. PICK n \in Nat : n = Len(log) + 1
      BY <1>1
    <3>2. /\ DOMAIN log' = 1 .. n /\ log'[n] = r
          /\ \A j \in 1 .. n - 1 : log'[j] = log[j]
          /\ DOMAIN log = 1 .. n - 1
      <4>1. /\ DOMAIN log' = 1 .. Len(log) + 1 /\ log'[Len(log) + 1] = r
            /\ \A j \in 1 .. Len(log) : log'[j] = log[j]
        BY <1>1, <2>2, Appended
      <4>2. n - 1 = Len(log)
        BY <1>1, <3>1
      <4> QED BY <1>1, <3>1, <4>1, <4>2
    <3>3. i \in 1 .. n /\ i # n
      BY <1>2, <2>2, <3>2
    <3> QED BY <3>2, <3>3
  <2> QED BY <2>1, <2>2
<1>3. TxIds'
  <2> SUFFICES ASSUME NEW c \in Client
               PROVE  /\ txid'[c] <= transaction_id
                      /\ txid'[c] # 0 => \A d \in Client : d # c => txid'[d] # txid'[c]
    BY DEF TxIds
  <2>1. txid'[c] <= transaction_id
    BY <1>1 DEF IdsInv, TxIds
  <2> QED BY <2>1 DEF IdsInv, TxIds
<1>4. TxIdsUnique'
  BY <1>2 DEF IdsInv, TxIdsUnique
<1>5. \A i \in DOMAIN log' : log'[i].type = "BEGIN" => log'[i].tx <= transaction_id'
  BY <1>2 DEF IdsInv, Begun
<1>6. ASSUME NEW c \in Client, pc'[c] = "begin_log", NEW i \in DOMAIN log', log'[i].type = "BEGIN"
      PROVE  log'[i].tx # txid'[c]
  BY <1>2, <1>6 DEF IdsInv, Begun
<1> QED BY <1>3, <1>4, <1>5, <1>6 DEF IdsInv, Begun

\* A client's steps: the one that starts a transaction takes the next id, the
\* one that logs its BEGIN has the only thread with that id.
LEMMA IdsRunning ==
  ASSUME LockInv, IdsInv, NEW c \in Client, Receiving(c) \/ Executing(c)
  PROVE  IdsInv'
<1>0. /\ \A d \in Client : d # c => pc'[d] = pc[d] /\ txid'[d] = txid[d]
      /\ txid \in [Client -> Nat] /\ transaction_id \in Nat /\ TypeOK
      /\ DOMAIN log = 1 .. Len(log) /\ Len(log) \in Nat
      /\ \A i \in 1 .. Len(log) : log[i].tx \in Nat
  BY FrameStep, LogIsSeq DEF Frame, LockInv, TypeOK
<1>1. CASE Logging(c)
  <2>1. PICK r \in Record : Adds(c, r)
    BY <1>1, AddsIs
  <2>2. CASE r.type # "BEGIN"
    BY <1>0, <2>1, <2>2, IdsKept DEF Adds
  <2>3. CASE r.type = "BEGIN"
    <3>1. pc[c] = "begin_log" /\ pc'[c] = "set_begin" /\ r.tx = txid[c] /\ txid[c] # 0
          /\ txid' = txid /\ transaction_id' = transaction_id
      BY <2>1, <2>3 DEF Adds
    <3>2. PICK n \in Nat : n = Len(log) + 1
      BY <1>0
    <3>3. /\ DOMAIN log' = 1 .. n /\ log'[n] = r
          /\ \A j \in 1 .. n - 1 : log'[j] = log[j]
          /\ DOMAIN log = 1 .. n - 1
      BY <1>0, <2>1, <3>2, Appended DEF Adds
    <3>4. TxIds'
      BY <3>1 DEF IdsInv, TxIds
    <3>5. ASSUME NEW i \in 1 .. n - 1, log[i].type = "BEGIN"
          PROVE  log[i].tx # txid[c] /\ log[i].tx <= transaction_id
      BY <3>1, <3>3, <3>5 DEF IdsInv, Begun
    <3>6. TxIdsUnique'
      <4> SUFFICES ASSUME NEW i \in 1 .. n, NEW j \in 1 .. n, i # j,
                          log'[i].type = "BEGIN", log'[j].type = "BEGIN"
                   PROVE  log'[i].tx # log'[j].tx
        BY <3>3 DEF TxIdsUnique
      <4>1. CASE i = n
        BY <3>1, <3>3, <3>5, <4>1
      <4>2. CASE j = n
        BY <3>1, <3>3, <3>5, <4>2
      <4>3. CASE i # n /\ j # n
        <5>1. i \in 1 .. n - 1 /\ j \in 1 .. n - 1
          BY <4>3
        <5> QED BY <3>3, <5>1 DEF IdsInv, TxIdsUnique
      <4> QED BY <4>1, <4>2, <4>3
    <3>7. ASSUME NEW i \in 1 .. n, log'[i].type = "BEGIN" PROVE log'[i].tx <= transaction_id
      <4>1. txid[c] <= transaction_id
        BY DEF IdsInv, TxIds
      <4>2. i # n => i \in 1 .. n - 1
        OBVIOUS
      <4> QED BY <3>1, <3>3, <3>5, <3>7, <4>1, <4>2
    <3>8. ASSUME NEW d \in Client, pc'[d] = "begin_log", NEW i \in 1 .. n, log'[i].type = "BEGIN"
          PROVE  log'[i].tx # txid[d]
      <4>1. d # c /\ pc[d] = "begin_log"
        BY <1>0, <3>1, <3>8
      <4>2. txid[c] # txid[d]
        BY <3>1, <4>1 DEF IdsInv, TxIds
      <4>3. CASE i = n
        BY <3>1, <3>3, <4>2, <4>3
      <4>4. CASE i # n
        <5>1. i \in 1 .. n - 1
          BY <4>4
        <5> QED BY <3>3, <3>8, <4>1, <5>1 DEF IdsInv, Begun
      <4> QED BY <4>3, <4>4
    <3> QED BY <3>1, <3>3, <3>4, <3>6, <3>7, <3>8 DEF IdsInv, Begun
  <2> QED BY <2>2, <2>3
<1>2. CASE ~Logging(c)
  <2>1. UNCHANGED logVars /\ (Starts(c) \/ Leaves(c) \/ Learns(c) \/ Walks(c))
    BY <1>2, WalksIs
  <2>2. CASE Starts(c)
    <3>1. /\ txid' = [txid EXCEPT ![c] = transaction_id + 1] /\ pc'[c] = "begin_log"
          /\ transaction_id' = transaction_id + 1 /\ log' = log
      BY <2>1, <2>2 DEF Starts
    <3>2. TxIds'
      BY <1>0, <3>1 DEF IdsInv, TxIds
    <3>3. ASSUME NEW i \in DOMAIN log, log[i].type = "BEGIN"
          PROVE  log[i].tx <= transaction_id /\ log[i].tx \in Nat
      BY <1>0, <3>3 DEF IdsInv, Begun
    <3>4. ASSUME NEW d \in Client, pc'[d] = "begin_log", NEW i \in DOMAIN log, log[i].type = "BEGIN"
          PROVE  log[i].tx # txid'[d]
      <4>1. CASE d = c
        BY <1>0, <3>1, <3>3, <3>4, <4>1
      <4>2. CASE d # c
        BY <1>0, <3>4, <4>2 DEF IdsInv, Begun
      <4> QED BY <4>1, <4>2
    <3>5. ASSUME NEW i \in DOMAIN log, log[i].type = "BEGIN" PROVE log[i].tx <= transaction_id + 1
      BY <1>0, <3>3, <3>5
    <3> QED BY <3>1, <3>2, <3>4, <3>5 DEF IdsInv, TxIdsUnique, Begun
  <2>3. CASE Leaves(c) \/ Learns(c) \/ Walks(c)
    <3>1. transaction_id' = transaction_id /\ log' = log
          /\ (pc'[c] # "begin_log") /\ txid'[c] \in {0, txid[c]}
      BY <1>0, <2>1, <2>3 DEF Leaves, Learns, Walks
    <3> QED BY <1>0, <3>1, IdsKept
  <2> QED BY <2>1, <2>2, <2>3
<1> QED BY <1>1, <1>2

LEMMA IdsInit == RecoveryInit => IdsInv
<1> SUFFICES ASSUME RecoveryInit PROVE IdsInv
  OBVIOUS
<1>1. /\ DOMAIN log = {} /\ transaction_id = 0
      /\ \A c \in Client : txid[c] = 0 /\ pc[c] = "ready"
  BY DEF RecoveryInit, Init, NoThread
<1> QED BY <1>1 DEF IdsInv, TxIds, TxIdsUnique

LEMMA IdsNext == Types /\ IdsInv /\ [RecoveryNext]_allVars => IdsInv'
<1> SUFFICES ASSUME Types, IdsInv, [RecoveryNext]_allVars PROVE IdsInv'
  OBVIOUS
<1>0. LockInv /\ DiskTypeOK /\ TypeOK
  BY DEF Types, LockInv
<1>1. CASE Running
  BY <1>0, <1>1, IdsRunning DEF Running
<1>2. ASSUME UNCHANGED <<transaction_id, pc, txid>>,
             log' = log \/ \E r \in Record : log' = Append(log, r) /\ r.type # "BEGIN"
      PROVE  IdsInv'
  BY <1>0, <1>2, IdsKept
<1>3. CASE \/ RollbackFails \/ Checkpoint \/ WriteSnapshot \/ CreateLastChecked
           \/ WriteLastChecked \/ UNCHANGED allVars
  <2>1. UNCHANGED <<transaction_id, pc, txid, log>>
    BY <1>3 DEF RollbackFails, Checkpoint, CkptBegin, WriteSnapshot, CreateLastChecked,
                WriteLastChecked
  <2> QED BY <1>2, <2>1
<1>4. CASE Fork
  <2>1. PICK tail \in Uninitialised :
          log' = Append(log, CheckRecord(lsn + 1, OngoingList \o tail))
    BY <1>4 DEF Fork, CkptLog
  <2>2. CheckRecord(lsn + 1, OngoingList \o tail) \in Record
    <3>1. lsn + 1 \in Nat /\ OngoingList \o tail \in Seq(Ongoing)
      BY <1>0, <2>1, OngoingListType DEF TypeOK
    <3> QED BY <3>1, CheckRecordType
  <2>3. CheckRecord(lsn + 1, OngoingList \o tail).type # "BEGIN"
    BY DEF CheckRecord
  <2>4. UNCHANGED <<transaction_id, pc, txid>>
    BY <1>4 DEF Fork, CkptLog
  <2> QED BY <1>2, <2>1, <2>2, <2>3, <2>4
<1>5. CASE Crash
  <2>1. /\ UNCHANGED <<log, transaction_id>>
        /\ \A c \in Client : txid'[c] = 0 /\ pc'[c] = "ready"
    BY <1>0, <1>5, CrashIs
  <2> QED BY <1>0, <2>1, IdsKept
<1>6. CASE RecoverStart \/ Redo
  <2>1. UNCHANGED <<transaction_id, pc, txid, log>>
    BY <1>0, <1>6, RestartIs, RedoTyped DEF Still
  <2> QED BY <1>2, <2>1
<1>7. CASE Analyze
  <2> DEFINE r == TxRecord(lsn + 1, LastFound(Head(rec.todo)), Head(rec.todo).tx_id, "ABORT")
  <2>1. Still /\ (log' = log \/ (r \in Record /\ log' = Append(log, r)))
    BY <1>0, <1>7, AnalyzeIs
  <2>2. r.type # "BEGIN"
    BY DEF TxRecord
  <2> HIDE DEF r
  <2> QED BY <1>2, <2>1, <2>2 DEF Still
<1>8. CASE Undo
  <2>1. Still /\ (log' = log \/ \E r \in Record : log' = Append(log, r) /\ r.type # "BEGIN")
    BY <1>0, <1>8, UndoIs
  <2> QED BY <1>2, <2>1 DEF Still
<1> QED BY <1>1, <1>3, <1>4, <1>5, <1>6, <1>7, <1>8 DEF RecoveryNext

(***************************************************************************)
(* The snapshot process's files.                                           *)
(***************************************************************************)

\* Nothing is ever taken out of the log or changed in it.
LEMMA LogOnlyGrows ==
  ASSUME Types, [RecoveryNext]_allVars
  PROVE  log' = log \/ \E r \in Record : log' = Append(log, r)
<1>0. LockInv /\ DiskTypeOK /\ TypeOK
  BY DEF Types, LockInv
<1>1. CASE Running
  <2>1. PICK c \in Client : Receiving(c) \/ Executing(c)
    BY <1>1 DEF Running
  <2>2. CASE Logging(c)
    BY <1>0, <2>2, AddsIs DEF Adds
  <2>3. CASE ~Logging(c)
    BY <1>0, <2>1, <2>3, WalksIs
  <2> QED BY <2>2, <2>3
<1>2. CASE Fork
  <2>1. PICK tail \in Uninitialised :
          log' = Append(log, CheckRecord(lsn + 1, OngoingList \o tail))
    BY <1>2 DEF Fork, CkptLog
  <2>2. lsn + 1 \in Nat /\ OngoingList \o tail \in Seq(Ongoing)
    BY <1>0, <2>1, OngoingListType DEF TypeOK
  <2>3. CheckRecord(lsn + 1, OngoingList \o tail) \in Record
    BY <2>2, CheckRecordType
  <2> QED BY <2>1, <2>3
<1>3. CASE \/ RollbackFails \/ Checkpoint \/ WriteSnapshot \/ CreateLastChecked
           \/ WriteLastChecked \/ UNCHANGED allVars
  BY <1>3 DEF RollbackFails, Checkpoint, CkptBegin, WriteSnapshot, CreateLastChecked,
              WriteLastChecked
<1>4. CASE Crash \/ RecoverStart \/ Redo
  BY <1>4 DEF Crash, RecoverStart, Redo
<1>5. CASE Analyze
  BY <1>0, <1>5, AnalyzeIs
<1>6. CASE Undo
  BY <1>0, <1>6, UndoIs
<1> QED BY <1>1, <1>2, <1>3, <1>4, <1>5, <1>6 DEF RecoveryNext

LEMMA LogKeepsLines ==
  ASSUME LockInv, log' = log \/ \E r \in Record : log' = Append(log, r)
  PROVE  /\ Len(log) \in Nat /\ Len(log') \in Nat /\ Len(log) <= Len(log')
         /\ DOMAIN log = 1 .. Len(log) /\ DOMAIN log' = 1 .. Len(log')
         /\ \A i \in 1 .. Len(log) : i \in 1 .. Len(log') /\ log'[i] = log[i]
<1>1. TypeOK /\ DOMAIN log = 1 .. Len(log) /\ Len(log) \in Nat
  BY LogIsSeq DEF LockInv
<1>2. CASE log' = log
  BY <1>1, <1>2
<1>3. CASE \E r \in Record : log' = Append(log, r)
  <2>1. PICK r \in Record : log' = Append(log, r)
    BY <1>3
  <2>2. /\ Len(log') = Len(log) + 1 /\ DOMAIN log' = 1 .. Len(log) + 1
        /\ \A i \in 1 .. Len(log) : log'[i] = log[i]
    BY <1>1, <2>1, Appended
  <2> QED BY <1>1, <2>2
<1> QED BY <1>2, <1>3

LEMMA IsCheckKept ==
  ASSUME Types, [RecoveryNext]_allVars, NEW n, IsCheck(n)
  PROVE  IsCheck(n)'
<1>1. PICK i \in DOMAIN log : log[i].lsn = n /\ log[i].type = "CHECK"
  BY DEF IsCheck
<1>2. i \in DOMAIN log' /\ log'[i] = log[i]
  BY LogOnlyGrows, LogKeepsLines DEF Types
<1> QED BY <1>1, <1>2 DEF IsCheck

LEMMA CheckedInit == RecoveryInit => CheckedInv
BY DEF RecoveryInit, CheckedInv, Missing

LEMMA CheckedNext == Types /\ CheckedInv /\ [RecoveryNext]_allVars => CheckedInv'
<1> SUFFICES ASSUME Types, CheckedInv, [RecoveryNext]_allVars PROVE CheckedInv'
  OBVIOUS
<1>0. LockInv /\ DiskTypeOK /\ TypeOK
  BY DEF Types, LockInv
<1>1. \A n : IsCheck(n) => IsCheck(n)'
  BY IsCheckKept
<1>2. CASE UNCHANGED <<diskVars, children>>
  BY <1>1, <1>2 DEF CheckedInv
<1>3. CASE Fork
  <2> DEFINE p == SnapshotProcess("snapshot")
  <2>0. PICK m \in Nat : m = lsn + 1
    BY <1>0 DEF TypeOK
  <2>1. /\ children' = children \cup {p} /\ UNCHANGED diskVars
        /\ p.pc = "snapshot" /\ p.lsn = m
    BY <1>3, <2>0, ForkTyped DEF SnapshotProcess
  <2>2. IsCheck(m)'
    <3>1. PICK tail \in Uninitialised :
            log' = Append(log, CheckRecord(lsn + 1, OngoingList \o tail))
      BY <1>3 DEF Fork, CkptLog
    <3> DEFINE r == CheckRecord(lsn + 1, OngoingList \o tail)
    <3>2. lsn + 1 \in Nat /\ OngoingList \o tail \in Seq(Ongoing)
      BY <1>0, <3>1, OngoingListType DEF TypeOK
    <3>3. r \in Record /\ r.lsn = m /\ r.type = "CHECK"
      <4>1. r \in Record
        BY <3>2, CheckRecordType
      <4> QED BY <2>0, <4>1 DEF CheckRecord
    <3> HIDE DEF r
    <3>4. DOMAIN log' = 1 .. Len(log) + 1 /\ log'[Len(log) + 1] = r /\ Len(log) \in Nat
      BY <1>0, <3>1, <3>3, Appended, LogIsSeq DEF r
    <3>5. Len(log) + 1 \in DOMAIN log'
      BY <3>4
    <3> QED BY <3>3, <3>4, <3>5 DEF IsCheck
  <2> HIDE DEF p
  <2>3. ASSUME NEW q \in children'
        PROVE  IsCheck(q.lsn)' /\ (q.pc # "snapshot" => q.lsn \in DOMAIN snapshots')
    <3>1. CASE q \in children
      BY <1>1, <2>1, <3>1 DEF CheckedInv
    <3>2. CASE q = p
      BY <2>1, <2>2, <3>2
    <3> QED BY <2>1, <3>1, <3>2
  <2> QED BY <1>1, <2>1, <2>3 DEF CheckedInv
<1>4. ASSUME NEW p \in children, NEW at \in {"snapshot", "create", "last_lsn"}, Continues(p, at),
             DOMAIN snapshots \subseteq DOMAIN snapshots', at # "snapshot" => p.lsn \in DOMAIN snapshots',
             NEW q \in children'
      PROVE  IsCheck(q.lsn)' /\ (q.pc # "snapshot" => q.lsn \in DOMAIN snapshots')
  <2>1. CASE q \in children
    BY <1>1, <1>4, <2>1 DEF CheckedInv
  <2>2. CASE q = [p EXCEPT !.pc = at]
    <3>1. q.pc = at /\ q.lsn = p.lsn
      BY <1>0, <2>2 DEF DiskTypeOK, Process
    <3> QED BY <1>1, <1>4, <3>1 DEF CheckedInv
  <2> QED BY <1>4, <2>1, <2>2 DEF Continues
<1>5. CASE WriteSnapshot
  <2>1. PICK p \in children :
          /\ DOMAIN snapshots' = DOMAIN snapshots \cup {p.lsn}
          /\ Continues(p, IF last_checked = Missing THEN "create" ELSE "last_lsn")
          /\ last_checked' = last_checked
    BY <1>5 DEF WriteSnapshot
  <2>2. \A q \in children' :
          IsCheck(q.lsn)' /\ (q.pc # "snapshot" => q.lsn \in DOMAIN snapshots')
    BY <1>4, <2>1
  <2> QED BY <1>1, <2>1, <2>2 DEF CheckedInv
<1>6. CASE CreateLastChecked
  <2>1. PICK p \in children : /\ p.pc = "create" /\ last_checked' = Blank
                              /\ Continues(p, "last_lsn") /\ snapshots' = snapshots
    BY <1>6 DEF CreateLastChecked
  <2>2. \A q \in children' :
          IsCheck(q.lsn)' /\ (q.pc # "snapshot" => q.lsn \in DOMAIN snapshots')
    BY <1>4, <2>1 DEF CheckedInv
  <2> QED BY <2>1, <2>2 DEF CheckedInv, Blank
<1>7. CASE WriteLastChecked
  <2>1. PICK p \in children : /\ p.pc = "last_lsn" /\ last_checked' = p.lsn
                              /\ children' = children \ {p} /\ snapshots' = snapshots
    BY <1>7 DEF WriteLastChecked
  <2> QED BY <1>1, <2>1 DEF CheckedInv
<1>8. CASE Crash
  <2>1. /\ UNCHANGED diskVars
        /\ \A p \in children' : \E q \in children : p.pc = q.pc /\ p.lsn = q.lsn
    BY <1>0, <1>8, CrashIs
  <2> QED BY <1>1, <2>1 DEF CheckedInv
<1>9. CASE Running \/ RollbackFails \/ Checkpoint \/ RecoverStart \/ Analyze \/ Undo \/ Redo
  BY <1>2, <1>9 DEF Running, RollbackFails, Checkpoint, RecoverStart, Analyze, Undo, Redo
<1> QED BY <1>2, <1>3, <1>5, <1>6, <1>7, <1>8, <1>9 DEF RecoveryNext

(***************************************************************************)
(* The records of a log that misleads nobody.                              *)
(***************************************************************************)

\* When LSNs are line numbers, a record is read by its line number.
LEMMA GetLogLine ==
  ASSUME TypeOK, \A i \in DOMAIN log : log[i].lsn = i
  PROVE  /\ \A n : HasLog(log, n) <=> n \in 1 .. Len(log)
         /\ \A n \in 1 .. Len(log) : GetLog(log, n) = log[n]
<1>1. DOMAIN log = 1 .. Len(log) /\ Len(log) \in Nat
  BY LogIsSeq
<1>2. ASSUME NEW n \in 1 .. Len(log) PROVE GetLog(log, n) = log[n]
  <2> DEFINE First(i) == log[i].lsn = n /\ \A j \in 1 .. i - 1 : log[j].lsn # n
  <2>1. \A i \in DOMAIN log : First(i) <=> i = n
    BY <1>1
  <2>2. (CHOOSE i \in DOMAIN log : First(i)) = n
    <3> HIDE DEF First
    <3> QED BY <1>1, <2>1
  <2>3. GetLog(log, n) = log[CHOOSE i \in DOMAIN log : First(i)]
    BY DEF GetLog
  <2> QED BY <2>2, <2>3
<1> QED BY <1>1, <1>2 DEF HasLog

LEMMA SoundLines ==
  ASSUME LockInv, Sound
  PROVE  /\ \A n : HasLog(log, n) <=> n \in 1 .. Len(log)
         /\ \A n \in 1 .. Len(log) : GetLog(log, n) = log[n] /\ Chained(n) /\ log[n] \in Record
         /\ DOMAIN log = 1 .. Len(log) /\ Len(log) \in Nat
<1>1. DOMAIN log = 1 .. Len(log) /\ Len(log) \in Nat /\ \A n \in 1 .. Len(log) : log[n] \in Record
  BY LogIsSeq DEF LockInv
<1>2. \A i \in DOMAIN log : Chained(i) /\ log[i].lsn = i
  BY DEF Sound, Chained
<1> QED BY <1>1, <1>2, GetLogLine DEF LockInv

\* A log that misleads nobody now never has.
LEMMA NotMisled ==
  ASSUME LockInv, log' = log \/ \E r \in Record : log' = Append(log, r), ~Misled'
  PROVE  /\ ~Misled
         /\ \A i \in DOMAIN log' : \A n \in DOMAIN log'[i].list : ~Misleading(log'[i].list[n])
<1>1. /\ Len(log) \in Nat /\ Len(log') \in Nat /\ Len(log) <= Len(log')
      /\ DOMAIN log = 1 .. Len(log) /\ DOMAIN log' = 1 .. Len(log')
      /\ \A i \in 1 .. Len(log) : i \in 1 .. Len(log') /\ log'[i] = log[i]
  BY LogKeepsLines
<1>2. \A e : Misleading(e)' <=> Misleading(e)
  BY DEF Misleading
<1>3. ASSUME Len(log) >= 2, log[2].lsn = 1 PROVE Len(log') >= 2 /\ log'[2].lsn = 1
  <2>0. Len(log) \in Nat /\ Len(log') \in Nat /\ Len(log) <= Len(log')
    BY <1>1
  <2>1. 2 \in 1 .. Len(log) /\ Len(log') >= 2
    BY <1>3, <2>0
  <2> QED BY <1>1, <1>3, <2>1
<1>4. ASSUME NEW i \in DOMAIN log, NEW n \in DOMAIN log[i].list, Misleading(log[i].list[n])
      PROVE  i \in DOMAIN log' /\ n \in DOMAIN log'[i].list /\ Misleading(log'[i].list[n])
  BY <1>1, <1>4
<1> QED BY <1>2, <1>3, <1>4 DEF Misled

\* A running or recovering server gives the next LSN.
LEMMA NextLsn ==
  ASSUME LockInv, Sound, server \in {"up", "analyze", "undo"}, ~OneTwice',
         NEW r \in Record, log' = Append(log, r), r.lsn = lsn + 1
  PROVE  lsn = Len(log)
<1>1. TypeOK /\ Len(log) \in Nat
  BY LogIsSeq DEF LockInv
<1>2. CASE lsn = 0 /\ Len(log) = 1
  <2>1. Len(log') = 2 /\ log'[2] = r
    BY <1>1, <1>2, Appended
  <2>2. r.lsn = 1
    BY <1>2
  <2> QED BY <2>1, <2>2 DEF OneTwice
<1> QED BY <1>2 DEF Sound, RecKnows

LEMMA OwnKept ==
  ASSUME LockInv, log' = log \/ \E r \in Record : log' = Append(log, r)
  PROVE  \A n, tx : OwnRecord(log, n, tx) =>
           OwnRecord(log', n, tx) /\ n \in 1 .. Len(log) /\ log'[n] = log[n]
BY LogKeepsLines DEF OwnRecord

\* One record more.
LEMMA ChainedGrown ==
  ASSUME LockInv, \A i \in DOMAIN log : Chained(i),
         transaction_id' = transaction_id,
         NEW r \in Record, log' = Append(log, r), r.lsn = Len(log) + 1, r.tx <= transaction_id,
         r.tx # 0 => IF r.prev = 0 THEN r.type = "BEGIN" ELSE OwnRecord(log, r.prev, r.tx),
         r.tx # 0 /\ r.type = "CLR" => OwnRecord(log, r.undo_next, r.tx),
         r.tx # 0 /\ r.type \notin Unwinding =>
           \A j \in DOMAIN log : log[j].tx = r.tx => log[j].type # "ABORT",
         \A n \in DOMAIN r.list : OwnRecord(log, r.list[n].last_lsn, r.list[n].tx_id)
  PROVE  \A i \in DOMAIN log' : Chained(i)'
<1>0. TypeOK /\ Len(log) \in Nat /\ DOMAIN log = 1 .. Len(log)
  BY LogIsSeq DEF LockInv
<1>1. PICK m \in Nat : m = Len(log) + 1
  BY <1>0
<1>2. /\ DOMAIN log' = 1 .. m /\ log'[m] = r /\ r.lsn = m
      /\ \A i \in 1 .. m - 1 : log'[i] = log[i]
      /\ DOMAIN log = 1 .. m - 1
  <2>1. /\ DOMAIN log' = 1 .. Len(log) + 1 /\ log'[Len(log) + 1] = r
        /\ \A i \in 1 .. Len(log) : log'[i] = log[i]
    BY <1>0, Appended
  <2>2. m - 1 = Len(log)
    BY <1>0, <1>1
  <2> QED BY <1>0, <1>1, <2>1, <2>2
<1>3. \A n, tx : OwnRecord(log, n, tx) => OwnRecord(log', n, tx) /\ n \in 1 .. m - 1
  <2>1. m - 1 = Len(log)
    BY <1>0, <1>1
  <2> QED BY <2>1, OwnKept
<1>4. ASSUME NEW i \in 1 .. m - 1 PROVE Chained(i)'
  <2>1. Chained(i) /\ log'[i] = log[i] /\ \A j \in 1 .. i - 1 : log'[j] = log[j]
    BY <1>2, <1>4
  <2> QED BY <1>3, <2>1 DEF Chained
<1>5. Chained(m)'
  <2>1. r.prev # 0 /\ r.tx # 0 => r.prev \in 1 .. m - 1
    BY <1>3
  <2>2. r.tx # 0 => r.prev \in 0 .. m - 1
    <3>1. m - 1 \in Nat
      BY <1>0, <1>1
    <3> QED BY <2>1, <3>1
  <2>3. r.tx # 0 /\ r.type \notin Unwinding =>
          \A j \in 1 .. m - 1 : log'[j].tx = r.tx => log'[j].type # "ABORT"
    BY <1>2
  <2>4. /\ r.tx # 0 /\ r.prev # 0 => OwnRecord(log', r.prev, r.tx)
        /\ r.tx # 0 /\ r.type = "CLR" => OwnRecord(log', r.undo_next, r.tx)
        /\ \A n \in DOMAIN r.list : OwnRecord(log', r.list[n].last_lsn, r.list[n].tx_id)
    BY <1>3
  <2> QED BY <1>2, <2>2, <2>3, <2>4 DEF Chained
<1> QED BY <1>2, <1>4, <1>5

LEMMA ChainedStays ==
  ASSUME LockInv, \A i \in DOMAIN log : Chained(i), log' = log,
         transaction_id' \in {transaction_id, transaction_id + 1}
  PROVE  \A i \in DOMAIN log' : Chained(i)'
<1>1. transaction_id \in Nat /\ \A i \in DOMAIN log : log[i].tx \in Nat
  BY LogIsSeq DEF LockInv, TypeOK
<1> QED BY <1>1 DEF Chained

\* A client that does nothing, while no record of its transaction is appended.
LEMMA KnowsKept ==
  ASSUME LockInv, NEW d \in Client, Knows(d),
         pc'[d] = pc[d], txid'[d] = txid[d], last_lsn'[d] = last_lsn[d],
         new_lsn'[d] = new_lsn[d], cursor'[d] = cursor[d],
         \/ log' = log
         \/ \E r \in Record : log' = Append(log, r) /\ (txid[d] = 0 \/ r.tx # txid[d])
  PROVE  Knows(d)'
<1>1. \A n, tx : OwnRecord(log, n, tx) =>
        OwnRecord(log', n, tx) /\ n \in 1 .. Len(log) /\ log'[n] = log[n]
  BY OwnKept
<1>2. ASSUME txid[d] # 0, NEW i \in DOMAIN log', log'[i].tx = txid[d]
      PROVE  i \in DOMAIN log /\ log'[i] = log[i]
  <2>1. TypeOK
    BY DEF LockInv
  <2>2. Without(log, log', txid[d])
    BY <1>2, <2>1, StepWithout
  <2>3. i \in 1 .. Len(log') /\ Len(log) \in Nat /\ i \notin Len(log) + 1 .. Len(log')
    BY <1>2, <2>2 DEF Without
  <2>4. i \in 1 .. Len(log)
    BY <2>3
  <2> QED BY <2>2, <2>4 DEF Without
<1> QED BY <1>1, <1>2 DEF Knows

\* The record before an update, or before any record but a BEGIN.
LEMMA PrevIsOwn ==
  ASSUME NEW n, NEW tx, OwnRecord(log, n, tx), Chained(n), log[n].type # "BEGIN"
  PROVE  OwnRecord(log, log[n].prev, tx)
BY DEF OwnRecord, Chained

\* A client's record fits the log, and the client knows it.
LEMMA KnowsAdds ==
  ASSUME LockInv, Sound, NEW c \in Client, NEW r \in Record, Adds(c, r), lsn = Len(log)
  PROVE  /\ r.tx # 0 => IF r.prev = 0 THEN r.type = "BEGIN" ELSE OwnRecord(log, r.prev, r.tx)
         /\ r.tx # 0 /\ r.type = "CLR" => OwnRecord(log, r.undo_next, r.tx)
         /\ r.tx # 0 /\ r.type \notin Unwinding =>
              \A j \in DOMAIN log : log[j].tx = r.tx => log[j].type # "ABORT"
         /\ Knows(c)'
<1>0. /\ DOMAIN log = 1 .. Len(log) /\ Len(log) \in Nat /\ TypeOK
      /\ \A n \in 1 .. Len(log) : GetLog(log, n) = log[n] /\ Chained(n)
  BY SoundLines DEF LockInv
<1>1. Knows(c) /\ txid[c] # 0 /\ r.tx = txid[c] /\ r.prev = last_lsn[c]
  BY DEF Sound, Adds
<1>2. PICK m \in Nat : m = Len(log) + 1
  BY <1>0
<1>3. /\ DOMAIN log' = 1 .. m /\ Len(log') = m /\ log'[m] = r /\ new_lsn'[c] = m
      /\ \A i \in 1 .. m - 1 : log'[i] = log[i]
      /\ m - 1 = Len(log) /\ m \in 1 .. m
  BY <1>0, <1>2, Appended DEF Adds
<1>4. \A n, tx : OwnRecord(log, n, tx) => OwnRecord(log', n, tx) /\ log'[n] = log[n]
  BY OwnKept DEF Adds
<1>5. r.type = "CLR" =>
        /\ OwnRecord(log, cursor[c], txid[c]) /\ pc[c] = "rollback" /\ pc'[c] = "set_clr"
        /\ log[cursor[c]].type = "UPDATE" /\ cursor'[c] = cursor[c]
        /\ OwnRecord(log, r.undo_next, r.tx)
  <2> SUFFICES ASSUME r.type = "CLR"
               PROVE  /\ OwnRecord(log, cursor[c], txid[c]) /\ pc[c] = "rollback"
                      /\ pc'[c] = "set_clr"
                      /\ log[cursor[c]].type = "UPDATE" /\ cursor'[c] = cursor[c]
                      /\ OwnRecord(log, r.undo_next, r.tx)
    OBVIOUS
  <2>1. /\ pc[c] = "rollback" /\ pc'[c] = "set_clr" /\ cursor'[c] = cursor[c]
        /\ Undoing(c).type = "UPDATE" /\ r.undo_next = Undoing(c).prev
    BY DEF Adds
  <2>2. OwnRecord(log, cursor[c], txid[c])
    BY <1>1, <2>1 DEF Knows
  <2>3. cursor[c] \in 1 .. Len(log) /\ Undoing(c) = log[cursor[c]] /\ Chained(cursor[c])
    BY <1>0, <2>2 DEF Undoing, OwnRecord
  <2> QED BY <1>1, <2>1, <2>2, <2>3, PrevIsOwn
<1>6. r.type \notin Unwinding =>
        /\ \A j \in DOMAIN log : log[j].tx = txid[c] => log[j].type # "ABORT"
        /\ \A j \in DOMAIN log' : log'[j].tx = txid[c] => log'[j].type # "ABORT"
  <2> SUFFICES ASSUME r.type \notin Unwinding
               PROVE  /\ \A j \in 1 .. m - 1 : log[j].tx = txid[c] => log[j].type # "ABORT"
                      /\ \A j \in 1 .. m : log'[j].tx = txid[c] => log'[j].type # "ABORT"
    BY <1>0, <1>3
  <2>1. \A j \in 1 .. m - 1 : log[j].tx = txid[c] => log[j].type # "ABORT"
    <3>1. pc[c] \in {"begin_log", "log", "commit_log", "ready"}
      BY DEF Adds, Unwinding
    <3> QED BY <1>0, <1>1, <1>3, <3>1 DEF Knows
  <2>2. r.type # "ABORT"
    BY DEF Unwinding
  <2>3. ASSUME NEW j \in 1 .. m PROVE j = m \/ j \in 1 .. m - 1
    OBVIOUS
  <2> QED BY <1>3, <2>1, <2>2, <2>3
<1>7. pc[c] \notin {"begin_log", "set_begin"} => last_lsn[c] # 0
  BY <1>1 DEF Knows
<1>8. r.prev = 0 => r.type = "BEGIN"
  BY <1>1, <1>7 DEF Adds
<1>9. r.prev # 0 => OwnRecord(log, r.prev, r.tx)
  BY <1>1 DEF Knows
<1>10. Knows(c)'
  <2>1. txid'[c] = txid[c] /\ last_lsn'[c] = last_lsn[c]
    BY DEF Adds
  <2>2. last_lsn'[c] # 0 => OwnRecord(log', last_lsn'[c], txid'[c])
    BY <1>1, <1>4, <2>1 DEF Knows
  <2>3. pc'[c] \notin {"begin_log", "set_begin"} => last_lsn'[c] # 0
    BY <1>7, <2>1 DEF Adds
  <2>4. OwnRecord(log', new_lsn'[c], txid'[c])
    BY <1>1, <1>3, <2>1 DEF OwnRecord
  <2>5. pc'[c] \in {"rollback", "set_clr", "undo_apply"} => r.type = "CLR"
    BY DEF Adds
  <2>6. r.type = "CLR" => OwnRecord(log', cursor'[c], txid'[c]) /\ log'[cursor'[c]].type = "UPDATE"
    BY <1>4, <1>5, <2>1
  <2>7. pc'[c] \notin {"set_abort", "rollback", "set_clr", "undo_apply", "set_end", "unlock"} =>
          r.type \notin Unwinding
    BY DEF Adds, Unwinding
  <2> QED BY <1>6, <2>1, <2>2, <2>3, <2>4, <2>5, <2>6, <2>7 DEF Knows
<1> QED BY <1>1, <1>5, <1>6, <1>8, <1>9, <1>10

LEMMA KnowsMoves ==
  ASSUME LockInv, Sound, NEW c \in Client, log' = log,
         Starts(c) \/ Leaves(c) \/ Learns(c) \/ Walks(c)
  PROVE  Knows(c)'
<1>0. /\ DOMAIN log = 1 .. Len(log) /\ Len(log) \in Nat /\ TypeOK
      /\ \A n \in 1 .. Len(log) : GetLog(log, n) = log[n] /\ Chained(n)
      /\ txid \in [Client -> Nat] /\ transaction_id \in Nat /\ Knows(c)
  BY SoundLines DEF LockInv, TypeOK, Sound
<1>1. CASE Starts(c)
  <2>1. txid'[c] = transaction_id + 1 /\ last_lsn'[c] = 0 /\ pc'[c] = "begin_log"
    BY <1>0, <1>1 DEF Starts
  <2>2. ASSUME NEW i \in DOMAIN log PROVE log[i].tx # transaction_id + 1
    <3>1. log[i].tx <= transaction_id /\ log[i].tx \in Nat
      BY <1>0, LogIsSeq DEF Chained
    <3> QED BY <1>0, <3>1
  <2> QED BY <2>1, <2>2 DEF Knows, Setting
<1>2. CASE Leaves(c)
  BY <1>0, <1>2 DEF Leaves, Knows, Setting
<1>3. ASSUME OwnRecord(log, cursor[c], txid[c]), Undoing(c).type # "BEGIN"
      PROVE  OwnRecord(log, Undoing(c).prev, txid[c])
  <2>1. Undoing(c) = log[cursor[c]] /\ Chained(cursor[c])
    BY <1>0, <1>3 DEF Undoing, OwnRecord
  <2> QED BY <1>3, <2>1, PrevIsOwn
<1>4. ASSUME OwnRecord(log, cursor[c], txid[c]), log[cursor[c]].type = "UPDATE"
      PROVE  OwnRecord(log, Undoing(c).prev, txid[c])
  <2>1. Undoing(c) = log[cursor[c]]
    BY <1>0, <1>4 DEF Undoing, OwnRecord
  <2> QED BY <1>3, <1>4, <2>1
<1>5. CASE Learns(c)
  <2>1. txid'[c] = txid[c] /\ last_lsn'[c] = new_lsn[c] /\ pc[c] \in Setting
    BY <1>5 DEF Learns, Setting
  <2>2. OwnRecord(log, new_lsn[c], txid[c]) /\ new_lsn[c] # 0
    BY <1>0, <2>1 DEF Knows, OwnRecord
  <2>3. /\ pc'[c] \notin Setting
        /\ pc'[c] \notin {"set_abort", "rollback", "set_clr", "undo_apply", "set_end", "unlock"} =>
             pc[c] \notin {"set_abort", "rollback", "set_clr", "undo_apply", "set_end", "unlock"}
    BY <1>5 DEF Learns, Setting
  <2>4. pc[c] = "set_clr" =>
          /\ OwnRecord(log, cursor[c], txid[c]) /\ log[cursor[c]].type = "UPDATE"
          /\ OwnRecord(log, Undoing(c).prev, txid[c])
    BY <1>0, <1>4 DEF Knows
  <2>5. /\ pc'[c] \in {"rollback", "set_clr", "undo_apply"} => OwnRecord(log, cursor'[c], txid[c])
        /\ pc'[c] \in {"set_clr", "undo_apply"} => log[cursor'[c]].type = "UPDATE"
    BY <1>5, <2>2, <2>4 DEF Learns
  <2> QED BY <1>0, <2>1, <2>2, <2>3, <2>5 DEF Knows
<1>6. CASE Walks(c)
  <2>1. txid'[c] = txid[c] /\ last_lsn'[c] = last_lsn[c]
    BY <1>6 DEF Walks
  <2>2. /\ pc'[c] \notin Setting /\ pc[c] \notin {"begin_log", "set_begin"}
        /\ pc'[c] \notin {"set_abort", "rollback", "set_clr", "undo_apply", "set_end", "unlock"} =>
             pc[c] \notin {"set_abort", "rollback", "set_clr", "undo_apply", "set_end", "unlock"}
        /\ pc'[c] \notin {"set_clr", "undo_apply"}
    BY <1>6 DEF Walks, Setting
  <2>3. pc[c] = "undo_apply" => OwnRecord(log, Undoing(c).prev, txid[c])
    BY <1>0, <1>4 DEF Knows
  <2>4. pc[c] = "rollback" /\ Undoing(c).type # "BEGIN" => OwnRecord(log, Undoing(c).prev, txid[c])
    BY <1>0, <1>3 DEF Knows
  <2>5. pc'[c] = "rollback" => OwnRecord(log, cursor'[c], txid[c])
    BY <1>6, <2>3, <2>4 DEF Walks
  <2> QED BY <1>0, <2>1, <2>2, <2>5 DEF Knows
<1> QED BY <1>1, <1>2, <1>5, <1>6

(***************************************************************************)
(* Each step, while the log misleads nobody.                               *)
(***************************************************************************)

\* What every client that does nothing still knows.
LEMMA KnowsOthers ==
  ASSUME LockInv, Sound, UNCHANGED <<pc, txid, last_lsn, new_lsn, cursor>>,
         \/ log' = log
         \/ \E r \in Record : log' = Append(log, r) /\ \A d \in Client : txid[d] = 0 \/ r.tx # txid[d]
  PROVE  \A d \in Client : Knows(d)'
BY KnowsKept DEF Sound

LEMMA SoundRunning ==
  ASSUME LockInv, IdsInv, Sound, Running, ~OneTwice'
  PROVE  Sound'
<1>1. /\ server = "up" /\ server' = "up"
      /\ \E c \in Client : Receiving(c) \/ Executing(c)
  BY DEF Running
<1>2. PICK c \in Client : Receiving(c) \/ Executing(c)
  BY <1>1
<1>3. /\ \A d \in Client : d # c => Frame(d)
      /\ txid \in [Client -> Nat] /\ transaction_id \in Nat /\ TypeOK
  BY <1>2, FrameStep DEF LockInv, TypeOK
<1>4. CASE Logging(c)
  <2>1. PICK r \in Record : Adds(c, r)
    BY <1>4, AddsIs
  <2>2. lsn = Len(log)
    BY <1>1, <2>1, NextLsn DEF Adds
  <2>3. /\ r.tx # 0 => IF r.prev = 0 THEN r.type = "BEGIN" ELSE OwnRecord(log, r.prev, r.tx)
        /\ r.tx # 0 /\ r.type = "CLR" => OwnRecord(log, r.undo_next, r.tx)
        /\ r.tx # 0 /\ r.type \notin Unwinding =>
             \A j \in DOMAIN log : log[j].tx = r.tx => log[j].type # "ABORT"
        /\ Knows(c)'
    BY <2>1, <2>2, KnowsAdds
  <2>4. /\ log' = Append(log, r) /\ lsn' = Len(log) + 1 /\ r.lsn = Len(log) + 1 /\ r.list = <<>>
        /\ r.tx = txid[c] /\ txid[c] # 0 /\ transaction_id' = transaction_id
    BY <2>1, <2>2 DEF Adds
  <2>5. r.tx <= transaction_id /\ \A d \in Client : d # c => r.tx # txid[d]
    BY <2>4 DEF IdsInv, TxIds
  <2>6. \A n \in DOMAIN r.list : OwnRecord(log, r.list[n].last_lsn, r.list[n].tx_id)
    BY <2>4
  <2>7. \A i \in DOMAIN log' : Chained(i)'
    BY <2>3, <2>4, <2>5, <2>6, ChainedGrown DEF Sound
  <2>8. ASSUME NEW d \in Client, d # c PROVE Knows(d)'
    <3>1. Knows(d) /\ Frame(d)
      BY <1>3, <2>8 DEF Sound
    <3>2. /\ pc'[d] = pc[d] /\ txid'[d] = txid[d] /\ last_lsn'[d] = last_lsn[d]
          /\ new_lsn'[d] = new_lsn[d] /\ cursor'[d] = cursor[d]
      BY <3>1 DEF Frame
    <3> QED BY <2>4, <2>5, <2>8, <3>1, <3>2, KnowsKept
  <2>9. RecKnows'
    <3>1. lsn' = Len(log')
      BY <1>3, <2>4, Appended
    <3> QED BY <1>1, <3>1 DEF RecKnows
  <2> QED BY <2>3, <2>7, <2>8, <2>9 DEF Sound
<1>5. CASE ~Logging(c)
  <2>1. UNCHANGED logVars /\ (Starts(c) \/ Leaves(c) \/ Learns(c) \/ Walks(c))
    BY <1>2, <1>5, WalksIs
  <2>2. transaction_id' \in {transaction_id, transaction_id + 1} /\ log' = log /\ lsn' = lsn
    BY <2>1 DEF Starts, Leaves, Learns, Walks
  <2>3. \A i \in DOMAIN log' : Chained(i)'
    BY <2>2, ChainedStays DEF Sound
  <2>4. Knows(c)'
    BY <2>1, KnowsMoves
  <2>5. ASSUME NEW d \in Client, d # c PROVE Knows(d)'
    <3>1. Knows(d) /\ Frame(d)
      BY <1>3, <2>5 DEF Sound
    <3>2. /\ pc'[d] = pc[d] /\ txid'[d] = txid[d] /\ last_lsn'[d] = last_lsn[d]
          /\ new_lsn'[d] = new_lsn[d] /\ cursor'[d] = cursor[d]
      BY <3>1 DEF Frame
    <3> QED BY <2>2, <3>1, <3>2, KnowsKept
  <2>6. RecKnows'
    BY <1>1, <2>2 DEF Sound, RecKnows
  <2> QED BY <2>3, <2>4, <2>5, <2>6 DEF Sound
<1> QED BY <1>4, <1>5

\* The checkpoint's record lists records of the transactions it names.
ListsOwn ==
  \E list \in Seq(Ongoing) :
    /\ log' = Append(log, CheckRecord(lsn + 1, list))
    /\ \A n \in DOMAIN list : OwnRecord(log, list[n].last_lsn, list[n].tx_id)

LEMMA ForkIs ==
  ASSUME LockInv, Fork
  PROVE  /\ \E tail \in Uninitialised :
              /\ OngoingList \o tail \in Seq(Ongoing)
              /\ log' = Append(log, CheckRecord(lsn + 1, OngoingList \o tail))
         /\ server = "up" /\ server' = "up" /\ lsn' = lsn + 1
         /\ UNCHANGED <<transaction_id, pc, txid, last_lsn, new_lsn, cursor, rec>>
<1>1. PICK tail \in Uninitialised :
        log' = Append(log, CheckRecord(lsn + 1, OngoingList \o tail))
  BY DEF Fork, CkptLog
<1>2. OngoingList \o tail \in Seq(Ongoing)
  BY OngoingListType DEF LockInv
<1> QED BY <1>1, <1>2 DEF Fork, CkptLog

LEMMA CheckIs ==
  ASSUME LockInv, NEW list \in Seq(Ongoing)
  PROVE  LET r == CheckRecord(lsn + 1, list)
         IN  r \in Record /\ r.lsn = lsn + 1 /\ r.tx = 0 /\ r.type = "CHECK" /\ r.list = list
<1>1. CheckRecord(lsn + 1, list) \in Record
  BY CheckRecordType DEF LockInv, TypeOK
<1> QED BY <1>1 DEF CheckRecord

\* A checkpoint whose list misleads nobody lists the last records the clients know.
LEMMA ForkLists ==
  ASSUME LockInv, Sound, Fork, ~Misled'
  PROVE  ListsOwn
<1>1. PICK tail \in Uninitialised :
        /\ OngoingList \o tail \in Seq(Ongoing)
        /\ log' = Append(log, CheckRecord(lsn + 1, OngoingList \o tail))
  BY ForkIs
<1> DEFINE list == OngoingList \o tail
           r == CheckRecord(lsn + 1, list)
<1>2. r \in Record /\ r.list = list
  BY <1>1, CheckIs
<1>3. TypeOK /\ Len(log) \in Nat
  BY LogIsSeq DEF LockInv
<1> HIDE DEF r
<1>4. log' = Append(log, r)
  BY <1>1 DEF r
<1>5. \A n \in DOMAIN list : ~Misleading(list[n])
  <2>1. \A i \in DOMAIN log' : \A n \in DOMAIN log'[i].list : ~Misleading(log'[i].list[n])
    BY <1>2, <1>4, NotMisled
  <2>2. Len(log) + 1 \in DOMAIN log' /\ log'[Len(log) + 1] = r
    BY <1>2, <1>3, <1>4, Appended
  <2> HIDE DEF list
  <2> QED BY <1>2, <2>1, <2>2
<1>6. ASSUME NEW n \in DOMAIN list PROVE OwnRecord(log, list[n].last_lsn, list[n].tx_id)
  <2>1. /\ tx_list \in Seq(Client) /\ Len(tx_list) \in Nat /\ ckpt.size \in Nat
        /\ tail \in [1 .. ckpt.size - Len(tx_list) -> Garbage]
    BY <1>3, LenProperties DEF TypeOK, Uninitialised
  <2>2. Len(OngoingList) = Len(tx_list)
    BY <2>1 DEF OngoingList
  <2>3. CASE n \in 1 .. Len(tx_list)
    <3>1. tx_list[n] \in Client
      BY <2>1, <2>3, ElementOfSeq
    <3>2. list[n] = [tx_id |-> txid[tx_list[n]], last_lsn |-> last_lsn[tx_list[n]]]
      BY <2>1, <2>2, <2>3 DEF OngoingList
    <3>3. last_lsn[tx_list[n]] # 0
      BY <1>5, <3>2 DEF Misleading
    <3> QED BY <3>1, <3>2, <3>3 DEF Sound, Knows
  <2>4. CASE n \notin 1 .. Len(tx_list)
    <3>1. list[n] \in Garbage
      BY <1>6, <2>1, <2>2, <2>4
    <3> QED BY <1>5, <3>1 DEF Misleading
  <2> QED BY <2>3, <2>4
<1> HIDE DEF list
<1> QED BY <1>1, <1>6 DEF r, list, ListsOwn

LEMMA SoundFork ==
  ASSUME LockInv, Sound, Fork, ListsOwn, ~OneTwice'
  PROVE  Sound'
<1>1. PICK list \in Seq(Ongoing) :
        /\ log' = Append(log, CheckRecord(lsn + 1, list))
        /\ \A n \in DOMAIN list : OwnRecord(log, list[n].last_lsn, list[n].tx_id)
  BY DEF ListsOwn
<1>2. /\ server = "up" /\ server' = "up" /\ lsn' = lsn + 1
      /\ UNCHANGED <<transaction_id, pc, txid, last_lsn, new_lsn, cursor>>
  BY ForkIs
<1> DEFINE r == CheckRecord(lsn + 1, list)
<1>3. r \in Record /\ r.lsn = lsn + 1 /\ r.tx = 0 /\ r.list = list
  BY CheckIs
<1> HIDE DEF r
<1>4. log' = Append(log, r)
  BY <1>1 DEF r
<1>5. TypeOK /\ lsn = Len(log) /\ Len(log) \in Nat /\ transaction_id \in Nat
  BY <1>2, <1>3, <1>4, NextLsn, LogIsSeq DEF LockInv, TypeOK
<1>6. \A i \in DOMAIN log' : Chained(i)'
  BY <1>1, <1>2, <1>3, <1>4, <1>5, ChainedGrown DEF Sound
<1>7. \A d \in Client : Knows(d)'
  <2>1. \A d \in Client : txid[d] = 0 \/ r.tx # txid[d]
    BY <1>3
  <2> QED BY <1>2, <1>3, <1>4, <2>1, KnowsOthers
<1>8. RecKnows'
  <2>1. lsn' = Len(log')
    BY <1>2, <1>3, <1>4, <1>5, Appended
  <2> QED BY <1>2, <2>1 DEF RecKnows
<1> QED BY <1>6, <1>7, <1>8 DEF Sound

LEMMA SoundIdle ==
  ASSUME LockInv, Sound, UNCHANGED <<log, lsn, transaction_id, pc, txid, last_lsn, new_lsn, cursor>>,
         server' = "dead" \/ UNCHANGED <<server, rec>>
  PROVE  Sound'
<1>1. \A i \in DOMAIN log' : Chained(i)'
  BY ChainedStays DEF Sound
<1>2. \A d \in Client : Knows(d)'
  BY KnowsOthers
<1>3. RecKnows'
  BY DEF Sound, RecKnows
<1> QED BY <1>1, <1>2, <1>3 DEF Sound

LEMMA SoundCrash ==
  ASSUME LockInv, DiskTypeOK, Sound, Crash
  PROVE  Sound'
<1>1. /\ UNCHANGED <<log, transaction_id>> /\ server' = "down"
      /\ \A c \in Client : pc'[c] = "ready" /\ txid'[c] = 0 /\ last_lsn'[c] = 0
  BY CrashIs DEF Crash
<1>2. \A i \in DOMAIN log' : Chained(i)'
  BY <1>1, ChainedStays DEF Sound
<1>3. \A d \in Client : Knows(d)'
  BY <1>1 DEF Knows, Setting
<1>4. RecKnows'
  BY <1>1 DEF RecKnows
<1> QED BY <1>2, <1>3, <1>4 DEF Sound

\* The restarted server goes on from the last LSN, and has the last
\* checkpoint's list to work off.
LEMMA SoundStart ==
  ASSUME LockInv, DiskTypeOK, Sound, RecoverStart
  PROVE  Sound'
<1>1. /\ log' = log /\ UNCHANGED <<transaction_id, pc, txid, last_lsn, new_lsn, cursor>>
      /\ server' = "analyze" /\ lsn' = LastLsn /\ rec'.todo = Listed(last_checked)
  BY DEF RecoverStart, NoRec
<1>2. /\ \A n : HasLog(log, n) <=> n \in 1 .. Len(log)
      /\ \A n \in 1 .. Len(log) : GetLog(log, n) = log[n] /\ Chained(n)
      /\ DOMAIN log = 1 .. Len(log) /\ Len(log) \in Nat
  BY SoundLines
<1>3. \A i \in DOMAIN log' : Chained(i)'
  BY <1>1, ChainedStays DEF Sound
<1>4. \A d \in Client : Knows(d)'
  BY <1>1, KnowsOthers
<1>5. lsn' = Len(log) \/ (lsn' = 0 /\ Len(log) = 1)
  <2>1. CASE Len(log) <= 1
    BY <1>1, <1>2, <2>1 DEF LastLsn
  <2>2. CASE Len(log) > 1
    <3>1. Len(log) \in 1 .. Len(log)
      BY <1>2, <2>2
    <3> QED BY <1>1, <1>2, <2>2, <3>1 DEF LastLsn, Chained
  <2> QED BY <1>2, <2>1, <2>2
<1>6. \A n \in DOMAIN rec'.todo : OwnRecord(log, rec'.todo[n].last_lsn, rec'.todo[n].tx_id)
  <2>1. CASE HasLog(log, last_checked)
    <3>1. last_checked \in DOMAIN log /\ rec'.todo = log[last_checked].list
      BY <1>1, <1>2, <2>1 DEF Listed
    <3> QED BY <1>2, <3>1 DEF Chained
  <2>2. CASE ~HasLog(log, last_checked)
    BY <1>1, <2>2 DEF Listed
  <2> QED BY <2>1, <2>2
<1>7. RecKnows'
  BY <1>1, <1>5, <1>6 DEF RecKnows
<1> QED BY <1>3, <1>4, <1>7 DEF Sound

\* The listed transaction's last record is its own; when its rollback had begun
\* and not ended, the next record to undo is too.
LEMMA LastIsOwn ==
  ASSUME LockInv, DiskTypeOK, Sound, NEW entry \in Ongoing,
         OwnRecord(log, entry.last_lsn, entry.tx_id)
  PROVE  /\ OwnRecord(log, LastFound(entry), entry.tx_id)
         /\ ~Finished(entry) /\ AbortStarted(entry) =>
              OwnRecord(log,
                        IF GetLog(log, LastFound(entry)).type = "ABORT"
                        THEN GetLog(log, LastFound(entry)).prev
                        ELSE GetLog(log, LastFound(entry)).undo_next,
                        entry.tx_id)
<1> DEFINE last == LastFound(entry)
           tx == entry.tx_id
           all == Found(entry, LogType)
<1>1. /\ \A n : HasLog(log, n) <=> n \in 1 .. Len(log)
      /\ \A n \in 1 .. Len(log) : GetLog(log, n) = log[n] /\ Chained(n) /\ log[n] \in Record
      /\ Len(log) \in Nat
  BY SoundLines
<1>2. tx # 0
  BY DEF OwnRecord
<1>3. ASSUME NEW types, NEW n \in Found(entry, types)
      PROVE  n \in 1 .. Len(log) /\ log[n].tx = tx /\ log[n].type \in types /\ OwnRecord(log, n, tx)
  <2>1. HasLog(log, n) /\ GetLog(log, n).tx = tx /\ GetLog(log, n).type \in types
    BY <1>3, FoundIs
  <2> QED BY <1>1, <1>2, <2>1 DEF OwnRecord
<1>4. all # {} => last \in all /\ \A n \in all : n <= last
  BY FoundIs DEF LastFound
<1>5. OwnRecord(log, last, tx)
  <2>1. all = {} => last = entry.last_lsn
    BY DEF LastFound
  <2> HIDE DEF last, all
  <2> QED BY <1>3, <1>4, <2>1 DEF all
<1>6. ASSUME ~Finished(entry), AbortStarted(entry)
      PROVE  OwnRecord(log, IF GetLog(log, last).type = "ABORT"
                            THEN GetLog(log, last).prev ELSE GetLog(log, last).undo_next, tx)
  <2>1. PICK a \in Found(entry, {"ABORT"}) : TRUE
    BY <1>6 DEF AbortStarted
  <2>2. a \in all /\ \A n \in all : n \in Found(entry, {GetLog(log, n).type})
    BY <2>1 DEF Found, LogType
  <2>3. last \in all /\ a <= last
    BY <1>4, <2>2
  <2>4. /\ a \in 1 .. Len(log) /\ log[a].tx = tx /\ log[a].type = "ABORT"
        /\ last \in 1 .. Len(log) /\ log[last].tx = tx /\ Chained(last)
        /\ GetLog(log, last) = log[last]
    BY <1>1, <1>3, <2>1, <2>3
  <2>5. CASE a = last
    <3>1. log[last].type = "ABORT" /\ log[last].prev # 0
      BY <1>2, <2>4, <2>5 DEF Chained
    <3> HIDE DEF last
    <3> QED BY <1>2, <2>4, <3>1 DEF Chained
  <2>6. CASE a # last
    <3>1. a \in 1 .. last - 1
      BY <2>3, <2>4, <2>6
    <3>2. log[last].type \in Unwinding
      BY <1>2, <2>4, <3>1 DEF Chained
    <3>3. log[last].type # "END"
      <4>1. SUFFICES ASSUME log[last].type = "END" PROVE FALSE
        OBVIOUS
      <4>2. last \in Found(entry, {"END"})
        BY <2>2, <2>3, <2>4, <4>1
      <4>3. a < last
        BY <2>4, <3>1
      <4> QED BY <1>6, <2>1, <4>2, <4>3 DEF Finished
    <3>4. log[last].type = "ABORT" => OwnRecord(log, log[last].prev, tx)
      BY <1>2, <2>4 DEF Chained
    <3>5. log[last].type = "CLR" => OwnRecord(log, log[last].undo_next, tx)
      BY <1>2, <2>4 DEF Chained
    <3> HIDE DEF last
    <3> QED BY <2>4, <3>2, <3>3, <3>4, <3>5 DEF Unwinding
  <2> QED BY <2>5, <2>6
<1> QED BY <1>5, <1>6

\* The rest of a list that is sound.
LEMMA TailSound ==
  ASSUME NEW todo \in Seq(Ongoing), todo # <<>>,
         \A n \in DOMAIN todo : OwnRecord(log, todo[n].last_lsn, todo[n].tx_id)
  PROVE  /\ Head(todo) \in Ongoing /\ OwnRecord(log, Head(todo).last_lsn, Head(todo).tx_id)
         /\ \A n \in DOMAIN Tail(todo) :
              OwnRecord(log, Tail(todo)[n].last_lsn, Tail(todo)[n].tx_id)
<1>1. /\ Len(todo) \in Nat /\ DOMAIN todo = 1 .. Len(todo)
      /\ Head(todo) \in Ongoing /\ Tail(todo) \in Seq(Ongoing)
      /\ Len(Tail(todo)) = Len(todo) - 1 /\ Len(todo) # 0
      /\ \A n \in 1 .. Len(Tail(todo)) : Tail(todo)[n] = todo[n + 1]
  BY LenProperties, HeadTailProperties, EmptySeq
<1>2. DOMAIN Tail(todo) = 1 .. Len(Tail(todo))
  BY <1>1, LenProperties
<1>3. Head(todo) = todo[1] /\ 1 \in DOMAIN todo
  BY <1>1
<1>4. ASSUME NEW n \in DOMAIN Tail(todo) PROVE n + 1 \in DOMAIN todo
  BY <1>1, <1>2, <1>4
<1> QED BY <1>1, <1>2, <1>3, <1>4

LEMMA SoundAnalyze ==
  ASSUME LockInv, DiskTypeOK, Alone, Sound, Analyze, ~OneTwice'
  PROVE  Sound'
<1> DEFINE entry == Head(rec.todo)
           last == LastFound(entry)
           r == TxRecord(lsn + 1, last, entry.tx_id, "ABORT")
<1>1. /\ server = "analyze" /\ rec.todo # <<>> /\ rec.todo \in Seq(Ongoing)
      /\ UNCHANGED <<transaction_id, pc, txid, last_lsn, new_lsn, cursor>>
  BY DEF Analyze, DiskTypeOK
<1>2. \A n \in DOMAIN rec.todo : OwnRecord(log, rec.todo[n].last_lsn, rec.todo[n].tx_id)
  BY <1>1 DEF Sound, RecKnows
<1>3. /\ entry \in Ongoing /\ OwnRecord(log, entry.last_lsn, entry.tx_id)
      /\ \A n \in DOMAIN Tail(rec.todo) :
           OwnRecord(log, Tail(rec.todo)[n].last_lsn, Tail(rec.todo)[n].tx_id)
  BY <1>1, <1>2, TailSound
<1>4. /\ OwnRecord(log, last, entry.tx_id)
      /\ ~Finished(entry) /\ AbortStarted(entry) =>
           OwnRecord(log, IF GetLog(log, last).type = "ABORT"
                          THEN GetLog(log, last).prev ELSE GetLog(log, last).undo_next,
                     entry.tx_id)
  BY <1>3, LastIsOwn
<1>5. \A d \in Client : txid[d] = 0
  BY <1>1 DEF Alone
<1>6. \/ /\ rec'.todo = Tail(rec.todo) /\ server' = "analyze" /\ UNCHANGED logVars
      \/ /\ log' = Append(log, r) /\ lsn' = lsn + 1 /\ server' = "undo"
         /\ rec' = [rec EXCEPT !.todo = Tail(rec.todo), !.tx = entry.tx_id, !.last = last,
                               !.cursor = lsn + 1]
      \/ /\ ~Finished(entry) /\ AbortStarted(entry) /\ UNCHANGED logVars /\ server' = "undo"
         /\ rec' = [rec EXCEPT !.todo = Tail(rec.todo), !.tx = entry.tx_id, !.last = last,
                               !.cursor = IF GetLog(log, last).type = "ABORT"
                                          THEN GetLog(log, last).prev
                                          ELSE GetLog(log, last).undo_next]
  BY <1>1 DEF Analyze, RecoveryLog, NextListed, NoRec
<1>7. rec \in RecType /\ TypeOK /\ transaction_id \in Nat
  BY DEF DiskTypeOK, RecType, LockInv, TypeOK
<1>8. CASE rec'.todo = Tail(rec.todo) /\ server' = "analyze" /\ UNCHANGED logVars
  <2>1. \A i \in DOMAIN log' : Chained(i)'
    BY <1>1, <1>8, ChainedStays DEF Sound
  <2>2. \A d \in Client : Knows(d)'
    BY <1>1, <1>8, KnowsOthers
  <2>3. RecKnows'
    <3> HIDE DEF entry, last, r
    <3> QED BY <1>1, <1>3, <1>8 DEF Sound, RecKnows
  <2> QED BY <2>1, <2>2, <2>3 DEF Sound
<1>9. CASE /\ log' = Append(log, r) /\ lsn' = lsn + 1 /\ server' = "undo"
           /\ rec' = [rec EXCEPT !.todo = Tail(rec.todo), !.tx = entry.tx_id, !.last = last,
                                 !.cursor = lsn + 1]
  <2>1. /\ r \in Record /\ r.lsn = lsn + 1 /\ r.tx = entry.tx_id /\ r.prev = last
        /\ r.type = "ABORT" /\ r.list = <<>>
    <3>1. r \in Record
      BY <1>1, AnalyzeTyped
    <3> HIDE DEF entry, last
    <3> QED BY <3>1 DEF TxRecord
  <2>2. lsn = Len(log) /\ Len(log) \in Nat
    BY <1>1, <1>7, <1>9, <2>1, NextLsn, LogIsSeq
  <2>3. /\ last # 0 /\ last \in DOMAIN log /\ log[last].tx = entry.tx_id /\ Chained(last)
    BY <1>4, <1>7, LogIsSeq DEF OwnRecord, Sound
  <2>4. entry.tx_id <= transaction_id
    BY <2>3 DEF Chained
  <2> HIDE DEF entry, last, r
  <2>5. \A i \in DOMAIN log' : Chained(i)'
    <3>1. /\ IF r.prev = 0 THEN r.type = "BEGIN" ELSE OwnRecord(log, r.prev, r.tx)
          /\ r.type # "CLR" /\ r.type \in Unwinding
          /\ r.lsn = Len(log) + 1 /\ r.tx <= transaction_id
      BY <1>4, <2>1, <2>2, <2>3, <2>4 DEF Unwinding
    <3>2. \A n \in DOMAIN r.list : OwnRecord(log, r.list[n].last_lsn, r.list[n].tx_id)
      BY <2>1
    <3> QED BY <1>1, <1>9, <2>1, <3>1, <3>2, ChainedGrown DEF Sound
  <2>6. \A d \in Client : Knows(d)'
    BY <1>1, <1>5, <1>9, <2>1, KnowsOthers
  <2>7. RecKnows'
    <3>1. /\ Len(log') = lsn + 1 /\ log'[lsn + 1] = r /\ lsn + 1 \in 1 .. Len(log')
      BY <1>7, <1>9, <2>1, <2>2, Appended
    <3>2. \A n, tx : OwnRecord(log, n, tx) => OwnRecord(log', n, tx)
      BY <1>9, <2>1, OwnKept
    <3>3. /\ rec'.todo = Tail(rec.todo) /\ rec'.tx = entry.tx_id /\ rec'.last = last
          /\ rec'.cursor = lsn + 1
      BY <1>7, <1>9 DEF RecType
    <3>4. OwnRecord(log', lsn + 1, entry.tx_id)
      BY <1>4, <2>1, <3>1 DEF OwnRecord
    <3>5. lsn' = Len(log') /\ server' = "undo"
      BY <1>9, <3>1
    <3> QED BY <1>3, <1>4, <3>2, <3>3, <3>4, <3>5 DEF RecKnows
  <2> QED BY <2>5, <2>6, <2>7 DEF Sound
<1>10. CASE /\ ~Finished(entry) /\ AbortStarted(entry) /\ UNCHANGED logVars /\ server' = "undo"
            /\ rec' = [rec EXCEPT !.todo = Tail(rec.todo), !.tx = entry.tx_id, !.last = last,
                                  !.cursor = IF GetLog(log, last).type = "ABORT"
                                             THEN GetLog(log, last).prev
                                             ELSE GetLog(log, last).undo_next]
  <2>1. \A i \in DOMAIN log' : Chained(i)'
    BY <1>1, <1>10, ChainedStays DEF Sound
  <2>2. \A d \in Client : Knows(d)'
    BY <1>1, <1>10, KnowsOthers
  <2>3. RecKnows'
    <3> HIDE DEF entry, last, r
    <3>1. /\ rec'.todo = Tail(rec.todo) /\ rec'.tx = entry.tx_id /\ rec'.last = last
          /\ rec'.cursor = IF GetLog(log, last).type = "ABORT"
                           THEN GetLog(log, last).prev ELSE GetLog(log, last).undo_next
      BY <1>7, <1>10 DEF RecType
    <3>2. OwnRecord(log, rec'.cursor, rec'.tx) /\ OwnRecord(log, rec'.last, rec'.tx)
      BY <1>4, <1>10, <3>1
    <3> QED BY <1>1, <1>3, <1>10, <3>1, <3>2 DEF Sound, RecKnows
  <2> QED BY <2>1, <2>2, <2>3 DEF Sound
<1> QED BY <1>6, <1>8, <1>9, <1>10

\* Recovery's rollback stays within the transaction, and finds its records.
LEMMA SoundUndo ==
  ASSUME LockInv, DiskTypeOK, Alone, Sound, Undo, ~OneTwice'
  PROVE  Sound' /\ server' # "dead"
<1> DEFINE at == log[rec.cursor]
           end == TxRecord(lsn + 1, rec.cursor, rec.tx, "END")
           clr == DataRecord(lsn + 1, rec.last, rec.tx, "CLR", at.prev, at.key, at.new, at.old)
<1>1. server = "undo" /\ UNCHANGED <<transaction_id, pc, txid, last_lsn, new_lsn, cursor>>
  BY DEF Undo
<1>2. /\ OwnRecord(log, rec.cursor, rec.tx) /\ OwnRecord(log, rec.last, rec.tx)
      /\ \A n \in DOMAIN rec.todo : OwnRecord(log, rec.todo[n].last_lsn, rec.todo[n].tx_id)
      /\ lsn = Len(log) \/ (lsn = 0 /\ Len(log) = 1)
  BY <1>1 DEF Sound, RecKnows
<1>3. /\ HasLog(log, rec.cursor) /\ GetLog(log, rec.cursor) = at /\ Chained(rec.cursor)
      /\ rec.cursor # 0 /\ rec.last # 0
  BY <1>2, SoundLines DEF OwnRecord
<1>4. at.type # "BEGIN" => OwnRecord(log, at.prev, rec.tx)
  BY <1>2, <1>3, PrevIsOwn
<1>5. end \in Record /\ clr \in Record
  BY <1>3, UndoTyped
<1>6. /\ end.lsn = lsn + 1 /\ end.tx = rec.tx /\ end.type = "END" /\ end.prev = rec.cursor
      /\ end.list = <<>>
      /\ clr.lsn = lsn + 1 /\ clr.tx = rec.tx /\ clr.type = "CLR" /\ clr.prev = rec.last
      /\ clr.undo_next = at.prev /\ clr.list = <<>>
  BY DEF TxRecord, DataRecord
<1>7. \/ /\ log' = Append(log, end) /\ lsn' = lsn + 1 /\ server' = "analyze"
         /\ rec'.todo = rec.todo
      \/ /\ at.type # "BEGIN" /\ log' = Append(log, clr) /\ lsn' = lsn + 1 /\ server' = "undo"
         /\ rec' = [rec EXCEPT !.last = lsn + 1, !.cursor = at.prev]
      \/ /\ at.type # "BEGIN" /\ UNCHANGED logVars /\ server' = "undo"
         /\ rec' = [rec EXCEPT !.cursor = at.prev]
  <2>1. GetLog(log, rec.cursor) = at /\ HasLog(log, rec.cursor)
    BY <1>3
  <2> HIDE DEF at
  <2> QED BY <1>1, <2>1 DEF Undo, RecoveryLog, NextListed, NoRec
<1> HIDE DEF at, end, clr
<1>8. /\ rec \in RecType /\ TypeOK /\ transaction_id \in Nat
      /\ DOMAIN log = 1 .. Len(log) /\ Len(log) \in Nat
      /\ \A d \in Client : txid[d] = 0
  BY <1>1, LogIsSeq DEF DiskTypeOK, RecType, LockInv, TypeOK, Alone
<1>9. rec.tx <= transaction_id
  <2>1. rec.cursor \in DOMAIN log /\ log[rec.cursor].tx = rec.tx
    BY <1>2, <1>8 DEF OwnRecord
  <2> QED BY <1>3, <2>1 DEF Chained
<1>10. ASSUME NEW r \in Record, log' = Append(log, r), lsn' = lsn + 1, r.lsn = lsn + 1,
              r.tx = rec.tx, r.type \in {"CLR", "END"}, r.prev # 0, OwnRecord(log, r.prev, rec.tx),
              r.type = "CLR" => OwnRecord(log, r.undo_next, rec.tx), r.list = <<>>
       PROVE  /\ \A i \in DOMAIN log' : Chained(i)'
              /\ \A d \in Client : Knows(d)'
              /\ lsn' = Len(log') /\ OwnRecord(log', lsn + 1, rec.tx)
  <2>1. lsn = Len(log)
    BY <1>1, <1>10, NextLsn
  <2>2. \A n \in DOMAIN r.list : OwnRecord(log, r.list[n].last_lsn, r.list[n].tx_id)
    BY <1>10
  <2>3. /\ r.lsn = Len(log) + 1 /\ r.tx <= transaction_id /\ r.type \in Unwinding
    BY <1>9, <1>10, <2>1 DEF Unwinding
  <2>4. \A i \in DOMAIN log' : Chained(i)'
    BY <1>1, <1>10, <2>2, <2>3, ChainedGrown DEF Sound
  <2>5. \A d \in Client : Knows(d)'
    BY <1>1, <1>8, <1>10, KnowsOthers
  <2>6. Len(log') = lsn + 1 /\ log'[lsn + 1] = r /\ lsn + 1 \in 1 .. Len(log')
    BY <1>8, <1>10, <2>1, Appended
  <2>7. rec.tx # 0
    BY <1>2 DEF OwnRecord
  <2> QED BY <1>10, <2>4, <2>5, <2>6, <2>7 DEF OwnRecord
<1>11. \A n, tx : OwnRecord(log, n, tx) /\ log' \in {log, Append(log, end), Append(log, clr)} =>
         OwnRecord(log', n, tx)
  BY <1>5, OwnKept
<1>12. CASE /\ log' = Append(log, end) /\ lsn' = lsn + 1 /\ server' = "analyze"
            /\ rec'.todo = rec.todo
  <2>1. /\ \A i \in DOMAIN log' : Chained(i)'
        /\ \A d \in Client : Knows(d)'
        /\ lsn' = Len(log')
    BY <1>2, <1>3, <1>5, <1>6, <1>10, <1>12
  <2>2. RecKnows'
    BY <1>2, <1>11, <1>12, <2>1 DEF RecKnows
  <2> QED BY <1>12, <2>1, <2>2 DEF Sound
<1>13. CASE /\ at.type # "BEGIN" /\ log' = Append(log, clr) /\ lsn' = lsn + 1 /\ server' = "undo"
            /\ rec' = [rec EXCEPT !.last = lsn + 1, !.cursor = at.prev]
  <2>1. /\ \A i \in DOMAIN log' : Chained(i)'
        /\ \A d \in Client : Knows(d)'
        /\ lsn' = Len(log') /\ OwnRecord(log', lsn + 1, rec.tx)
    BY <1>2, <1>3, <1>4, <1>5, <1>6, <1>10, <1>13
  <2>2. rec'.todo = rec.todo /\ rec'.tx = rec.tx /\ rec'.last = lsn + 1 /\ rec'.cursor = at.prev
    BY <1>8, <1>13 DEF RecType
  <2>3. RecKnows'
    BY <1>2, <1>4, <1>11, <1>13, <2>1, <2>2 DEF RecKnows
  <2> QED BY <1>13, <2>1, <2>3 DEF Sound
<1>14. CASE /\ at.type # "BEGIN" /\ UNCHANGED logVars /\ server' = "undo"
            /\ rec' = [rec EXCEPT !.cursor = at.prev]
  <2>1. \A i \in DOMAIN log' : Chained(i)'
    BY <1>1, <1>14, ChainedStays DEF Sound
  <2>2. \A d \in Client : Knows(d)'
    BY <1>1, <1>14, KnowsOthers
  <2>3. rec'.todo = rec.todo /\ rec'.tx = rec.tx /\ rec'.last = rec.last /\ rec'.cursor = at.prev
    BY <1>8, <1>14 DEF RecType
  <2>4. RecKnows'
    BY <1>2, <1>4, <1>14, <2>3 DEF RecKnows
  <2> QED BY <1>14, <2>1, <2>2, <2>4 DEF Sound
<1> QED BY <1>7, <1>12, <1>13, <1>14

LEMMA SoundRedo ==
  ASSUME Types, Sound, Redo
  PROVE  Sound'
<1>0. LockInv
  BY DEF Types
<1>1. /\ UNCHANGED <<log, lsn, pc, txid, last_lsn, new_lsn, cursor>> /\ server = "analyze"
      /\ transaction_id' = transaction_id /\ server' \in {"up", "dead"}
  BY LastIdRead DEF Redo
<1>2. \A i \in DOMAIN log' : Chained(i)'
  BY <1>0, <1>1, ChainedStays DEF Sound
<1>3. \A d \in Client : Knows(d)'
  BY <1>0, <1>1, KnowsOthers
<1>4. RecKnows'
  BY <1>1 DEF Sound, RecKnows
<1> QED BY <1>2, <1>3, <1>4 DEF Sound

LEMMA SoundInit == RecoveryInit => Sound
<1> SUFFICES ASSUME RecoveryInit PROVE Sound
  OBVIOUS
<1>1. /\ log = <<>> /\ DOMAIN log = {} /\ Len(log) = 0 /\ lsn = 0 /\ server = "up"
      /\ \A c \in Client : pc[c] = "ready" /\ txid[c] = 0 /\ last_lsn[c] = 0
  BY DEF RecoveryInit, Init, NoThread
<1>2. \A c \in Client : Knows(c)
  BY <1>1 DEF Knows, Setting
<1>3. RecKnows
  BY <1>1 DEF RecKnows
<1> QED BY <1>1, <1>2, <1>3 DEF Sound

LEMMA SoundStep ==
  ASSUME Types, Alone, IdsInv, Sound, [RecoveryNext]_allVars, ~OneTwice', Fork => ListsOwn
  PROVE  Sound'
<1>1. LockInv /\ DiskTypeOK
  BY DEF Types
<1>3. CASE Running
  BY <1>1, <1>3, SoundRunning
<1>4. CASE Fork
  BY <1>1, <1>4, SoundFork
<1>5. CASE \/ RollbackFails \/ Checkpoint \/ WriteSnapshot \/ CreateLastChecked
           \/ WriteLastChecked \/ UNCHANGED allVars
  <2>1. /\ UNCHANGED <<log, lsn, transaction_id, pc, txid, last_lsn, new_lsn, cursor>>
        /\ server' = "dead" \/ UNCHANGED <<server, rec>>
    BY <1>5 DEF RollbackFails, Checkpoint, CkptBegin, WriteSnapshot, CreateLastChecked,
                WriteLastChecked
  <2> QED BY <1>1, <2>1, SoundIdle
<1>6. CASE Crash
  BY <1>1, <1>6, SoundCrash
<1>7. CASE RecoverStart
  BY <1>1, <1>7, SoundStart
<1>8. CASE Analyze
  BY <1>1, <1>8, SoundAnalyze
<1>9. CASE Undo
  BY <1>1, <1>9, SoundUndo
<1>10. CASE Redo
  BY <1>1, <1>10, SoundRedo
<1> QED BY <1>3, <1>4, <1>5, <1>6, <1>7, <1>8, <1>9, <1>10 DEF RecoveryNext

LEMMA SoundNext ==
  Types /\ Alone /\ IdsInv /\ (Misled \/ Sound) /\ [RecoveryNext]_allVars => (Misled \/ Sound)'
<1> SUFFICES ASSUME Types, Alone, IdsInv, Misled \/ Sound, [RecoveryNext]_allVars, ~Misled'
             PROVE  Sound'
  OBVIOUS
<1>1. Sound
  BY LogOnlyGrows, NotMisled DEF Types
<1>2. ~OneTwice' /\ (Fork => ListsOwn)
  BY <1>1, ForkLists DEF Misled, OneTwice, Types
<1> QED BY <1>1, <1>2, SoundStep

(***************************************************************************)
(* What the log says of rollbacks, while checkpoints are exact: of a log l *)
(* alone.                                                                  *)
(***************************************************************************)
Of(l, tx) == {i \in 1 .. Len(l) : l[i].tx = tx}
Earlier(l, i) == {j \in 1 .. i - 1 : l[j].tx = l[i].tx}
UpdatesIn(l, tx) == {u \in Of(l, tx) : l[u].type = "UPDATE"}
IsLastOf(l, i, tx) == i \in Of(l, tx) /\ \A j \in Of(l, tx) : j <= i

Working == {"BEGIN", "UPDATE"}

\* What is undone next behind a record of a rollback, the record that
\* compensates an update, and those that do so in the log.
NextUndo(r) == IF r.type = "ABORT" THEN r.prev ELSE r.undo_next

Compensates(r, u) ==
  r.type = "CLR" /\ r.tx = u.tx /\ r.key = u.key /\ r.new = u.old /\ r.undo_next = u.prev

ClrsOf(l, u) == {i \in Of(l, l[u].tx) : Compensates(l[i], l[u])}
Single(S) == \E i \in S : S = {i}

\* A transaction is one BEGIN, updates, and one COMMIT, or one ABORT, CLRs and
\* one END; prev of an update or ABORT is the record before.
Placed(l, i) ==
  /\ l[i].type = "CHECK" <=> l[i].tx = 0
  /\ l[i].tx # 0 =>
       /\ \A j \in Earlier(l, i) : l[j].type \notin {"COMMIT", "END"}
       /\ l[i].type = "BEGIN" => Earlier(l, i) = {}
       /\ l[i].type \in {"UPDATE", "ABORT"} =>
            /\ l[i].prev \in Earlier(l, i)
            /\ \A j \in Earlier(l, i) : j <= l[i].prev /\ l[j].type \in Working
       /\ l[i].type \in {"CLR", "END"} => \E j \in Earlier(l, i) : l[j].type = "ABORT"
       /\ l[i].type = "CLR" =>
            l[i].undo_next \in Earlier(l, i) /\ l[l[i].undo_next].type \in Working

\* A rollback has compensated the updates behind the one that is next, and
\* those only; END, all of them.
Progress(l, i) ==
  /\ l[i].type \in {"ABORT", "CLR"} /\ IsLastOf(l, i, l[i].tx) =>
       \A u \in UpdatesIn(l, l[i].tx) :
         IF u > NextUndo(l[i]) THEN Single(ClrsOf(l, u)) ELSE ClrsOf(l, u) = {}
  /\ l[i].type = "END" => \A u \in UpdatesIn(l, l[i].tx) : Single(ClrsOf(l, u))

\* A CLR compensates the newest update of its transaction that is left.
InTurn(l, i) ==
  l[i].type = "CLR" =>
    \E u \in Earlier(l, i) :
      /\ l[u].type = "UPDATE" /\ Compensates(l[i], l[u])
      /\ \A w \in Earlier(l, i) : l[w].type = "UPDATE" /\ w > u =>
           \E r \in Earlier(l, i) : Compensates(l[r], l[w])

Shape(l) == \A i \in 1 .. Len(l) : Placed(l, i) /\ Progress(l, i) /\ InTurn(l, i)

\* Transaction tx is rolled back as far as record n, which is undone next.
UnwindsAt(l, tx, n) ==
  \E i \in Of(l, tx) :
    /\ IsLastOf(l, i, tx) /\ l[i].type \in {"ABORT", "CLR"}
    /\ n = NextUndo(l[i]) \/ (l[i].type = "ABORT" /\ n = i)

\* A record of a transaction that may come next.
Fits(l, r) ==
  /\ r.tx # 0 /\ r.type # "CHECK"
  /\ \A j \in Of(l, r.tx) : l[j].type \notin {"COMMIT", "END"}
  /\ r.type = "BEGIN" => Of(l, r.tx) = {}
  /\ r.type \in {"UPDATE", "ABORT"} =>
       IsLastOf(l, r.prev, r.tx) /\ \A j \in Of(l, r.tx) : l[j].type \in Working
  /\ r.type = "CLR" => \E u \in UpdatesIn(l, r.tx) : UnwindsAt(l, r.tx, u) /\ Compensates(r, l[u])
  /\ r.type = "END" => \E n \in Of(l, r.tx) : l[n].type = "BEGIN" /\ UnwindsAt(l, r.tx, n)

(***************************************************************************)
(* What clients and a restart make of it.                                  *)
(***************************************************************************)
\* An entry of the checkpoint at i: the transaction's last record before it, none
\* of which ends or aborts.
EntryRight(l, i, entry) ==
  /\ entry.tx_id # 0 /\ entry.last_lsn \in 1 .. i - 1 /\ l[entry.last_lsn].tx = entry.tx_id
  /\ \A j \in 1 .. i - 1 : l[j].tx = entry.tx_id =>
       j <= entry.last_lsn /\ l[j].type \notin {"COMMIT", "END", "ABORT"}

LineRight(l, i) ==
  /\ l[i].lsn = i
  /\ l[i].type = "CHECK" => \A n \in DOMAIN l[i].list : EntryRight(l, i, l[i].list[n])

\* LSNs are line numbers, and what the checkpoints list is right.
Exact == \A i \in 1 .. Len(log) : LineRight(log, i)

Ends == {"set_commit", "set_abort", "rollback", "set_clr", "undo_apply", "set_end", "unlock"}

Acts(c) ==
  /\ pc[c] = "begin_log" => Of(log, txid[c]) = {}
  /\ txid[c] # 0 /\ pc[c] # "begin_log" =>
       IsLastOf(log, IF pc[c] \in Setting THEN new_lsn[c] ELSE last_lsn[c], txid[c])
  /\ txid[c] # 0 /\ pc[c] \notin Ends => \A j \in Of(log, txid[c]) : log[j].type \in Working
  /\ pc[c] = "set_abort" => log[new_lsn[c]].type = "ABORT"
  /\ pc[c] = "rollback" => UnwindsAt(log, txid[c], cursor[c])
  /\ pc[c] \in {"set_clr", "undo_apply"} => UnwindsAt(log, txid[c], log[cursor[c]].prev)

\* Up to the checkpoint the transaction has not ended, and entry has its last record.
ListedRight(l, check, entry) ==
  /\ check \in 1 .. Len(l) /\ entry.last_lsn < check /\ entry.last_lsn \in Of(l, entry.tx_id)
  /\ \A j \in Of(l, entry.tx_id) : j <= check => j <= entry.last_lsn /\ l[j].type \in Working

RecActs ==
  /\ server \in {"analyze", "undo"} =>
       \A n \in DOMAIN rec.todo : ListedRight(log, rec.check, rec.todo[n])
  /\ server = "undo" => UnwindsAt(log, rec.tx, rec.cursor)

Good == Shape(log) /\ (\A c \in Client : Acts(c)) /\ RecActs

RollInv == Exact => Sound /\ Good

\* The log m is l with the record r behind it.
Grows(l, m, r) ==
  /\ Len(l) \in Nat /\ Len(m) = Len(l) + 1
  /\ \A i \in 1 .. Len(l) : m[i] = l[i]
  /\ m[Len(m)] = r

LEMMA OfGrown ==
  ASSUME NEW l, NEW m, NEW r, Grows(l, m, r), NEW tx
  PROVE  /\ r.tx # tx => Of(m, tx) = Of(l, tx)
         /\ r.tx = tx => Of(m, tx) = Of(l, tx) \cup {Len(m)}
         /\ \A i \in Of(l, tx) : i \in 1 .. Len(l) /\ i < Len(m) /\ m[i] = l[i]
         /\ Earlier(m, Len(m)) = Of(l, r.tx)
<1>1. PICK n \in Nat : n = Len(l)
  BY DEF Grows
<1>2. /\ Len(m) = n + 1 /\ m[n + 1] = r /\ \A i \in 1 .. n : m[i] = l[i]
  BY <1>1 DEF Grows
<1>3. Of(l, tx) = {i \in 1 .. n : l[i].tx = tx} /\ Of(m, tx) = {i \in 1 .. n + 1 : m[i].tx = tx}
  BY <1>1, <1>2 DEF Of
<1>4. ASSUME NEW i \in Of(l, tx) PROVE i \in 1 .. Len(l) /\ i < Len(m) /\ m[i] = l[i]
  BY <1>1, <1>2, <1>3
<1>5. \A i \in 1 .. n + 1 : i = n + 1 \/ i \in 1 .. n
  OBVIOUS
<1>6. r.tx # tx => Of(m, tx) = Of(l, tx)
  BY <1>2, <1>3, <1>5
<1>7. r.tx = tx => Of(m, tx) = Of(l, tx) \cup {n + 1}
  BY <1>2, <1>3, <1>5
<1>8. Earlier(m, n + 1) = Of(l, r.tx)
  <2>1. n + 1 - 1 = n
    OBVIOUS
  <2> QED BY <1>1, <1>2, <2>1 DEF Earlier, Of
<1> QED BY <1>2, <1>4, <1>6, <1>7, <1>8

\* What is said of a transaction stays so as long as it appends nothing.
LEMMA TxKept ==
  ASSUME NEW l, NEW m, NEW r, Grows(l, m, r), NEW tx, r.tx # tx
  PROVE  /\ UpdatesIn(m, tx) = UpdatesIn(l, tx)
         /\ \A i : IsLastOf(m, i, tx) <=> IsLastOf(l, i, tx)
         /\ \A u \in Of(l, tx) : ClrsOf(m, u) = ClrsOf(l, u)
         /\ \A n : UnwindsAt(l, tx, n) => UnwindsAt(m, tx, n)
<1>1. Of(m, tx) = Of(l, tx) /\ \A i \in Of(l, tx) : m[i] = l[i]
  BY OfGrown
<1>2. UpdatesIn(m, tx) = UpdatesIn(l, tx)
  BY <1>1 DEF UpdatesIn
<1>3. \A i : IsLastOf(m, i, tx) <=> IsLastOf(l, i, tx)
  BY <1>1 DEF IsLastOf
<1>4. ASSUME NEW u \in Of(l, tx) PROVE ClrsOf(m, u) = ClrsOf(l, u)
  <2>1. l[u].tx = tx /\ m[u] = l[u]
    BY <1>1 DEF Of
  <2> QED BY <1>1, <2>1 DEF ClrsOf
<1>5. ASSUME NEW n, UnwindsAt(l, tx, n) PROVE UnwindsAt(m, tx, n)
  <2>1. PICK i \in Of(l, tx) : /\ IsLastOf(l, i, tx) /\ l[i].type \in {"ABORT", "CLR"}
                               /\ n = NextUndo(l[i]) \/ (l[i].type = "ABORT" /\ n = i)
    BY <1>5 DEF UnwindsAt
  <2>2. i \in Of(m, tx) /\ IsLastOf(m, i, tx) /\ m[i] = l[i]
    BY <1>1, <1>3, <2>1
  <2> QED BY <2>1, <2>2 DEF UnwindsAt
<1> QED BY <1>2, <1>3, <1>4, <1>5

LEMMA PlacedKept ==
  ASSUME NEW l, NEW m, NEW r, Grows(l, m, r), NEW i \in 1 .. Len(l), Placed(l, i)
  PROVE  Placed(m, i)
<1>1. m[i] = l[i] /\ \A j \in 1 .. i - 1 : m[j] = l[j]
  BY DEF Grows
<1>2. Earlier(m, i) = Earlier(l, i) /\ \A j \in Earlier(l, i) : m[j] = l[j]
  BY <1>1 DEF Earlier
<1> QED BY <1>1, <1>2 DEF Placed

\* A transaction that is being rolled back has an ABORT, and no end; next is
\* undone one of its own updates, its BEGIN, or nothing, at the ABORT itself.
LEMMA UnwindsIs ==
  ASSUME NEW l, Len(l) \in Nat, Shape(l), NEW tx, tx # 0, NEW n, UnwindsAt(l, tx, n)
  PROVE  /\ n \in Of(l, tx)
         /\ \E j \in Of(l, tx) : l[j].type = "ABORT"
         /\ \A j \in Of(l, tx) : l[j].type \notin {"COMMIT", "END"}
         /\ l[n].type \in Working \/ (l[n].type = "ABORT" /\ UnwindsAt(l, tx, l[n].prev))
<1>1. PICK i \in Of(l, tx) : /\ IsLastOf(l, i, tx) /\ l[i].type \in {"ABORT", "CLR"}
                             /\ n = NextUndo(l[i]) \/ (l[i].type = "ABORT" /\ n = i)
  BY DEF UnwindsAt
<1>2. i \in 1 .. Len(l) /\ l[i].tx = tx /\ Placed(l, i)
  BY <1>1 DEF Of, Shape
<1>3. \A j \in Earlier(l, i) : j \in Of(l, tx)
  BY <1>2 DEF Earlier, Of
<1>4. \A j \in Of(l, tx) : j = i \/ j \in Earlier(l, i)
  BY <1>1, <1>2 DEF IsLastOf, Earlier, Of
<1>5. /\ l[i].type = "ABORT" => l[i].prev \in Earlier(l, i) /\ l[l[i].prev].type \in Working
      /\ l[i].type = "CLR" => /\ l[i].undo_next \in Earlier(l, i)
                              /\ l[l[i].undo_next].type \in Working
                              /\ \E j \in Earlier(l, i) : l[j].type = "ABORT"
      /\ \A j \in Earlier(l, i) : l[j].type \notin {"COMMIT", "END"}
  BY <1>2 DEF Placed
<1>6. NextUndo(l[i]) \in Earlier(l, i) /\ l[NextUndo(l[i])].type \in Working
  BY <1>1, <1>5 DEF NextUndo
<1>7. n \in Of(l, tx)
  BY <1>1, <1>3, <1>6
<1>8. \E j \in Of(l, tx) : l[j].type = "ABORT"
  BY <1>1, <1>3, <1>5
<1>9. \A j \in Of(l, tx) : l[j].type \notin {"COMMIT", "END"}
  BY <1>1, <1>4, <1>5
<1>10. l[i].type = "ABORT" /\ n = i => UnwindsAt(l, tx, l[n].prev)
  BY <1>1 DEF UnwindsAt, NextUndo
<1> QED BY <1>1, <1>6, <1>7, <1>8, <1>9, <1>10

LEMMA PlacedLast ==
  ASSUME NEW l, NEW m, NEW r, Grows(l, m, r), Shape(l),
         Fits(l, r) \/ (r.tx = 0 /\ r.type = "CHECK")
  PROVE  Placed(m, Len(m))
<1>1. m[Len(m)] = r /\ Len(l) \in Nat
  BY DEF Grows
<1> DEFINE mine == Of(l, r.tx)
<1>2. Earlier(m, Len(m)) = mine /\ \A i \in mine : i \in 1 .. Len(l) /\ m[i] = l[i]
  BY OfGrown
<1>3. CASE r.tx = 0 /\ r.type = "CHECK"
  BY <1>1, <1>3 DEF Placed
<1>4. CASE Fits(l, r)
  <2>1. /\ r.tx # 0 /\ r.type # "CHECK"
        /\ \A j \in mine : l[j].type \notin {"COMMIT", "END"}
        /\ r.type = "BEGIN" => mine = {}
    BY <1>4 DEF Fits
  <2>2. r.type \in {"UPDATE", "ABORT"} =>
          r.prev \in mine /\ \A j \in mine : j <= r.prev /\ l[j].type \in Working
    BY <1>4 DEF Fits, IsLastOf
  <2>3. r.type = "CLR" => /\ r.undo_next \in mine /\ l[r.undo_next].type \in Working
                          /\ \E j \in mine : l[j].type = "ABORT"
    <3> SUFFICES ASSUME r.type = "CLR"
                 PROVE  /\ r.undo_next \in mine /\ l[r.undo_next].type \in Working
                        /\ \E j \in mine : l[j].type = "ABORT"
      OBVIOUS
    <3>1. PICK u \in UpdatesIn(l, r.tx) : UnwindsAt(l, r.tx, u) /\ Compensates(r, l[u])
      BY <1>4 DEF Fits
    <3>2. u \in 1 .. Len(l) /\ l[u].tx = r.tx /\ l[u].type = "UPDATE" /\ Placed(l, u)
      BY <3>1 DEF UpdatesIn, Of, Shape
    <3>3. l[u].prev \in Earlier(l, u) /\ l[l[u].prev].type \in Working
      BY <2>1, <3>2 DEF Placed
    <3>4. l[u].prev \in mine
      BY <1>1, <3>2, <3>3 DEF Earlier, Of
    <3>5. r.undo_next = l[u].prev
      BY <3>1 DEF Compensates
    <3> QED BY <1>1, <2>1, <3>1, <3>3, <3>4, <3>5, UnwindsIs
  <2>4. r.type = "END" => \E j \in mine : l[j].type = "ABORT"
    BY <1>1, <1>4, <2>1, UnwindsIs DEF Fits
  <2> HIDE DEF mine
  <2> QED BY <1>1, <1>2, <2>1, <2>2, <2>3, <2>4 DEF Placed
<1> QED BY <1>3, <1>4

\* Updates of one transaction have different records before them.
LEMMA PrevsDiffer ==
  ASSUME NEW l, Len(l) \in Nat, Shape(l), NEW tx, tx # 0,
         NEW u \in UpdatesIn(l, tx), NEW w \in UpdatesIn(l, tx), u < w
  PROVE  l[u].prev < u /\ u <= l[w].prev /\ l[u].prev # l[w].prev
<1>1. /\ u \in 1 .. Len(l) /\ w \in 1 .. Len(l) /\ l[u].tx = tx /\ l[w].tx = tx
      /\ l[u].type = "UPDATE" /\ l[w].type = "UPDATE" /\ Placed(l, u) /\ Placed(l, w)
  BY DEF UpdatesIn, Of, Shape
<1>2. u \in Earlier(l, w)
  BY <1>1 DEF Earlier
<1>3. l[u].prev \in Earlier(l, u) /\ u <= l[w].prev /\ l[w].prev \in Earlier(l, w)
  BY <1>1, <1>2 DEF Placed
<1>4. l[u].prev \in 1 .. u - 1 /\ l[w].prev \in 1 .. w - 1 /\ u \in Nat /\ w \in Nat
  BY <1>1, <1>3 DEF Earlier
<1> HIDE DEF Placed
<1> QED BY <1>3, <1>4

LEMMA ProgressKept ==
  ASSUME NEW l, NEW m, NEW r, Grows(l, m, r), NEW i \in 1 .. Len(l), Progress(l, i), Placed(l, i),
         Fits(l, r) \/ (r.tx = 0 /\ r.type = "CHECK")
  PROVE  Progress(m, i)
<1> DEFINE tx == l[i].tx
<1>1. m[i] = l[i] /\ i \in Of(l, tx)
  BY DEF Grows, Of
<1>2. CASE r.tx # tx
  <2>1. /\ UpdatesIn(m, tx) = UpdatesIn(l, tx)
        /\ IsLastOf(m, i, tx) <=> IsLastOf(l, i, tx)
        /\ \A u \in UpdatesIn(l, tx) : ClrsOf(m, u) = ClrsOf(l, u)
    BY <1>2, TxKept DEF UpdatesIn
  <2> HIDE DEF tx
  <2>2. /\ l[i].type \in {"ABORT", "CLR"} /\ IsLastOf(l, i, tx) =>
             \A u \in UpdatesIn(l, tx) :
               IF u > NextUndo(l[i]) THEN Single(ClrsOf(l, u)) ELSE ClrsOf(l, u) = {}
        /\ l[i].type = "END" => \A u \in UpdatesIn(l, tx) : Single(ClrsOf(l, u))
    BY DEF Progress, tx
  <2>3. m[i].tx = tx
    BY <1>1 DEF tx
  <2> QED BY <1>1, <2>1, <2>2, <2>3 DEF Progress
<1>3. CASE r.tx = tx
  <2>1. ~IsLastOf(m, i, tx)
    BY <1>1, <1>3, OfGrown DEF IsLastOf, Grows
  <2>2. l[i].type # "END"
    BY <1>1, <1>3 DEF Fits, Placed
  <2> QED BY <1>1, <2>1, <2>2 DEF Progress
<1> QED BY <1>2, <1>3

\* The records that compensate update u: one more when r is one.
LEMMA ClrsGrown ==
  ASSUME NEW l, NEW m, NEW r, Grows(l, m, r), NEW u \in Of(l, r.tx)
  PROVE  /\ Compensates(r, l[u]) => ClrsOf(m, u) = ClrsOf(l, u) \cup {Len(m)}
         /\ ~Compensates(r, l[u]) => ClrsOf(m, u) = ClrsOf(l, u)
<1>1. /\ Of(m, r.tx) = Of(l, r.tx) \cup {Len(m)} /\ m[Len(m)] = r
      /\ \A i \in Of(l, r.tx) : i \in 1 .. Len(l) /\ m[i] = l[i]
  BY OfGrown DEF Grows
<1>2. m[u] = l[u] /\ l[u].tx = r.tx
  BY <1>1 DEF Of
<1> QED BY <1>1, <1>2 DEF ClrsOf

\* How far a transaction that is being rolled back has come.
LEMMA UnwoundTo ==
  ASSUME NEW l, Len(l) \in Nat, Shape(l), NEW tx, tx # 0, NEW n, UnwindsAt(l, tx, n),
         l[n].type \in Working
  PROVE  \A u \in UpdatesIn(l, tx) :
           IF u > n THEN Single(ClrsOf(l, u)) ELSE ClrsOf(l, u) = {}
<1>1. PICK i \in Of(l, tx) : /\ IsLastOf(l, i, tx) /\ l[i].type \in {"ABORT", "CLR"}
                             /\ n = NextUndo(l[i]) \/ (l[i].type = "ABORT" /\ n = i)
  BY DEF UnwindsAt
<1>2. i \in 1 .. Len(l) /\ l[i].tx = tx /\ Progress(l, i)
  BY <1>1 DEF Of, Shape
<1>3. n = NextUndo(l[i])
  BY <1>1 DEF Working
<1> QED BY <1>1, <1>2, <1>3 DEF Progress

LEMMA ProgressLast ==
  ASSUME NEW l, NEW m, NEW r, Grows(l, m, r), Shape(l),
         Fits(l, r) \/ (r.tx = 0 /\ r.type = "CHECK")
  PROVE  Progress(m, Len(m))
<1>1. m[Len(m)] = r /\ Len(l) \in Nat
  BY DEF Grows
<1> SUFFICES ASSUME Fits(l, r), r.type \in {"ABORT", "CLR", "END"} PROVE Progress(m, Len(m))
  BY <1>1 DEF Progress
<1> DEFINE tx == r.tx
<1>2. tx # 0 /\ \A u \in Of(l, tx) : l[u].tx = tx /\ u \in 1 .. Len(l) /\ m[u] = l[u]
  <2>1. tx # 0
    BY DEF Fits
  <2>2. \A u \in Of(l, tx) : u \in 1 .. Len(l) /\ m[u] = l[u]
    BY OfGrown
  <2>3. \A u \in Of(l, tx) : l[u].tx = tx
    BY DEF Of
  <2> QED BY <2>1, <2>2, <2>3
<1>3. UpdatesIn(m, tx) = UpdatesIn(l, tx)
  <2>1. r.type # "UPDATE" /\ Of(m, tx) = Of(l, tx) \cup {Len(m)}
    BY OfGrown
  <2> HIDE DEF tx
  <2> QED BY <1>1, <1>2, <2>1 DEF UpdatesIn
<1>4. \A u \in UpdatesIn(l, tx) : u \in Of(l, tx) /\ u \in 1 .. Len(l) /\ Placed(l, u)
                                  /\ l[u].type = "UPDATE" /\ l[u].tx = tx
  BY <1>2 DEF UpdatesIn, Shape
<1>5. CASE r.type = "ABORT"
  <2>1. ASSUME NEW u \in UpdatesIn(l, tx) PROVE ~(u > NextUndo(r)) /\ ClrsOf(m, u) = {}
    <3>1. IsLastOf(l, r.prev, tx) /\ \A j \in Of(l, tx) : l[j].type \in Working
      BY <1>5 DEF Fits
    <3>2. u <= r.prev /\ u \in Nat /\ r.prev \in Nat
      BY <1>2, <1>4, <3>1 DEF IsLastOf
    <3>3. ~Compensates(r, l[u]) /\ NextUndo(r) = r.prev
      BY <1>5 DEF Compensates, NextUndo
    <3>4. ClrsOf(m, u) = ClrsOf(l, u)
      BY <1>4, <3>3, ClrsGrown
    <3>5. ClrsOf(l, u) = {}
      BY <1>4, <3>1 DEF ClrsOf, Compensates, Working
    <3> QED BY <3>2, <3>3, <3>4, <3>5
  <2> QED BY <1>1, <1>3, <1>5, <2>1 DEF Progress
<1>6. CASE r.type = "CLR"
  <2>1. PICK u \in UpdatesIn(l, tx) : UnwindsAt(l, tx, u) /\ Compensates(r, l[u])
    BY <1>6 DEF Fits
  <2>2. NextUndo(r) = l[u].prev
    BY <1>6, <2>1 DEF NextUndo, Compensates
  <2>3. \A w \in UpdatesIn(l, tx) : IF w > u THEN Single(ClrsOf(l, w)) ELSE ClrsOf(l, w) = {}
    BY <1>1, <1>2, <1>4, <2>1, UnwoundTo DEF Working
  <2>4. ASSUME NEW w \in UpdatesIn(l, tx)
        PROVE  IF w > NextUndo(r) THEN Single(ClrsOf(m, w)) ELSE ClrsOf(m, w) = {}
    <3>1. u \in Nat /\ w \in Nat
      BY <1>4
    <3>2. CASE w = u
      <4>1. l[u].prev < u
        BY <1>4, <2>1 DEF Placed, Earlier
      <4>2. ClrsOf(m, u) = {Len(m)}
        <5>1. ClrsOf(l, u) = {}
          BY <2>3, <3>1
        <5> QED BY <1>4, <2>1, <5>1, ClrsGrown
      <4> QED BY <2>2, <3>2, <4>1, <4>2 DEF Single
    <3>3. CASE w > u
      <4>1. l[u].prev < u /\ l[u].prev # l[w].prev
        BY <1>1, <1>2, <3>3, PrevsDiffer
      <4>2. ~Compensates(r, l[w])
        BY <2>1, <4>1 DEF Compensates
      <4>3. ClrsOf(m, w) = ClrsOf(l, w)
        BY <1>4, <4>2, ClrsGrown
      <4>4. l[u].prev \in Nat
        BY <1>4, <2>1 DEF Placed, Earlier
      <4> QED BY <2>2, <2>3, <3>1, <3>3, <4>1, <4>3, <4>4
    <3>4. CASE w < u
      <4>1. w <= l[u].prev /\ l[u].prev # l[w].prev
        BY <1>1, <1>2, <3>4, PrevsDiffer
      <4>2. ~Compensates(r, l[w])
        BY <2>1, <4>1 DEF Compensates
      <4>3. ClrsOf(m, w) = ClrsOf(l, w)
        BY <1>4, <4>2, ClrsGrown
      <4>4. l[u].prev \in Nat
        BY <1>4, <2>1 DEF Placed, Earlier
      <4> QED BY <2>2, <2>3, <3>1, <3>4, <4>1, <4>3, <4>4
    <3> QED BY <3>1, <3>2, <3>3, <3>4
  <2> QED BY <1>1, <1>3, <1>6, <2>4 DEF Progress
<1>7. CASE r.type = "END"
  <2>1. PICK n \in Of(l, tx) : l[n].type = "BEGIN" /\ UnwindsAt(l, tx, n)
    BY <1>7 DEF Fits
  <2>2. \A u \in UpdatesIn(l, tx) : IF u > n THEN Single(ClrsOf(l, u)) ELSE ClrsOf(l, u) = {}
    BY <1>1, <1>2, <2>1, UnwoundTo DEF Working
  <2>3. ASSUME NEW u \in UpdatesIn(l, tx) PROVE Single(ClrsOf(m, u))
    <3>1. n \in 1 .. Len(l) /\ Placed(l, n) /\ l[n].tx = tx
      BY <1>2, <2>1 DEF Shape
    <3>2. Earlier(l, n) = {} /\ u # n
      BY <1>2, <1>4, <2>1, <3>1 DEF Placed
    <3>3. ~(u < n)
      BY <1>1, <1>4, <3>1, <3>2 DEF Earlier
    <3>4. u > n
      BY <1>4, <3>1, <3>2, <3>3
    <3>5. ~Compensates(r, l[u])
      BY <1>7 DEF Compensates
    <3>6. ClrsOf(m, u) = ClrsOf(l, u)
      BY <1>4, <3>5, ClrsGrown
    <3> QED BY <2>2, <3>4, <3>6
  <2> QED BY <1>1, <1>3, <1>7, <2>3 DEF Progress
<1> QED BY <1>5, <1>6, <1>7

\* CLRs stay in turn.
LEMMA InTurnKept ==
  ASSUME NEW l, NEW m, NEW r, Grows(l, m, r), NEW i \in 1 .. Len(l), InTurn(l, i)
  PROVE  InTurn(m, i)
<1>1. m[i] = l[i] /\ \A j \in 1 .. i - 1 : m[j] = l[j]
  BY DEF Grows
<1>2. Earlier(m, i) = Earlier(l, i) /\ \A j \in Earlier(l, i) : m[j] = l[j]
  BY <1>1 DEF Earlier
<1> QED BY <1>1, <1>2 DEF InTurn

LEMMA InTurnLast ==
  ASSUME NEW l, NEW m, NEW r, Grows(l, m, r), Shape(l),
         Fits(l, r) \/ (r.tx = 0 /\ r.type = "CHECK")
  PROVE  InTurn(m, Len(m))
<1>1. m[Len(m)] = r /\ Len(l) \in Nat
  BY DEF Grows
<1> SUFFICES ASSUME Fits(l, r), r.type = "CLR" PROVE InTurn(m, Len(m))
  BY <1>1 DEF InTurn
<1> DEFINE tx == r.tx
<1>2. tx # 0 /\ Earlier(m, Len(m)) = Of(l, tx) /\ \A u \in Of(l, tx) : m[u] = l[u]
  <2>1. tx # 0
    BY DEF Fits
  <2> QED BY <2>1, OfGrown
<1>3. PICK u \in UpdatesIn(l, tx) : UnwindsAt(l, tx, u) /\ Compensates(r, l[u])
  BY DEF Fits
<1>4. u \in Of(l, tx) /\ l[u].type = "UPDATE"
  BY <1>3 DEF UpdatesIn
<1>5. \A w \in UpdatesIn(l, tx) : IF w > u THEN Single(ClrsOf(l, w)) ELSE ClrsOf(l, w) = {}
  BY <1>1, <1>2, <1>3, <1>4, UnwoundTo DEF Working
<1>6. ASSUME NEW w \in Of(l, tx), l[w].type = "UPDATE", w > u
      PROVE  \E x \in Of(l, tx) : Compensates(l[x], l[w])
  <2>1. w \in UpdatesIn(l, tx) /\ l[w].tx = tx
    BY <1>6 DEF UpdatesIn, Of
  <2>2. Single(ClrsOf(l, w))
    BY <1>5, <1>6, <2>1
  <2>3. PICK x \in ClrsOf(l, w) : TRUE
    BY <2>2 DEF Single
  <2> QED BY <2>1, <2>3 DEF ClrsOf
<1> HIDE DEF tx
<1>7. \A w \in Of(l, tx) : m[w].type = "UPDATE" /\ w > u =>
        \E x \in Of(l, tx) : Compensates(m[x], m[w])
  BY <1>2, <1>6
<1>8. Compensates(m[Len(m)], m[u]) /\ m[u].type = "UPDATE"
  BY <1>1, <1>2, <1>3, <1>4
<1> QED BY <1>2, <1>4, <1>7, <1>8 DEF InTurn

LEMMA ShapeGrown ==
  ASSUME NEW l, NEW m, NEW r, Grows(l, m, r), Shape(l),
         Fits(l, r) \/ (r.tx = 0 /\ r.type = "CHECK")
  PROVE  Shape(m)
<1>1. \A i \in 1 .. Len(l) : Placed(m, i) /\ Progress(m, i) /\ InTurn(m, i)
  BY PlacedKept, ProgressKept, InTurnKept DEF Shape
<1>2. Placed(m, Len(m)) /\ Progress(m, Len(m)) /\ InTurn(m, Len(m))
  BY PlacedLast, ProgressLast, InTurnLast
<1>3. \A i \in 1 .. Len(m) : i \in 1 .. Len(l) \/ i = Len(m)
  BY DEF Grows
<1> QED BY <1>1, <1>2, <1>3 DEF Shape

\* The record appended is its transaction's last, and from an ABORT or CLR the
\* rollback goes on.
LEMMA LastGrown ==
  ASSUME NEW l, NEW m, NEW r, Grows(l, m, r)
  PROVE  /\ IsLastOf(m, Len(m), r.tx)
         /\ r.type = "ABORT" => UnwindsAt(m, r.tx, Len(m))
         /\ r.type \in {"ABORT", "CLR"} => UnwindsAt(m, r.tx, NextUndo(r))
<1>1. m[Len(m)] = r /\ Len(l) \in Nat /\ Len(m) = Len(l) + 1
  BY DEF Grows
<1>2. Of(m, r.tx) = Of(l, r.tx) \cup {Len(m)} /\ \A i \in Of(l, r.tx) : i <= Len(m)
  BY <1>1, OfGrown
<1>3. IsLastOf(m, Len(m), r.tx)
  BY <1>1, <1>2 DEF IsLastOf
<1> QED BY <1>1, <1>2, <1>3 DEF UnwindsAt

LEMMA GrownIs ==
  ASSUME LockInv, NEW r \in Record, log' = Append(log, r)
  PROVE  Grows(log, log', r) /\ Len(log) \in Nat
BY LogIsSeq, Appended DEF Grows, LockInv

LEMMA TxQuiet ==
  ASSUME LockInv, NEW tx, log' = log \/ \E r \in Record : log' = Append(log, r) /\ r.tx # tx
  PROVE  /\ Of(log', tx) = Of(log, tx) /\ \A i \in Of(log, tx) : log'[i] = log[i]
         /\ \A i : IsLastOf(log, i, tx) => IsLastOf(log', i, tx)
         /\ \A n : UnwindsAt(log, tx, n) => UnwindsAt(log', tx, n)
<1>1. CASE log' = log
  BY <1>1
<1>2. CASE \E r \in Record : log' = Append(log, r) /\ r.tx # tx
  <2>1. PICK r \in Record : log' = Append(log, r) /\ r.tx # tx
    BY <1>2
  <2>2. Grows(log, log', r)
    BY <2>1, GrownIs
  <2> QED BY <2>1, <2>2, OfGrown, TxKept
<1> QED BY <1>1, <1>2

LEMMA ActsIdle ==
  ASSUME NEW c, pc'[c] \in {"ready", "gone"}, txid'[c] = 0
  PROVE  Acts(c)'
BY DEF Acts, Setting

\* A client that does nothing, while no record of its transaction is appended.
LEMMA ActsKept ==
  ASSUME LockInv, NEW d \in Client, Acts(d), Knows(d),
         pc'[d] = pc[d], txid'[d] = txid[d], last_lsn'[d] = last_lsn[d],
         new_lsn'[d] = new_lsn[d], cursor'[d] = cursor[d],
         \/ log' = log
         \/ \E r \in Record : log' = Append(log, r) /\ (txid[d] = 0 \/ r.tx # txid[d])
  PROVE  Acts(d)'
<1>1. CASE txid[d] = 0
  <2>1. pc[d] \in {"ready", "gone"}
    BY <1>1 DEF LockInv, ThreadOK
  <2> QED BY <1>1, <2>1, ActsIdle
<1>2. CASE txid[d] # 0
  <2> DEFINE tx == txid[d]
  <2>1. /\ Of(log', tx) = Of(log, tx) /\ \A i \in Of(log, tx) : log'[i] = log[i]
        /\ \A i : IsLastOf(log, i, tx) => IsLastOf(log', i, tx)
        /\ \A n : UnwindsAt(log, tx, n) => UnwindsAt(log', tx, n)
    BY <1>2, TxQuiet
  <2>2. pc[d] \in {"set_clr", "undo_apply"} => log'[cursor[d]] = log[cursor[d]]
    <3>1. pc[d] \in {"set_clr", "undo_apply"} => cursor[d] \in Of(log, tx)
      BY DEF Knows, OwnRecord, Of
    <3> QED BY <2>1, <3>1
  <2>3. pc[d] = "set_abort" => log'[new_lsn[d]] = log[new_lsn[d]]
    <3>1. pc[d] = "set_abort" => new_lsn[d] \in Of(log, tx)
      BY DEF Knows, OwnRecord, Of, Setting
    <3> QED BY <2>1, <3>1
  <2> QED BY <2>1, <2>2, <2>3 DEF Acts
<1> QED BY <1>1, <1>2

\* A client's record fits the log, and the client knows how far it is.
LEMMA ActsAdds ==
  ASSUME LockInv, Sound, Shape(log), NEW c \in Client, Acts(c), NEW r \in Record, Adds(c, r),
         lsn = Len(log)
  PROVE  Fits(log, r) /\ Acts(c)'
<1>0. /\ Len(log) \in Nat /\ Knows(c) /\ Grows(log, log', r)
      /\ \A n \in 1 .. Len(log) : GetLog(log, n) = log[n]
  BY SoundLines, GrownIs DEF Sound, Adds
<1> DEFINE tx == txid[c]
<1>1. /\ r.tx = tx /\ tx # 0 /\ r.prev = last_lsn[c] /\ txid'[c] = tx
      /\ new_lsn'[c] = Len(log')
  BY <1>0 DEF Adds, Grows
<1>2. /\ Of(log', tx) = Of(log, tx) \cup {Len(log')} /\ log'[Len(log')] = r
      /\ \A i \in Of(log, tx) : log'[i] = log[i]
  <2>1. log'[Len(log')] = r
    BY <1>0 DEF Grows
  <2> QED BY <1>0, <1>1, <2>1, OfGrown
<1>3. /\ IsLastOf(log', Len(log'), tx)
      /\ r.type \in {"ABORT", "CLR"} => UnwindsAt(log', tx, NextUndo(r))
  BY <1>0, <1>1, LastGrown
<1>4. pc[c] = "rollback" =>
        /\ cursor[c] \in Of(log, tx) /\ Undoing(c) = log[cursor[c]]
        /\ UnwindsAt(log, tx, cursor[c])
        /\ \A j \in Of(log, tx) : log[j].type \notin {"COMMIT", "END"}
  <2> SUFFICES ASSUME pc[c] = "rollback"
               PROVE  /\ cursor[c] \in Of(log, tx) /\ Undoing(c) = log[cursor[c]]
                      /\ UnwindsAt(log, tx, cursor[c])
                      /\ \A j \in Of(log, tx) : log[j].type \notin {"COMMIT", "END"}
    OBVIOUS
  <2>1. UnwindsAt(log, tx, cursor[c])
    BY DEF Acts
  <2>2. /\ cursor[c] \in Of(log, tx)
        /\ \A j \in Of(log, tx) : log[j].type \notin {"COMMIT", "END"}
    BY <1>0, <1>1, <2>1, UnwindsIs
  <2>3. cursor[c] \in 1 .. Len(log)
    BY <2>2 DEF Of
  <2> QED BY <1>0, <2>1, <2>2, <2>3 DEF Undoing
<1>5. pc[c] \notin Ends /\ pc[c] # "begin_log" =>
        \A j \in Of(log, tx) : log[j].type \in Working
  BY <1>1 DEF Acts
<1>6. pc[c] = "begin_log" => Of(log, tx) = {}
  BY DEF Acts
<1>7. pc[c] \in {"log", "ready"} => IsLastOf(log, r.prev, tx)
  BY <1>1 DEF Acts, Setting
<1>8. CASE pc[c] # "rollback"
  <2>1. /\ \/ pc[c] = "begin_log" /\ pc'[c] = "set_begin" /\ r.type = "BEGIN"
           \/ pc[c] = "log" /\ pc'[c] = "set_update" /\ r.type = "UPDATE"
           \/ pc[c] \in {"commit_log", "ready"} /\ pc'[c] = "set_commit" /\ r.type = "COMMIT"
           \/ pc[c] = "ready" /\ pc'[c] = "set_abort" /\ r.type = "ABORT"
    BY <1>8 DEF Adds
  <2>2. \A j \in Of(log, tx) : log[j].type \in Working
    BY <1>5, <1>6, <2>1 DEF Ends
  <2>3. \A j \in Of(log, tx) : log[j].type \notin {"COMMIT", "END"}
    BY <2>2 DEF Working
  <2>4. Fits(log, r)
    <3> HIDE DEF tx
    <3>1. /\ r.type \in {"BEGIN", "UPDATE", "COMMIT", "ABORT"}
          /\ r.type = "BEGIN" => pc[c] = "begin_log"
          /\ r.type \in {"UPDATE", "ABORT"} => pc[c] \in {"log", "ready"}
      BY <2>1
    <3> QED BY <1>1, <1>6, <1>7, <2>2, <2>3, <3>1 DEF Fits
  <2>5. Acts(c)'
    <3>1. pc'[c] \in {"set_begin", "set_update"} => r.type \in Working
      BY <2>1 DEF Working
    <3>2. pc'[c] \in {"set_begin", "set_update"} =>
            \A j \in Of(log', tx) : log'[j].type \in Working
      BY <1>2, <2>2, <3>1
    <3>3. pc'[c] \in {"set_begin", "set_update", "set_commit", "set_abort"}
      BY <2>1
    <3>4. pc'[c] \in Setting /\ (pc'[c] \notin Ends => pc'[c] \in {"set_begin", "set_update"})
      BY <3>3 DEF Setting, Ends
    <3>5. pc'[c] = "set_abort" => log'[new_lsn'[c]].type = "ABORT"
      BY <1>1, <1>2, <2>1
    <3> HIDE DEF tx
    <3> QED BY <1>1, <1>3, <3>2, <3>3, <3>4, <3>5 DEF Acts
  <2> QED BY <2>4, <2>5
<1>9. CASE pc[c] = "rollback"
  <2>1. /\ \/ /\ pc'[c] = "set_clr" /\ r.type = "CLR" /\ cursor'[c] = cursor[c]
              /\ Undoing(c).type = "UPDATE" /\ r.undo_next = Undoing(c).prev
              /\ r.key = Undoing(c).key /\ r.new = Undoing(c).old
           \/ /\ pc'[c] = "set_end" /\ r.type = "END" /\ Undoing(c).type = "BEGIN"
    BY <1>9 DEF Adds
  <2>2. log[cursor[c]].tx = tx
    BY <1>4, <1>9 DEF Of
  <2>3. r.type = "CLR" => cursor[c] \in UpdatesIn(log, tx) /\ Compensates(r, log[cursor[c]])
    BY <1>1, <1>4, <1>9, <2>1, <2>2 DEF UpdatesIn, Compensates
  <2>4. r.type = "END" => log[cursor[c]].type = "BEGIN"
    BY <1>4, <1>9, <2>1
  <2>5. r.type \in {"CLR", "END"}
    BY <2>1
  <2>6. Fits(log, r)
    <3> HIDE DEF tx
    <3> QED BY <1>1, <1>4, <1>9, <2>3, <2>4, <2>5 DEF Fits
  <2>7. Acts(c)'
    <3>1. pc'[c] \in {"set_clr", "set_end"} /\ pc'[c] \in Setting /\ pc'[c] \in Ends
      BY <2>1 DEF Setting, Ends
    <3>2. pc'[c] = "set_clr" => UnwindsAt(log', tx, log'[cursor'[c]].prev)
      <4> SUFFICES ASSUME pc'[c] = "set_clr" PROVE UnwindsAt(log', tx, log'[cursor'[c]].prev)
        OBVIOUS
      <4>1. r.type = "CLR" /\ cursor'[c] = cursor[c] /\ r.undo_next = log[cursor[c]].prev
        BY <1>4, <1>9, <2>1
      <4>2. NextUndo(r) = log'[cursor'[c]].prev
        BY <1>2, <1>4, <1>9, <4>1 DEF NextUndo
      <4> QED BY <1>3, <4>1, <4>2
    <3> HIDE DEF tx
    <3> QED BY <1>1, <1>3, <3>1, <3>2 DEF Acts
  <2> QED BY <2>6, <2>7
<1> QED BY <1>8, <1>9

LEMMA ActsMoves ==
  ASSUME LockInv, Sound, Shape(log), NEW c \in Client, Acts(c), log' = log,
         Starts(c) \/ Leaves(c) \/ Learns(c) \/ Walks(c)
  PROVE  Acts(c)'
<1>0. /\ Len(log) \in Nat /\ Knows(c) /\ txid \in [Client -> Nat] /\ transaction_id \in Nat
      /\ \A n \in 1 .. Len(log) : GetLog(log, n) = log[n] /\ Chained(n) /\ log[n] \in Record
  BY SoundLines DEF Sound, LockInv, TypeOK
<1> DEFINE tx == txid[c]
<1>1. CASE Starts(c)
  <2>1. txid'[c] = transaction_id + 1 /\ pc'[c] = "begin_log"
    BY <1>0, <1>1 DEF Starts
  <2>2. ASSUME NEW i \in 1 .. Len(log) PROVE log[i].tx # transaction_id + 1
    <3>1. log[i].tx <= transaction_id /\ log[i].tx \in Nat
      BY <1>0 DEF Chained, Record
    <3> QED BY <1>0, <3>1
  <2>3. Of(log, transaction_id + 1) = {}
    BY <2>2 DEF Of
  <2> QED BY <2>1, <2>3 DEF Acts, Setting
<1>2. CASE Leaves(c)
  <2>1. pc'[c] = "ready" /\ txid'[c] = 0
    BY <1>0, <1>2 DEF Leaves
  <2> QED BY <2>1, ActsIdle
<1>3. pc[c] \in {"rollback", "set_clr", "undo_apply"} =>
        Undoing(c) = log[cursor[c]] /\ cursor[c] \in Of(log, tx) /\ tx # 0
  BY <1>0 DEF Knows, OwnRecord, Undoing, Of
<1>4. pc[c] \in {"set_clr", "undo_apply"} => UnwindsAt(log, tx, Undoing(c).prev)
  BY <1>3 DEF Acts
<1>5. CASE Learns(c)
  <2>1. txid'[c] = tx /\ last_lsn'[c] = new_lsn[c] /\ pc[c] \in Setting /\ tx # 0
    BY <1>0, <1>5 DEF Learns, Setting, Knows, OwnRecord
  <2>2. IsLastOf(log, new_lsn[c], tx)
    BY <2>1 DEF Acts, Setting
  <2>3. pc[c] = "set_abort" => UnwindsAt(log, tx, new_lsn[c])
    <3> SUFFICES ASSUME pc[c] = "set_abort" PROVE UnwindsAt(log, tx, new_lsn[c])
      OBVIOUS
    <3>1. log[new_lsn[c]].type = "ABORT" /\ new_lsn[c] \in Of(log, tx)
      BY <2>2 DEF Acts, IsLastOf
    <3> QED BY <2>2, <3>1 DEF UnwindsAt
  <2>4. /\ pc'[c] \notin Setting /\ pc'[c] # "begin_log"
        /\ pc'[c] \notin Ends => pc[c] \notin Ends
    BY <1>5 DEF Learns, Setting, Ends
  <2>5. pc'[c] \notin Ends => \A j \in Of(log, tx) : log[j].type \in Working
    BY <2>1, <2>4 DEF Acts
  <2>6. pc'[c] = "rollback" => UnwindsAt(log, tx, cursor'[c])
    BY <1>4, <1>5, <2>3 DEF Learns
  <2>7. pc'[c] \in {"set_clr", "undo_apply"} => UnwindsAt(log, tx, log[cursor'[c]].prev)
    BY <1>3, <1>4, <1>5 DEF Learns
  <2>8. pc'[c] # "set_abort"
    BY <2>4 DEF Setting
  <2> HIDE DEF tx
  <2> QED BY <2>1, <2>2, <2>4, <2>5, <2>6, <2>7, <2>8 DEF Acts
<1>6. CASE Walks(c)
  <2>1. txid'[c] = tx /\ last_lsn'[c] = last_lsn[c]
    BY <1>6 DEF Walks
  <2>2. /\ pc'[c] \notin Setting /\ pc'[c] # "begin_log"
        /\ pc[c] \notin Setting /\ pc[c] # "begin_log"
        /\ pc'[c] \notin Ends => pc[c] \notin Ends
        /\ pc'[c] \notin {"set_clr", "undo_apply"}
    BY <1>6 DEF Walks, Setting, Ends
  <2>3. tx # 0 => IsLastOf(log, last_lsn[c], tx)
    BY <2>2 DEF Acts
  <2>4. tx # 0 /\ pc'[c] \notin Ends => \A j \in Of(log, tx) : log[j].type \in Working
    BY <2>2 DEF Acts
  <2>5. pc[c] = "rollback" /\ Undoing(c).type \notin {"BEGIN", "UPDATE"} =>
          UnwindsAt(log, tx, Undoing(c).prev)
    <3> SUFFICES ASSUME pc[c] = "rollback", Undoing(c).type \notin {"BEGIN", "UPDATE"}
                 PROVE  UnwindsAt(log, tx, Undoing(c).prev)
      OBVIOUS
    <3>1. UnwindsAt(log, tx, cursor[c]) /\ log[cursor[c]].type \notin Working
      BY <1>3 DEF Acts, Working
    <3> QED BY <1>0, <1>3, <3>1, UnwindsIs
  <2>6. pc'[c] = "rollback" => UnwindsAt(log, tx, cursor'[c])
    BY <1>4, <1>6, <2>5 DEF Walks
  <2>7. pc'[c] # "set_abort"
    BY <2>2 DEF Setting
  <2> HIDE DEF tx
  <2> QED BY <2>1, <2>2, <2>3, <2>4, <2>6, <2>7 DEF Acts
<1> QED BY <1>1, <1>2, <1>5, <1>6

\* A checkpoint that is exact is right.
LEMMA ExactlyIsRight ==
  ASSUME LockInv, NEW i \in DOMAIN log, log[i].type = "CHECK", ListsExactly(i),
         NEW n \in DOMAIN log[i].list
  PROVE  EntryRight(log, i, log[i].list[n])
<1> DEFINE entry == log[i].list[n]
           mine == RecordsBefore(entry.tx_id, i)
<1>1. /\ Unfinished(i) = ListedTxs(i)
      /\ entry.last_lsn = Max(mine) /\ \A j \in mine : log[j].type # "ABORT"
  BY DEF ListsExactly
<1>2. entry.tx_id \in Unfinished(i)
  BY <1>1 DEF ListedTxs
<1>3. entry.tx_id # 0 /\ mine # {} /\ \A j \in mine : log[j].type \notin {"COMMIT", "END"}
  BY <1>2 DEF Unfinished, Transactions, EndedBefore
<1>4. i \in Nat /\ i - 1 \in Nat /\ mine \in SUBSET (0 .. i - 1) /\ mine \in SUBSET Nat
  BY LogIsSeq DEF RecordsBefore, LockInv
<1>5. \A j : j \in mine <=> j \in 1 .. i - 1 /\ log[j].tx = entry.tx_id
  BY DEF RecordsBefore
<1> HIDE DEF entry, mine
<1>6. PICK m \in mine : IsLargest(mine, m)
  BY <1>3, <1>4, LargestExists
<1>7. entry.last_lsn = m /\ \A j \in mine : j <= m
  BY <1>1, <1>4, <1>6, LargestIs DEF IsLargest
<1>8. EntryRight(log, i, entry)
  BY <1>1, <1>3, <1>5, <1>6, <1>7 DEF EntryRight
<1> QED BY <1>8 DEF entry

LEMMA ExactlyIsExact ==
  ASSUME LockInv, LsnsUnique, \A i \in DOMAIN log : log[i].type = "CHECK" => ListsExactly(i)
  PROVE  Exact
<1>1. DOMAIN log = 1 .. Len(log)
  BY LogIsSeq DEF LockInv
<1> SUFFICES ASSUME NEW i \in 1 .. Len(log) PROVE LineRight(log, i)
  BY DEF Exact
<1> QED BY <1>1, ExactlyIsRight DEF LineRight, LsnsUnique

\* A log that is right now has been from the beginning.
LEMMA EntryKept ==
  ASSUME NEW l, NEW m, NEW k \in Nat, NEW i \in 1 .. k, \A j \in 1 .. k : m[j] = l[j], NEW entry
  PROVE  EntryRight(m, i, entry) <=> EntryRight(l, i, entry)
<1>1. \A j \in 1 .. i - 1 : m[j] = l[j]
  OBVIOUS
<1>2. entry.last_lsn \in 1 .. i - 1 => m[entry.last_lsn] = l[entry.last_lsn]
  BY <1>1
<1> QED BY <1>1, <1>2 DEF EntryRight

LEMMA ExactKept ==
  ASSUME LockInv, log' = log \/ \E r \in Record : log' = Append(log, r), Exact'
  PROVE  Exact /\ ~OneTwice'
<1>1. /\ Len(log) \in Nat /\ Len(log') \in Nat /\ Len(log) <= Len(log')
      /\ \A i \in 1 .. Len(log) : i \in 1 .. Len(log') /\ log'[i] = log[i]
  BY LogKeepsLines
<1>2. ASSUME NEW i \in 1 .. Len(log) PROVE LineRight(log, i)
  <2>1. LineRight(log', i) /\ log'[i] = log[i]
    BY <1>1 DEF Exact
  <2>2. \A entry : EntryRight(log', i, entry) => EntryRight(log, i, entry)
    BY <1>1, EntryKept
  <2> QED BY <2>1, <2>2 DEF LineRight
<1>3. ~OneTwice'
  <2> SUFFICES ASSUME Len(log') >= 2 PROVE log'[2].lsn # 1
    BY DEF OneTwice
  <2>1. 2 \in 1 .. Len(log')
    BY <1>1
  <2>2. LineRight(log', 2)
    BY <2>1 DEF Exact
  <2> QED BY <2>2 DEF LineRight
<1> QED BY <1>2, <1>3 DEF Exact

\* A checkpoint that is right lists records of the transactions it names.
LEMMA ForkRight ==
  ASSUME LockInv, Fork, Exact'
  PROVE  ListsOwn
<1>1. PICK tail \in Uninitialised : /\ OngoingList \o tail \in Seq(Ongoing)
                                    /\ log' = Append(log, CheckRecord(lsn + 1, OngoingList \o tail))
  BY ForkIs
<1>2. PICK list \in Seq(Ongoing) : list = OngoingList \o tail
  BY <1>1
<1>3. PICK r \in Record : /\ r = CheckRecord(lsn + 1, list) /\ r.type = "CHECK" /\ r.list = list
  BY CheckIs
<1>4. /\ Len(log) \in Nat /\ Len(log') = Len(log) + 1 /\ log'[Len(log) + 1] = r
      /\ \A i \in 1 .. Len(log) : log'[i] = log[i]
  BY <1>1, <1>2, <1>3, Appended, LogIsSeq DEF LockInv
<1>5. ASSUME NEW n \in DOMAIN list PROVE OwnRecord(log, list[n].last_lsn, list[n].tx_id)
  <2>1. LineRight(log', Len(log) + 1)
    BY <1>4 DEF Exact
  <2>2. EntryRight(log', Len(log) + 1, list[n])
    BY <1>3, <1>4, <2>1 DEF LineRight
  <2>3. /\ list[n].tx_id # 0 /\ list[n].last_lsn \in 1 .. Len(log) + 1 - 1
        /\ log'[list[n].last_lsn].tx = list[n].tx_id
    BY <2>2 DEF EntryRight
  <2>4. list[n].last_lsn \in 1 .. Len(log)
    BY <1>4, <2>3
  <2> QED BY <1>4, <2>3, <2>4 DEF OwnRecord
<1> QED BY <1>1, <1>2, <1>5 DEF ListsOwn

\* What a checkpoint said of a transaction does not change.
LEMMA ListedKept ==
  ASSUME LockInv, log' = log \/ \E r \in Record : log' = Append(log, r),
         NEW check, NEW entry, ListedRight(log, check, entry)
  PROVE  ListedRight(log', check, entry)
<1>1. /\ Len(log) \in Nat /\ Len(log') \in Nat /\ Len(log) <= Len(log')
      /\ \A i \in 1 .. Len(log) : i \in 1 .. Len(log') /\ log'[i] = log[i]
  BY LogKeepsLines
<1>2. check \in 1 .. Len(log) /\ entry.last_lsn \in Of(log, entry.tx_id) /\ entry.last_lsn < check
  BY DEF ListedRight
<1>3. entry.last_lsn \in Of(log', entry.tx_id) /\ check \in 1 .. Len(log')
  BY <1>1, <1>2 DEF Of
<1>4. ASSUME NEW j \in Of(log', entry.tx_id), j <= check
      PROVE  j <= entry.last_lsn /\ log'[j].type \in Working
  <2>1. j \in 1 .. Len(log)
    BY <1>1, <1>2, <1>4 DEF Of
  <2>2. j \in Of(log, entry.tx_id) /\ log'[j] = log[j]
    BY <1>1, <1>4, <2>1 DEF Of
  <2> QED BY <1>4, <2>2 DEF ListedRight
<1> QED BY <1>2, <1>3, <1>4 DEF ListedRight

\* What a checkpoint lists, once the log behind it is read back.
LEMMA EntryIsListed ==
  ASSUME NEW i \in 1 .. Len(log), Len(log) \in Nat, \A j \in 1 .. Len(log) : log[j] \in Record,
         Shape(log), NEW entry, EntryRight(log, i, entry), log[i].type = "CHECK"
  PROVE  ListedRight(log, i, entry)
<1> DEFINE tx == entry.tx_id
<1>1. /\ tx # 0 /\ entry.last_lsn \in 1 .. i - 1 /\ log[entry.last_lsn].tx = tx
      /\ \A j \in 1 .. i - 1 : log[j].tx = tx =>
           j <= entry.last_lsn /\ log[j].type \notin {"COMMIT", "END", "ABORT"}
  BY DEF EntryRight
<1>2. log[i].tx = 0
  BY DEF Shape, Placed
<1>3. entry.last_lsn \in Of(log, tx) /\ entry.last_lsn < i
  BY <1>1 DEF Of
<1> HIDE DEF tx
<1>4. ASSUME NEW j \in Of(log, tx), j <= i PROVE j <= entry.last_lsn /\ log[j].type \in Working
  <2>1. j \in 1 .. Len(log) /\ log[j].tx = tx
    BY DEF Of
  <2>2. j \in 1 .. i - 1
    BY <1>1, <1>2, <1>4, <2>1
  <2>3. j <= entry.last_lsn /\ log[j].type \notin {"COMMIT", "END", "ABORT"}
    BY <1>1, <2>1, <2>2
  <2>4. log[j].type \in LogType /\ Placed(log, j)
    BY <2>1 DEF Record, Shape
  <2>5. log[j].type # "CHECK"
    BY <1>1, <2>1, <2>4 DEF Placed
  <2>6. log[j].type # "CLR"
    <3> SUFFICES ASSUME log[j].type = "CLR" PROVE FALSE
      OBVIOUS
    <3>1. PICK k \in Earlier(log, j) : log[k].type = "ABORT"
      BY <1>1, <2>1, <2>4 DEF Placed
    <3>2. k \in 1 .. i - 1 /\ log[k].tx = tx
      BY <2>1, <2>2, <3>1 DEF Earlier
    <3> QED BY <1>1, <3>1, <3>2
  <2> QED BY <2>3, <2>4, <2>5, <2>6 DEF LogType, Working
<1> QED BY <1>3, <1>4 DEF ListedRight, tx

LEMMA GoodRunning ==
  ASSUME LockInv, IdsInv, Sound, Good, Running, ~OneTwice'
  PROVE  Good'
<1>1. server = "up" /\ server' = "up" /\ \E c \in Client : Receiving(c) \/ Executing(c)
  BY DEF Running
<1>2. PICK c \in Client : Receiving(c) \/ Executing(c)
  BY <1>1
<1>3. /\ \A d \in Client : d # c => Frame(d)
      /\ Shape(log) /\ \A d \in Client : Acts(d) /\ Knows(d)
  BY <1>2, FrameStep DEF Good, Sound
<1>4. RecActs'
  BY <1>1 DEF RecActs
<1>5. ASSUME NEW d \in Client, d # c,
             \/ log' = log
             \/ \E r \in Record : log' = Append(log, r) /\ r.tx # txid[d]
      PROVE  Acts(d)'
  <2>1. /\ pc'[d] = pc[d] /\ txid'[d] = txid[d] /\ last_lsn'[d] = last_lsn[d]
        /\ new_lsn'[d] = new_lsn[d] /\ cursor'[d] = cursor[d]
    BY <1>3, <1>5 DEF Frame
  <2> QED BY <1>3, <1>5, <2>1, ActsKept
<1>6. CASE Logging(c)
  <2>1. PICK r \in Record : Adds(c, r)
    BY <1>6, AddsIs
  <2>2. log' = Append(log, r) /\ r.lsn = lsn + 1 /\ r.tx = txid[c] /\ txid[c] # 0
    BY <2>1 DEF Adds
  <2>3. lsn = Len(log)
    BY <1>1, <2>2, NextLsn
  <2>4. Fits(log, r) /\ Acts(c)'
    BY <1>3, <2>1, <2>3, ActsAdds
  <2>5. Shape(log')
    BY <1>3, <2>2, <2>4, GrownIs, ShapeGrown
  <2>6. \A d \in Client : d # c => r.tx # txid[d]
    BY <2>2 DEF IdsInv, TxIds
  <2>7. \A d \in Client : Acts(d)'
    BY <1>5, <2>2, <2>4, <2>6
  <2> QED BY <1>4, <2>5, <2>7 DEF Good
<1>7. CASE ~Logging(c)
  <2>1. log' = log /\ (Starts(c) \/ Leaves(c) \/ Learns(c) \/ Walks(c))
    BY <1>2, <1>7, WalksIs
  <2>2. Acts(c)'
    BY <1>3, <2>1, ActsMoves
  <2>3. \A d \in Client : Acts(d)'
    BY <1>5, <2>1, <2>2
  <2> QED BY <1>3, <1>4, <2>1, <2>3 DEF Good
<1> QED BY <1>6, <1>7

\* What the clients do stays while they do nothing.
LEMMA ActsOthers ==
  ASSUME LockInv, Sound, Good, UNCHANGED <<pc, txid, last_lsn, new_lsn, cursor>>,
         \/ log' = log
         \/ \E r \in Record : log' = Append(log, r) /\ \A d \in Client : txid[d] = 0 \/ r.tx # txid[d]
  PROVE  \A d \in Client : Acts(d)'
BY ActsKept DEF Sound, Good

LEMMA GoodFork ==
  ASSUME LockInv, Sound, Good, Fork
  PROVE  Good'
<1>1. PICK tail \in Uninitialised : /\ OngoingList \o tail \in Seq(Ongoing)
                                    /\ log' = Append(log, CheckRecord(lsn + 1, OngoingList \o tail))
  BY ForkIs
<1>2. server' = "up" /\ UNCHANGED <<pc, txid, last_lsn, new_lsn, cursor>>
  BY ForkIs
<1>3. PICK r \in Record : log' = Append(log, r) /\ r.tx = 0 /\ r.type = "CHECK"
  BY <1>1, CheckIs
<1>4. Shape(log')
  BY <1>3, GrownIs, ShapeGrown DEF Good
<1>5. \A d \in Client : Acts(d)'
  <2>1. \A d \in Client : txid[d] = 0 \/ r.tx # txid[d]
    BY <1>3
  <2> QED BY <1>2, <1>3, <2>1, ActsOthers
<1>6. RecActs'
  BY <1>2 DEF RecActs
<1> QED BY <1>4, <1>5, <1>6 DEF Good

LEMMA GoodIdle ==
  ASSUME LockInv, Sound, Good, UNCHANGED <<log, pc, txid, last_lsn, new_lsn, cursor>>,
         server' \in {"up", "dead"} \/ UNCHANGED <<server, rec>>
  PROVE  Good'
<1>1. \A d \in Client : Acts(d)'
  BY ActsOthers
<1>2. RecActs'
  BY DEF Good, RecActs
<1> QED BY <1>1, <1>2 DEF Good

LEMMA GoodCrash ==
  ASSUME LockInv, DiskTypeOK, Good, Crash
  PROVE  Good'
<1>1. log' = log /\ server' = "down" /\ \A c \in Client : pc'[c] = "ready" /\ txid'[c] = 0
  BY CrashIs DEF Crash
<1>2. \A d \in Client : Acts(d)'
  BY <1>1, ActsIdle
<1>3. RecActs'
  BY <1>1 DEF RecActs
<1> QED BY <1>1, <1>2, <1>3 DEF Good

\* A restart begins with the list of a checkpoint that is right.
LEMMA GoodStart ==
  ASSUME LockInv, DiskTypeOK, CheckedInv, Exact, Sound, Good, RecoverStart
  PROVE  Good'
<1>1. /\ log' = log /\ UNCHANGED <<pc, txid, last_lsn, new_lsn, cursor>>
      /\ server' = "analyze" /\ rec'.check = last_checked /\ rec'.todo = Listed(last_checked)
  BY DEF RecoverStart, NoRec
<1>2. /\ \A n : HasLog(log, n) <=> n \in 1 .. Len(log)
      /\ \A n \in 1 .. Len(log) : GetLog(log, n) = log[n] /\ Chained(n) /\ log[n] \in Record
      /\ DOMAIN log = 1 .. Len(log) /\ Len(log) \in Nat
  BY SoundLines
<1>3. \A d \in Client : Acts(d)'
  BY <1>1, ActsOthers
<1>4. ASSUME NEW n \in DOMAIN Listed(last_checked)
      PROVE  ListedRight(log, last_checked, Listed(last_checked)[n])
  <2>1. last_checked \in 1 .. Len(log) /\ Listed(last_checked) = log[last_checked].list
    BY <1>2, <1>4 DEF Listed
  <2>2. PICK i \in DOMAIN log : log[i].lsn = last_checked /\ log[i].type = "CHECK"
    BY <2>1 DEF CheckedInv, IsCheck
  <2>3. i = last_checked
    BY <1>2, <2>2 DEF Chained
  <2>4. LineRight(log, last_checked)
    BY <2>1 DEF Exact
  <2>5. EntryRight(log, last_checked, Listed(last_checked)[n])
    BY <1>4, <2>1, <2>2, <2>3, <2>4 DEF LineRight
  <2> QED BY <1>2, <2>1, <2>2, <2>3, <2>5, EntryIsListed DEF Good
<1>5. RecActs'
  BY <1>1, <1>4 DEF RecActs
<1> QED BY <1>1, <1>3, <1>5 DEF Good

\* What the analysis finds of a listed transaction is what the log has of it
\* behind the checkpoint.
LEMMA FoundAre ==
  ASSUME LockInv, DiskTypeOK, Sound, NEW entry \in Ongoing, ListedRight(log, rec.check, entry),
         NEW types
  PROVE  \A n : n \in Found(entry, types) <=>
           n \in Of(log, entry.tx_id) /\ n > rec.check /\ log[n].type \in types
<1>1. /\ \A n : HasLog(log, n) <=> n \in 1 .. Len(log)
      /\ \A n \in 1 .. Len(log) : GetLog(log, n) = log[n]
      /\ Len(log) \in Nat
  BY SoundLines
<1>2. rec.check \in 1 .. Len(log) /\ Larger(rec.check, entry.last_lsn) = rec.check
  BY DEF ListedRight, Larger, Ongoing
<1>3. ASSUME NEW n PROVE n \in ReadFrom(rec.check + 1) <=> n \in rec.check + 1 .. Len(log)
  BY <1>1, <1>2 DEF ReadFrom
<1>4. ASSUME NEW n
      PROVE  n \in Found(entry, types) <=>
               /\ n \in rec.check + 1 .. Len(log)
               /\ log[n].tx = entry.tx_id /\ log[n].type \in types
  <2>1. n \in Found(entry, types) <=>
          /\ n \in ReadFrom(rec.check + 1)
          /\ GetLog(log, n).tx = entry.tx_id /\ GetLog(log, n).type \in types
    BY <1>2 DEF Found
  <2>2. n \in rec.check + 1 .. Len(log) => GetLog(log, n) = log[n]
    BY <1>1, <1>2
  <2> QED BY <1>3, <2>1, <2>2
<1> QED BY <1>1, <1>2, <1>4 DEF Of

\* Its last record is the one the rollback goes on from: it has not ended, and
\* when it has begun to abort, that is an ABORT or a CLR.
LEMMA LastIs ==
  ASSUME LockInv, DiskTypeOK, Sound, Shape(log), NEW entry \in Ongoing, entry.tx_id # 0,
         ListedRight(log, rec.check, entry)
  PROVE  /\ IsLastOf(log, LastFound(entry), entry.tx_id)
         /\ ~Finished(entry) /\ ~AbortStarted(entry) =>
              \A j \in Of(log, entry.tx_id) : log[j].type \in Working
         /\ ~Finished(entry) /\ AbortStarted(entry) =>
              log[LastFound(entry)].type \in {"ABORT", "CLR"}
<1> DEFINE tx == entry.tx_id
           last == LastFound(entry)
           all == Found(entry, LogType)
<1>1. /\ rec.check \in Nat /\ entry.last_lsn \in Of(log, tx) /\ entry.last_lsn < rec.check
      /\ entry.last_lsn \in Nat
      /\ \A j \in Of(log, tx) : j <= rec.check => j <= entry.last_lsn /\ log[j].type \in Working
  BY DEF ListedRight, Ongoing
<1>2. ASSUME NEW j \in Of(log, tx)
      PROVE  /\ j \in 1 .. Len(log) /\ j \in Nat /\ log[j].tx = tx /\ log[j].type \in LogType
             /\ log[j].type # "CHECK" /\ Placed(log, j)
  <2>1. j \in 1 .. Len(log) /\ log[j].tx = tx
    BY DEF Of
  <2>2. log[j] \in Record /\ Placed(log, j) /\ j \in Nat
    BY <2>1, SoundLines DEF Shape
  <2>3. log[j].type \in LogType
    BY <2>2 DEF Record
  <2> QED BY <2>1, <2>2, <2>3 DEF Placed
<1>3. /\ all # {} => last \in all /\ \A n \in all : n <= last
      /\ all = {} => last = entry.last_lsn
  BY FoundIs DEF LastFound
<1>4. ASSUME NEW types, NEW n
      PROVE  n \in Found(entry, types) <=> n \in Of(log, tx) /\ n > rec.check /\ log[n].type \in types
  BY FoundAre
<1>5. \A n : n \in all <=> n \in Of(log, tx) /\ n > rec.check
  BY <1>2, <1>4
<1>6. /\ AbortStarted(entry) <=> Found(entry, {"ABORT"}) # {}
      /\ ~Finished(entry) => /\ Found(entry, {"COMMIT"}) = {}
                             /\ \A a \in Found(entry, {"ABORT"}), e \in Found(entry, {"END"}) : ~(a < e)
  BY DEF AbortStarted, Finished
<1>7. \A j \in Of(log, tx) : j > rec.check \/ j <= rec.check
  BY <1>1, <1>2
<1> HIDE DEF tx, last, all
<1>8. IsLastOf(log, last, tx)
  <2>1. CASE all = {}
    BY <1>1, <1>3, <1>5, <1>7, <2>1 DEF IsLastOf
  <2>2. CASE all # {}
    <3>1. last \in Of(log, tx) /\ last > rec.check /\ \A n \in all : n <= last
      BY <1>3, <1>5, <2>2
    <3>2. \A j \in Of(log, tx) : j <= last
      BY <1>1, <1>2, <1>5, <1>7, <3>1
    <3> QED BY <3>1, <3>2 DEF IsLastOf
  <2> QED BY <2>1, <2>2
<1>9. ASSUME ~Finished(entry), ~AbortStarted(entry), NEW j \in Of(log, tx)
      PROVE  log[j].type \in Working
  <2>1. ASSUME NEW k \in Of(log, tx) PROVE log[k].type \notin {"COMMIT", "ABORT"}
    <3>1. CASE k > rec.check
      BY <1>4, <1>6, <1>9, <3>1
    <3>2. CASE k <= rec.check
      BY <1>1, <3>2 DEF Working
    <3> QED BY <1>7, <3>1, <3>2
  <2>2. log[j].type \notin {"CLR", "END"}
    <3> SUFFICES ASSUME log[j].type \in {"CLR", "END"} PROVE FALSE
      OBVIOUS
    <3>1. PICK k \in Earlier(log, j) : log[k].type = "ABORT"
      BY <1>2 DEF Placed, tx
    <3>2. k \in Of(log, tx)
      BY <1>2, <3>1 DEF Earlier, Of
    <3> QED BY <2>1, <3>1, <3>2
  <2> QED BY <1>2, <2>1, <2>2 DEF LogType, Working
<1>10. ASSUME ~Finished(entry), AbortStarted(entry) PROVE log[last].type \in {"ABORT", "CLR"}
  <2>1. PICK a \in Found(entry, {"ABORT"}) : TRUE
    BY <1>6, <1>10
  <2>2. a \in Of(log, tx) /\ a > rec.check /\ log[a].type = "ABORT" /\ a \in Nat
    BY <1>2, <1>4, <2>1
  <2>3. last \in Of(log, tx) /\ a <= last /\ last \in Nat
    BY <1>2, <1>8, <2>2 DEF IsLastOf
  <2>4. CASE a = last
    BY <2>2, <2>4
  <2>5. CASE a # last
    <3>1. a < last /\ last > rec.check
      BY <1>1, <2>2, <2>3, <2>5
    <3>2. a \in Earlier(log, last)
      BY <1>2, <2>2, <2>3, <3>1 DEF Earlier
    <3>3. log[last].type \notin {"COMMIT", "END"}
      BY <1>4, <1>6, <1>10, <2>1, <2>3, <3>1
    <3>4. Placed(log, last) /\ log[last].tx # 0 /\ log[a].type \notin Working
      BY <1>2, <2>2, <2>3 DEF tx, Working
    <3>5. log[last].type \notin {"BEGIN", "UPDATE", "ABORT"}
      BY <3>2, <3>4 DEF Placed
    <3> QED BY <1>2, <2>3, <3>3, <3>5 DEF LogType
  <2> QED BY <2>4, <2>5
<1> QED BY <1>8, <1>9, <1>10 DEF tx, last

\* The rest of a list that is right.
LEMMA TailRight ==
  ASSUME NEW todo \in Seq(Ongoing), todo # <<>>, NEW check,
         \A n \in DOMAIN todo : ListedRight(log, check, todo[n])
  PROVE  /\ ListedRight(log, check, Head(todo))
         /\ \A n \in DOMAIN Tail(todo) : ListedRight(log, check, Tail(todo)[n])
<1>1. /\ Len(todo) \in Nat /\ DOMAIN todo = 1 .. Len(todo)
      /\ Tail(todo) \in Seq(Ongoing)
      /\ Len(Tail(todo)) = Len(todo) - 1 /\ Len(todo) # 0
      /\ \A n \in 1 .. Len(Tail(todo)) : Tail(todo)[n] = todo[n + 1]
  BY LenProperties, HeadTailProperties, EmptySeq
<1>2. DOMAIN Tail(todo) = 1 .. Len(Tail(todo))
  BY <1>1, LenProperties
<1>3. Head(todo) = todo[1] /\ 1 \in DOMAIN todo
  BY <1>1
<1>4. ASSUME NEW n \in DOMAIN Tail(todo) PROVE n + 1 \in DOMAIN todo
  BY <1>1, <1>2, <1>4
<1> QED BY <1>1, <1>2, <1>3, <1>4

\* The analysis rolls back from where the transaction's own rollback stopped.
LEMMA GoodAnalyze ==
  ASSUME LockInv, DiskTypeOK, Alone, Sound, Good, Analyze, ~OneTwice'
  PROVE  Good'
<1> DEFINE entry == Head(rec.todo)
           last == LastFound(entry)
           tx == entry.tx_id
           r == TxRecord(lsn + 1, last, tx, "ABORT")
<1>1. /\ server = "analyze" /\ rec.todo # <<>> /\ rec.todo \in Seq(Ongoing)
      /\ UNCHANGED <<transaction_id, pc, txid, last_lsn, new_lsn, cursor>>
  BY DEF Analyze, DiskTypeOK
<1>2. /\ \A n \in DOMAIN rec.todo : OwnRecord(log, rec.todo[n].last_lsn, rec.todo[n].tx_id)
      /\ \A n \in DOMAIN rec.todo : ListedRight(log, rec.check, rec.todo[n])
      /\ Shape(log)
  BY <1>1 DEF Sound, RecKnows, Good, RecActs
<1>3. /\ entry \in Ongoing /\ tx # 0
      /\ ListedRight(log, rec.check, entry)
      /\ \A n \in DOMAIN Tail(rec.todo) : ListedRight(log, rec.check, Tail(rec.todo)[n])
  <2>1. entry \in Ongoing /\ OwnRecord(log, entry.last_lsn, tx)
    BY <1>1, <1>2, TailSound
  <2>2. /\ ListedRight(log, rec.check, entry)
        /\ \A n \in DOMAIN Tail(rec.todo) : ListedRight(log, rec.check, Tail(rec.todo)[n])
    BY <1>1, <1>2, TailRight
  <2> QED BY <2>1, <2>2 DEF OwnRecord
<1>4. /\ IsLastOf(log, last, tx)
      /\ ~Finished(entry) /\ ~AbortStarted(entry) => \A j \in Of(log, tx) : log[j].type \in Working
      /\ ~Finished(entry) /\ AbortStarted(entry) => log[last].type \in {"ABORT", "CLR"}
  BY <1>2, <1>3, LastIs
<1>5. \A d \in Client : txid[d] = 0
  BY <1>1 DEF Alone
<1>6. \/ /\ rec'.todo = Tail(rec.todo) /\ rec'.check = rec.check
         /\ server' = "analyze" /\ UNCHANGED logVars
      \/ /\ ~Finished(entry) /\ ~AbortStarted(entry)
         /\ log' = Append(log, r) /\ lsn' = lsn + 1 /\ server' = "undo"
         /\ rec' = [rec EXCEPT !.todo = Tail(rec.todo), !.tx = tx, !.last = last,
                               !.cursor = lsn + 1]
      \/ /\ ~Finished(entry) /\ AbortStarted(entry) /\ UNCHANGED logVars /\ server' = "undo"
         /\ rec' = [rec EXCEPT !.todo = Tail(rec.todo), !.tx = tx, !.last = last,
                               !.cursor = IF GetLog(log, last).type = "ABORT"
                                          THEN GetLog(log, last).prev
                                          ELSE GetLog(log, last).undo_next]
  BY DEF Analyze, RecoveryLog, NextListed, NoRec
<1>7. rec \in RecType /\ last \in 1 .. Len(log) /\ GetLog(log, last) = log[last]
  <2>1. last \in 1 .. Len(log)
    BY <1>4 DEF IsLastOf, Of
  <2> QED BY <2>1, SoundLines DEF DiskTypeOK, RecType
<1>8. r \in Record /\ r.lsn = lsn + 1 /\ r.tx = tx /\ r.prev = last /\ r.type = "ABORT"
  <2>1. r \in Record
    BY <1>1, AnalyzeTyped
  <2> HIDE DEF entry, last
  <2> QED BY <2>1 DEF TxRecord
<1> HIDE DEF entry, last, tx, r
<1>9. CASE /\ rec'.todo = Tail(rec.todo) /\ rec'.check = rec.check
           /\ server' = "analyze" /\ UNCHANGED logVars
  <2>1. \A d \in Client : Acts(d)'
    BY <1>1, <1>9, ActsOthers
  <2>2. RecActs'
    BY <1>3, <1>9 DEF RecActs
  <2> QED BY <1>2, <1>9, <2>1, <2>2 DEF Good
<1>10. CASE /\ ~Finished(entry) /\ ~AbortStarted(entry)
            /\ log' = Append(log, r) /\ lsn' = lsn + 1 /\ server' = "undo"
            /\ rec' = [rec EXCEPT !.todo = Tail(rec.todo), !.tx = tx, !.last = last,
                                  !.cursor = lsn + 1]
  <2>1. \A d \in Client : Acts(d)'
    BY <1>1, <1>5, <1>8, <1>10, ActsOthers
  <2>2. Grows(log, log', r) /\ Len(log) \in Nat
    BY <1>8, <1>10, GrownIs
  <2>3. \A j \in Of(log, tx) : log[j].type \in Working
    BY <1>4, <1>10
  <2>4. Fits(log, r)
    <3>1. \A j \in Of(log, tx) : log[j].type \notin {"COMMIT", "END"}
      BY <2>3 DEF Working
    <3> QED BY <1>3, <1>4, <1>8, <2>3, <3>1 DEF Fits
  <2>5. Shape(log')
    BY <1>2, <2>2, <2>4, ShapeGrown
  <2>6. lsn = Len(log)
    BY <1>1, <1>8, <1>10, NextLsn
  <2>7. UnwindsAt(log', tx, lsn + 1)
    <3>1. UnwindsAt(log', r.tx, Len(log'))
      BY <1>8, <2>2, LastGrown
    <3>2. Len(log') = lsn + 1
      BY <2>2, <2>6 DEF Grows
    <3> QED BY <1>8, <3>1, <3>2
  <2>8. /\ rec'.todo = Tail(rec.todo) /\ rec'.tx = tx /\ rec'.cursor = lsn + 1
        /\ rec'.check = rec.check
    BY <1>7, <1>10 DEF RecType
  <2>9. \A n \in DOMAIN Tail(rec.todo) : ListedRight(log', rec.check, Tail(rec.todo)[n])
    BY <1>3, <1>8, <1>10, ListedKept
  <2>10. RecActs'
    BY <2>7, <2>8, <2>9 DEF RecActs
  <2> QED BY <2>1, <2>5, <2>10 DEF Good
<1>11. CASE /\ ~Finished(entry) /\ AbortStarted(entry) /\ UNCHANGED logVars /\ server' = "undo"
            /\ rec' = [rec EXCEPT !.todo = Tail(rec.todo), !.tx = tx, !.last = last,
                                  !.cursor = IF GetLog(log, last).type = "ABORT"
                                             THEN GetLog(log, last).prev
                                             ELSE GetLog(log, last).undo_next]
  <2>1. \A d \in Client : Acts(d)'
    BY <1>1, <1>11, ActsOthers
  <2>2. UnwindsAt(log, tx, NextUndo(log[last]))
    <3>1. log[last].type \in {"ABORT", "CLR"} /\ last \in Of(log, tx)
      BY <1>4, <1>11 DEF IsLastOf
    <3> QED BY <1>4, <3>1 DEF UnwindsAt
  <2>3. /\ rec'.todo = Tail(rec.todo) /\ rec'.tx = tx /\ rec'.cursor = NextUndo(log[last])
        /\ rec'.check = rec.check
    BY <1>7, <1>11 DEF RecType, NextUndo
  <2>4. RecActs'
    BY <1>3, <1>11, <2>2, <2>3 DEF RecActs
  <2> QED BY <1>2, <1>11, <2>1, <2>4 DEF Good
<1> QED BY <1>6, <1>9, <1>10, <1>11

\* Recovery's rollback appends what fits, down to the END.
LEMMA GoodUndo ==
  ASSUME LockInv, DiskTypeOK, Alone, Sound, Good, Undo, ~OneTwice'
  PROVE  Good'
<1> DEFINE tx == rec.tx
           at == log[rec.cursor]
           end == TxRecord(lsn + 1, rec.cursor, tx, "END")
           clr == DataRecord(lsn + 1, rec.last, tx, "CLR", at.prev, at.key, at.new, at.old)
<1>1. server = "undo" /\ UNCHANGED <<transaction_id, pc, txid, last_lsn, new_lsn, cursor>>
  BY DEF Undo
<1>2. /\ OwnRecord(log, rec.cursor, tx) /\ UnwindsAt(log, tx, rec.cursor) /\ Shape(log)
      /\ \A n \in DOMAIN rec.todo : ListedRight(log, rec.check, rec.todo[n])
  BY <1>1 DEF Sound, RecKnows, Good, RecActs
<1>3. /\ HasLog(log, rec.cursor) /\ GetLog(log, rec.cursor) = at /\ tx # 0
      /\ rec.cursor \in 1 .. Len(log) /\ at.tx = tx /\ Len(log) \in Nat
  BY <1>2, SoundLines DEF OwnRecord
<1>4. /\ rec.cursor \in Of(log, tx)
      /\ \A j \in Of(log, tx) : log[j].type \notin {"COMMIT", "END"}
      /\ at.type \in Working \/ (at.type = "ABORT" /\ UnwindsAt(log, tx, at.prev))
  BY <1>2, <1>3, UnwindsIs
<1>5. end \in Record /\ clr \in Record
  BY <1>3, UndoTyped
<1>6. /\ end.lsn = lsn + 1 /\ end.tx = tx /\ end.type = "END"
      /\ clr.lsn = lsn + 1 /\ clr.tx = tx /\ clr.type = "CLR"
      /\ clr.undo_next = at.prev /\ clr.key = at.key /\ clr.new = at.old
  BY DEF TxRecord, DataRecord
<1>7. \/ /\ at.type = "BEGIN" /\ log' = Append(log, end) /\ lsn' = lsn + 1 /\ server' = "analyze"
         /\ rec'.todo = rec.todo /\ rec'.check = rec.check
      \/ /\ at.type = "UPDATE" /\ log' = Append(log, clr) /\ lsn' = lsn + 1 /\ server' = "undo"
         /\ rec' = [rec EXCEPT !.last = lsn + 1, !.cursor = at.prev]
      \/ /\ at.type \notin {"BEGIN", "UPDATE"} /\ UNCHANGED logVars /\ server' = "undo"
         /\ rec' = [rec EXCEPT !.cursor = at.prev]
  <2>1. GetLog(log, rec.cursor) = at /\ HasLog(log, rec.cursor)
    BY <1>3
  <2> HIDE DEF at
  <2> QED BY <1>1, <2>1 DEF Undo, RecoveryLog, NextListed, NoRec
<1> HIDE DEF end, clr
<1>8. rec \in RecType /\ \A d \in Client : txid[d] = 0
  BY <1>1 DEF DiskTypeOK, RecType, Alone
<1>9. ASSUME NEW r \in Record, log' = Append(log, r), r.lsn = lsn + 1, Fits(log, r)
      PROVE  /\ Shape(log') /\ \A d \in Client : Acts(d)'
             /\ \A n \in DOMAIN rec.todo : ListedRight(log', rec.check, rec.todo[n])
             /\ r.type = "CLR" => UnwindsAt(log', r.tx, r.undo_next)
  <2>1. Grows(log, log', r)
    BY <1>9, GrownIs
  <2>2. Shape(log')
    BY <1>2, <1>9, <2>1, ShapeGrown
  <2>3. \A d \in Client : Acts(d)'
    BY <1>1, <1>8, <1>9, ActsOthers
  <2>4. \A n \in DOMAIN rec.todo : ListedRight(log', rec.check, rec.todo[n])
    BY <1>2, <1>9, ListedKept
  <2>5. r.type = "CLR" => UnwindsAt(log', r.tx, r.undo_next)
    <3>1. r.type = "CLR" => UnwindsAt(log', r.tx, NextUndo(r))
      BY <2>1, LastGrown
    <3> QED BY <3>1 DEF NextUndo
  <2> QED BY <2>2, <2>3, <2>4, <2>5
<1>10. CASE /\ at.type = "BEGIN" /\ log' = Append(log, end) /\ lsn' = lsn + 1
            /\ server' = "analyze" /\ rec'.todo = rec.todo /\ rec'.check = rec.check
  <2>1. Fits(log, end)
    <3>1. \E n \in Of(log, tx) : log[n].type = "BEGIN" /\ UnwindsAt(log, tx, n)
      BY <1>2, <1>4, <1>10
    <3> HIDE DEF tx, at
    <3> QED BY <1>3, <1>4, <1>6, <3>1 DEF Fits
  <2>2. /\ Shape(log') /\ \A d \in Client : Acts(d)'
        /\ \A n \in DOMAIN rec.todo : ListedRight(log', rec.check, rec.todo[n])
    BY <1>5, <1>6, <1>9, <1>10, <2>1
  <2>3. RecActs'
    BY <1>10, <2>2 DEF RecActs
  <2> QED BY <2>2, <2>3 DEF Good
<1>11. CASE /\ at.type = "UPDATE" /\ log' = Append(log, clr) /\ lsn' = lsn + 1
            /\ server' = "undo" /\ rec' = [rec EXCEPT !.last = lsn + 1, !.cursor = at.prev]
  <2>1. Fits(log, clr)
    <3>1. rec.cursor \in UpdatesIn(log, tx) /\ Compensates(clr, log[rec.cursor])
      <4>1. rec.cursor \in UpdatesIn(log, tx)
        BY <1>4, <1>11 DEF UpdatesIn
      <4> QED BY <1>3, <1>6, <4>1 DEF Compensates
    <3>2. \E u \in UpdatesIn(log, tx) : UnwindsAt(log, tx, u) /\ Compensates(clr, log[u])
      BY <1>2, <3>1
    <3> HIDE DEF tx, at
    <3> QED BY <1>3, <1>4, <1>6, <3>2 DEF Fits
  <2>2. /\ Shape(log') /\ \A d \in Client : Acts(d)'
        /\ \A n \in DOMAIN rec.todo : ListedRight(log', rec.check, rec.todo[n])
        /\ UnwindsAt(log', tx, at.prev)
    BY <1>5, <1>6, <1>9, <1>11, <2>1
  <2>3. /\ rec'.todo = rec.todo /\ rec'.tx = tx /\ rec'.cursor = at.prev /\ rec'.check = rec.check
    BY <1>8, <1>11 DEF RecType
  <2>4. RecActs'
    BY <1>11, <2>2, <2>3 DEF RecActs
  <2> QED BY <2>2, <2>4 DEF Good
<1>12. CASE /\ at.type \notin {"BEGIN", "UPDATE"} /\ UNCHANGED logVars /\ server' = "undo"
            /\ rec' = [rec EXCEPT !.cursor = at.prev]
  <2>1. \A d \in Client : Acts(d)'
    BY <1>1, <1>12, ActsOthers
  <2>2. UnwindsAt(log, tx, at.prev)
    BY <1>4, <1>12 DEF Working
  <2>3. /\ rec'.todo = rec.todo /\ rec'.tx = tx /\ rec'.cursor = at.prev /\ rec'.check = rec.check
    BY <1>8, <1>12 DEF RecType
  <2>4. RecActs'
    BY <1>2, <1>12, <2>2, <2>3 DEF RecActs
  <2> QED BY <1>2, <1>12, <2>1, <2>4 DEF Good
<1> QED BY <1>7, <1>10, <1>11, <1>12

LEMMA RollInit == RecoveryInit => RollInv
<1> SUFFICES ASSUME RecoveryInit PROVE Good
  BY SoundInit DEF RollInv
<1>1. /\ Len(log) = 0 /\ server = "up" /\ \A c \in Client : pc[c] = "ready" /\ txid[c] = 0
  BY DEF RecoveryInit, Init, NoThread
<1>2. Shape(log)
  BY <1>1 DEF Shape
<1>3. \A c \in Client : Acts(c)
  BY <1>1 DEF Acts, Setting
<1> QED BY <1>1, <1>2, <1>3 DEF Good, RecActs

LEMMA RollNext ==
  RecoveryInv /\ RollInv /\ [RecoveryNext]_allVars => RollInv'
<1> SUFFICES ASSUME RecoveryInv, RollInv, [RecoveryNext]_allVars, Exact'
             PROVE  Sound' /\ Good'
  BY DEF RollInv
<1>1. LockInv /\ DiskTypeOK /\ Types /\ Alone /\ IdsInv /\ CheckedInv
  BY DEF RecoveryInv, Types
<1>2. Exact /\ ~OneTwice'
  BY <1>1, LogOnlyGrows, ExactKept
<1>3. Sound /\ Good
  BY <1>2 DEF RollInv
<1>4. Fork => ListsOwn
  BY <1>1, ForkRight
<1>5. Sound'
  BY <1>1, <1>2, <1>3, <1>4, SoundStep
<1>6. Good'
  <2>1. CASE Running
    BY <1>1, <1>2, <1>3, <2>1, GoodRunning
  <2>2. CASE Fork
    BY <1>1, <1>3, <2>2, GoodFork
  <2>3. CASE \/ RollbackFails \/ Checkpoint \/ WriteSnapshot \/ CreateLastChecked
             \/ WriteLastChecked \/ Redo \/ UNCHANGED allVars
    <3>1. /\ UNCHANGED <<log, pc, txid, last_lsn, new_lsn, cursor>>
          /\ server' \in {"up", "dead"} \/ UNCHANGED <<server, rec>>
      BY <2>3 DEF RollbackFails, Checkpoint, CkptBegin, WriteSnapshot, CreateLastChecked,
                  WriteLastChecked, Redo
    <3> QED BY <1>1, <1>3, <3>1, GoodIdle
  <2>4. CASE Crash
    BY <1>1, <1>3, <2>4, GoodCrash
  <2>5. CASE RecoverStart
    BY <1>1, <1>2, <1>3, <2>5, GoodStart
  <2>6. CASE Analyze
    BY <1>1, <1>2, <1>3, <2>6, GoodAnalyze
  <2>7. CASE Undo
    BY <1>1, <1>2, <1>3, <2>7, GoodUndo
  <2> QED BY <2>1, <2>2, <2>3, <2>4, <2>5, <2>6, <2>7 DEF RecoveryNext
<1> QED BY <1>5, <1>6

\* An END says that each update of its transaction is undone once.
LEMMA ShapeRollsBack ==
  ASSUME Shape(log), Len(log) \in Nat, DOMAIN log = 1 .. Len(log)
  PROVE  RolledBack
<1> SUFFICES ASSUME NEW i \in DOMAIN log, log[i].type = "END", NEW k \in Key,
                    NEW u \in UpdatesOf(log, {log[i].tx}, k)
             PROVE  Cardinality({r \in 1 .. i - 1 :
                      /\ log[r].type = "CLR" /\ log[r].tx = log[i].tx /\ log[r].key = k
                      /\ log[r].new = log[u].old /\ log[r].undo_next = log[u].prev}) = 1
  BY DEF RolledBack
<1> DEFINE clrs == {r \in 1 .. i - 1 :
                      /\ log[r].type = "CLR" /\ log[r].tx = log[i].tx /\ log[r].key = k
                      /\ log[r].new = log[u].old /\ log[r].undo_next = log[u].prev}
<1>1. u \in UpdatesIn(log, log[i].tx) /\ log[u].tx = log[i].tx /\ log[u].key = k
  BY DEF UpdatesOf, UpdatesIn, Of
<1>2. Single(ClrsOf(log, u))
  BY <1>1 DEF Shape, Progress
<1>3. \A j \in 1 .. Len(log) : log[j].tx = log[i].tx /\ log[j].type = "CLR" => j \in 1 .. i - 1
  <2> SUFFICES ASSUME NEW j \in 1 .. Len(log), log[j].tx = log[i].tx, log[j].type = "CLR",
                      j \notin 1 .. i - 1
               PROVE  FALSE
    OBVIOUS
  <2>1. i \in Earlier(log, j)
    <3>1. j # i
      OBVIOUS
    <3> QED BY <3>1 DEF Earlier
  <2> QED BY <2>1 DEF Shape, Placed
<1>4. clrs = ClrsOf(log, u)
  <2>1. ASSUME NEW j \in ClrsOf(log, u) PROVE j \in clrs
    <3>1. /\ j \in 1 .. Len(log) /\ log[j].type = "CLR" /\ log[j].tx = log[i].tx /\ log[j].key = k
          /\ log[j].new = log[u].old /\ log[j].undo_next = log[u].prev
      BY <1>1 DEF ClrsOf, Compensates, Of
    <3> QED BY <1>3, <3>1
  <2>2. ASSUME NEW j \in clrs PROVE j \in ClrsOf(log, u)
    BY <1>1 DEF ClrsOf, Compensates, Of
  <2> QED BY <2>1, <2>2
<1> HIDE DEF clrs
<1>5. \E x : clrs = {x}
  BY <1>2, <1>4 DEF Single
<1>6. Cardinality(clrs) = 1
  BY <1>5, FS_Singleton
<1> QED BY <1>6 DEF clrs

(***************************************************************************)
(* What a restart makes of the hash table, while checkpoints are exact and *)
(* snapshots hold what the log before them makes of the table.             *)
(***************************************************************************)

\* The log has the end of transaction tx; recovery has yet to look at it or to
\* finish its rollback.
HasEnded(tx) == \E j \in 1 .. Len(log) : log[j].tx = tx /\ log[j].type \in {"COMMIT", "END"}

Awaits(tx) ==
  \/ \E n \in DOMAIN rec.todo : rec.todo[n].tx_id = tx
  \/ server = "undo" /\ rec.tx = tx

\* What the checkpoint lists has ended or is still to come.
ListDone ==
  server \in {"analyze", "undo"} /\ rec.check > 0 =>
    /\ rec.check \in 1 .. Len(log)
    /\ \A n \in DOMAIN log[rec.check].list :
         Awaits(log[rec.check].list[n].tx_id) \/ HasEnded(log[rec.check].list[n].tx_id)

\* A snapshot process writes its file once, whoever it belongs to.
SnapSame ==
  /\ \A n \in DOMAIN snapshots : n \in 1 .. Len(log)
  /\ \A p \in children : p.lsn \in DOMAIN snapshots => snapshots[p.lsn] = p.ht
  /\ \A p, q \in children : p.lsn = q.lsn => p.ht = q.ht

\* A command that sets a key has a value.
SetsValue == \A c \in Client : cmd[c].op = "set" => cmd[c].val # None

\* The snapshots hold what the log before them makes of the table.
SnapRight == \A n \in DOMAIN snapshots : \A k \in Key : ToLog(snapshots[n][k]) = Replayed(k, n)
Restorable == last_checked # Missing => SnapRight

\* The old value of an UPDATE is what the log before it leaves of its key, and
\* an UPDATE changes something.
BeforeRight ==
  \A i \in 1 .. Len(log) : log[i].type = "UPDATE" =>
    /\ log[i].key \in Key /\ log[i].old = Replayed(log[i].key, i)
    /\ log[i].old # Empty \/ log[i].new # Empty

\* The running server's table is the log replayed, but for changes that are
\* logged and not yet made, under their clients' locks.
Late(c, k) ==
  \/ pc[c] \in {"set_update", "apply"} /\ cmd[c].key = k
  \/ pc[c] \in {"set_clr", "undo_apply"} /\ log[cursor[c]].key = k

TableRight == \A k \in Key : ToLog(ht[k]) = Latest(k) \/ \E c \in Client : Late(c, k)

\* A client has the lock of what it is changing, and of all its transaction has
\* updated; what it has read and logged is what the log leaves of its key.
Owns(c, k) == owner[StripeOf[k]] = c

OwnsUpdates(c) ==
  txid[c] # 0 /\ pc[c] # "unlock" => \A u \in UpdatesIn(log, txid[c]) : Owns(c, log[u].key)

Holds(c) ==
  /\ pc[c] \in {"log", "set_update", "apply"} => Owns(c, cmd[c].key)
  /\ pc[c] = "log" => old[c] = ht[cmd[c].key] /\ (cmd[c].val # None \/ old[c] # None)
  /\ pc[c] \in {"set_update", "apply"} => Latest(cmd[c].key) = ToLog(cmd[c].val)
  /\ pc[c] \in {"set_clr", "undo_apply"} => Latest(log[cursor[c]].key) = log[cursor[c]].old
  /\ OwnsUpdates(c)

ValuesOK == BeforeRight /\ (server = "up" => TableRight /\ \A c \in Client : Holds(c))

ListInv == Exact => ListDone /\ SnapSame
TableInv == Exact /\ Restorable => SetsValue /\ ValuesOK

\* The same log leaves the same.
LEMMA SameLatest ==
  ASSUME log' = log
  PROVE  \A k, i : Replayed(k, i)' = Replayed(k, i) /\ Latest(k)' = Latest(k)
BY DEF Replayed, Changes, Latest

(***************************************************************************)
(* What a client's step does to the table, the locks and its command.      *)
(***************************************************************************)
LEMMA LoggedIs ==
  ASSUME LockInv, NEW c \in Client, Logging(c), NEW r \in Record, Adds(c, r)
  PROVE  /\ UNCHANGED <<ht, cmd, old, owner>>
         /\ r.type = "UPDATE" => /\ r.key = cmd[c].key /\ r.old = ToLog(old[c])
                                 /\ r.new = ToLog(cmd[c].val) /\ pc[c] = "log"
<1>1. TypeOK /\ log' = Append(log, r)
  BY DEF LockInv, Adds
<1>2. UNCHANGED <<ht, cmd, old, owner>>
  BY DEF Logging, BeginLog, UpdateLog, CommitLog, AbortLog, ClrLog, EndLog
<1>3. ASSUME r.type = "UPDATE"
      PROVE  r.key = cmd[c].key /\ r.old = ToLog(old[c]) /\ r.new = ToLog(cmd[c].val)
             /\ pc[c] = "log"
  <2>1. pc[c] = "log"
    BY <1>3 DEF Adds
  <2>2. UpdateLog(c)
    BY <2>1 DEF Logging, BeginLog, CommitLog, AbortLog, ClrLog, EndLog, At
  <2> DEFINE u == DataRecord(lsn + 1, last_lsn[c], txid[c], "UPDATE", 0, cmd[c].key,
                             ToLog(old[c]), ToLog(cmd[c].val))
  <2>3. log' = Append(log, u)
    BY <2>2 DEF UpdateLog, WriteLog
  <2>4. u.key = cmd[c].key /\ u.old = ToLog(old[c]) /\ u.new = ToLog(cmd[c].val)
    BY DEF DataRecord
  <2>5. u \in Record
    <3>1. /\ old[c] \in HtValue /\ cmd[c].val \in HtValue /\ cmd[c].key \in Key \cup {NoKey}
          /\ lsn + 1 \in Nat /\ last_lsn[c] \in Nat /\ txid[c] \in Nat
      BY <1>1 DEF TypeOK, Cmd
    <3>2. "UPDATE" \in LogType /\ 0 \in Nat
      BY DEF LogType
    <3> QED BY <3>1, <3>2, LogValues, DataRecordType
  <2> HIDE DEF u
  <2>6. r = u
    BY <1>1, <2>3, <2>5, Appended
  <2> QED BY <2>1, <2>4, <2>6
<1> QED BY <1>2, <1>3

\* What a step of client c that logs nothing changes of the table.
Stores(c) ==
  \/ pc[c] \notin {"apply", "undo_apply"} /\ ht' = ht
  \/ /\ pc[c] = "apply" /\ pc'[c] \in {"ready", "commit_log"} /\ cmd[c].key \in Key
     /\ ht' = [ht EXCEPT ![cmd[c].key] = cmd[c].val]
  \/ /\ pc[c] = "undo_apply" /\ pc'[c] = "rollback"
     /\ ht' = [ht EXCEPT ![log[cursor[c]].key] = FromLog(log[cursor[c]].old)]

\* And of what it knows of its key.
Reads(c) ==
  /\ \A d \in Client : d # c => old'[d] = old[d]
  /\ pc[c] # "unlock" => \A s \in Stripe : owner[s] = c => owner'[s] = c
  /\ pc[c] = "lock" =>
       /\ owner'[StripeOf[cmd[c].key]] = c /\ cmd'[c] = cmd[c] /\ old'[c] = ht[cmd[c].key]
       /\ pc'[c] = "log" => cmd[c].op = "set" \/ ht[cmd[c].key] # None
  /\ pc[c] = "set_update" => cmd'[c] = cmd[c]
  /\ pc[c] = "set_clr" /\ pc'[c] = "rollback" =>
       log[cursor[c]].old = Empty /\ log[cursor[c]].new = Empty
  /\ cmd'[c].op = "set" => cmd'[c].val # None \/ cmd'[c] = cmd[c]

LEMMA QuietIs ==
  ASSUME LockInv, NEW c \in Client, Receiving(c) \/ Executing(c), ~Logging(c),
         Undoes(c) => Undoing(c) = log[cursor[c]]
  PROVE  Stores(c) /\ Reads(c)
<1> DEFINE Result == Stores(c) /\ Reads(c)
<1>0. /\ TypeOK /\ ThreadOK
      /\ pc \in [Client -> PC] /\ cmd \in [Client -> Cmd] /\ txid \in [Client -> Nat]
      /\ cursor \in [Client -> Nat] /\ old \in [Client -> HtValue]
      /\ owner \in [Stripe -> Client \cup {NoOwner}]
  BY DEF LockInv, TypeOK
<1>1. NoCmd.op # "set"
  BY DEF NoCmd
<1>2. ASSUME Begin(c) PROVE Result
  BY <1>0, <1>2 DEF Begin, StartTx, At, Goto, Stores, Reads
<1>3. ASSUME NEW op, NEW k, NEW x, op = "set" => x # None, Receive(c, op, k, x) PROVE Result
  <2>1. /\ UNCHANGED <<ht, old, owner>> /\ pc[c] = "ready"
        /\ cmd'[c] = [op |-> op, key |-> k, val |-> x, single |-> txid[c] = 0]
    BY <1>0, <1>3 DEF Receive, At
  <2> QED BY <1>3, <2>1 DEF Stores, Reads
<1>4. ASSUME Disconnect(c) PROVE Result
  BY <1>0, <1>4 DEF Disconnect, At, Goto, Stores, Reads
<1>5. ASSUME SetLast(c) PROVE Result
  <2>1. /\ UNCHANGED <<log, ht, owner, cmd, old>> /\ pc'[c] = AfterSet(c) /\ pc[c] \in Setting
    BY <1>0, <1>5 DEF SetLast, Goto
  <2>2. CASE pc[c] = "set_clr"
    <3>1. Undoing(c) = log[cursor[c]]
      BY <2>2 DEF Undoes
    <3> QED BY <2>1, <2>2, <3>1 DEF AfterSet, AfterClr, Stores, Reads
  <2>3. CASE pc[c] # "set_clr"
    BY <2>1, <2>3 DEF Setting, Stores, Reads
  <2> QED BY <2>2, <2>3
<1>6. ASSUME Lock(c) PROVE Result
  <2>1. cmd[c].key \in Key /\ StripeOf[cmd[c].key] \in Stripe /\ cmd[c].op \in {"get", "set", "del"}
    <3>1. pc[c] = "lock"
      BY <1>6 DEF Lock, At
    <3>2. cmd[c].op # "none" /\ cmd[c].key \in Key
      BY <1>0, <3>1 DEF ThreadOK
    <3>3. cmd[c].op \in {"none", "get", "set", "del"}
      BY <1>0 DEF Cmd
    <3> QED BY <3>2, <3>3, TxnConstants
  <2>2. /\ UNCHANGED <<ht, cmd>> /\ pc[c] = "lock"
        /\ owner' = [owner EXCEPT ![StripeOf[cmd[c].key]] = c]
        /\ old' = [old EXCEPT ![c] = ht[cmd[c].key]]
        /\ pc'[c] = IF cmd[c].op = "get" \/ (cmd[c].op = "del" /\ ht[cmd[c].key] = None)
                    THEN "reply" ELSE "log"
    BY <1>0, <1>6 DEF Lock, At, Goto
  <2> QED BY <1>0, <2>1, <2>2 DEF Stores, Reads
<1>7. ASSUME Reply(c) PROVE Result
  BY <1>0, <1>1, <1>7 DEF Reply, Finish, At, Goto, Stores, Reads
<1>8. ASSUME Apply(c) PROVE Result
  BY <1>0, <1>1, <1>8 DEF Apply, Finish, At, Goto, Stores, Reads, ThreadOK
<1>9. ASSUME SkipRecord(c) PROVE Result
  BY <1>0, <1>9 DEF SkipRecord, At, Stores, Reads
<1>10. ASSUME UndoApply(c) PROVE Result
  <2>1. pc[c] = "undo_apply" /\ Undoing(c) = log[cursor[c]]
    BY <1>10 DEF UndoApply, At, Undoes
  <2> QED BY <1>0, <1>10, <2>1 DEF UndoApply, Goto, Stores, Reads
<1>11. ASSUME Unlock(c) PROVE Result
  BY <1>0, <1>11 DEF Unlock, At, Stores, Reads
<1>12. ASSUME Leave(c) PROVE Result
  BY <1>0, <1>1, <1>12 DEF Leave, At, Goto, Stores, Reads
<1>13. CASE Receiving(c)
  <2>1. \A x \in Value : x # None
    BY LogConstants
  <2> QED BY <1>2, <1>3, <1>4, <1>13, <2>1 DEF Receiving, Get, Set, Del
<1> QED BY <1>5, <1>6, <1>7, <1>8, <1>9, <1>10, <1>11, <1>12, <1>13 DEF Executing

(***************************************************************************)
(* A running server's step.                                                *)
(***************************************************************************)

\* The lines the lemmas below speak of.
LEMMA UpdatesAre ==
  ASSUME NEW l, NEW tx
  PROVE  \A u : u \in UpdatesIn(l, tx) <=>
           u \in 1 .. Len(l) /\ l[u].tx = tx /\ l[u].type = "UPDATE"
BY DEF UpdatesIn, Of

\* What a rollback is at is an update of its transaction.
LEMMA UndoesUpdate ==
  ASSUME LockInv, Sound, NEW c \in Client, Undoes(c)
  PROVE  /\ Undoing(c) = log[cursor[c]] /\ cursor[c] \in 1 .. Len(log)
         /\ log[cursor[c]] \in Record /\ txid[c] # 0
         /\ pc[c] # "rollback" \/ Undoing(c).type = "UPDATE" =>
              cursor[c] \in UpdatesIn(log, txid[c]) /\ log[cursor[c]].type = "UPDATE"
<1>1. Knows(c) /\ \A n \in 1 .. Len(log) : GetLog(log, n) = log[n] /\ log[n] \in Record
  BY SoundLines DEF Sound
<1>2. /\ OwnRecord(log, cursor[c], txid[c])
      /\ pc[c] # "rollback" => log[cursor[c]].type = "UPDATE"
  BY <1>1 DEF Knows, Undoes
<1>3. cursor[c] \in 1 .. Len(log) /\ log[cursor[c]].tx = txid[c] /\ txid[c] # 0
  BY <1>2 DEF OwnRecord
<1>4. Undoing(c) = log[cursor[c]]
  BY <1>1, <1>3 DEF Undoing
<1> QED BY <1>1, <1>2, <1>3, <1>4, UpdatesAre

\* A change that is to be made is made under the key's lock.
LEMMA LateOwned ==
  ASSUME LockInv, Sound, NEW d \in Client, Holds(d), NEW k, Late(d, k)
  PROVE  Owns(d, k)
<1>1. CASE pc[d] \in {"set_update", "apply"} /\ cmd[d].key = k
  BY <1>1 DEF Holds
<1>2. CASE pc[d] \in {"set_clr", "undo_apply"} /\ log[cursor[d]].key = k
  <2>1. cursor[d] \in UpdatesIn(log, txid[d]) /\ txid[d] # 0
    BY <1>2, UndoesUpdate DEF Undoes
  <2> QED BY <1>2, <2>1 DEF Holds, OwnsUpdates
<1> QED BY <1>1, <1>2 DEF Late

\* Client c, which has a record to append or a change to make, has the key.
LEMMA ChangeOwned ==
  ASSUME LockInv, Sound, NEW c \in Client, Holds(c), Logging(c), NEW r \in Record, Adds(c, r),
         NEW k, Changing(r, k)
  PROVE  /\ Owns(c, k)
         /\ r.type = "UPDATE" => pc[c] = "log" /\ pc'[c] = "set_update" /\ cmd[c].key = k
         /\ r.type = "CLR" => /\ pc[c] = "rollback" /\ pc'[c] = "set_clr" /\ cursor'[c] = cursor[c]
                              /\ log[cursor[c]].key = k /\ r.new = log[cursor[c]].old
                              /\ cursor[c] \in 1 .. Len(log)
<1>1. CASE r.type = "UPDATE"
  <2>1. pc[c] = "log" /\ pc'[c] = "set_update"
    BY <1>1 DEF Adds
  <2>2. cmd[c].key = k
    BY <1>1, LoggedIs DEF Changing
  <2> QED BY <1>1, <2>1, <2>2 DEF Holds
<1>2. CASE r.type = "CLR"
  <2>1. /\ pc[c] = "rollback" /\ pc'[c] = "set_clr" /\ cursor'[c] = cursor[c]
        /\ Undoing(c).type = "UPDATE" /\ r.key = Undoing(c).key /\ r.new = Undoing(c).old
    BY <1>2 DEF Adds
  <2>2. /\ Undoing(c) = log[cursor[c]] /\ cursor[c] \in UpdatesIn(log, txid[c]) /\ txid[c] # 0
        /\ cursor[c] \in 1 .. Len(log)
    BY <2>1, UndoesUpdate DEF Undoes
  <2>3. Owns(c, log[cursor[c]].key)
    BY <2>1, <2>2 DEF Holds, OwnsUpdates
  <2> QED BY <1>2, <2>1, <2>2, <2>3 DEF Changing
<1> QED BY <1>1, <1>2 DEF Changing

\* One that logs an update has read what the log leaves of its key.
LEMMA UpdateRight ==
  ASSUME Empty \notin Value, LockInv, Sound, ValuesOK, server = "up",
         NEW c \in Client, pc[c] = "log"
  PROVE  /\ cmd[c].key \in Key /\ ToLog(old[c]) = Latest(cmd[c].key)
         /\ ToLog(old[c]) # Empty \/ ToLog(cmd[c].val) # Empty
<1>1. Holds(c) /\ TableRight /\ \A d \in Client : Holds(d)
  BY DEF ValuesOK
<1>2. cmd[c].key \in Key /\ cmd[c].val \in HtValue /\ old[c] \in HtValue
  BY DEF LockInv, TypeOK, ThreadOK, Cmd
<1>3. /\ Owns(c, cmd[c].key) /\ old[c] = ht[cmd[c].key]
      /\ cmd[c].val # None \/ old[c] # None
  BY <1>1 DEF Holds
<1>4. \A d \in Client : ~Late(d, cmd[c].key)
  <2>1. ASSUME NEW d \in Client, Late(d, cmd[c].key) PROVE FALSE
    <3>1. Owns(d, cmd[c].key)
      BY <1>1, <2>1, LateOwned
    <3>2. d = c
      BY <1>3, <3>1 DEF Owns
    <3> QED BY <2>1, <3>2 DEF Late
  <2> QED BY <2>1
<1>5. ToLog(ht[cmd[c].key]) = Latest(cmd[c].key)
  BY <1>1, <1>2, <1>4 DEF TableRight
<1>6. \A x \in HtValue : x # None => ToLog(x) # Empty
  BY DEF HtValue, ToLog
<1> QED BY <1>2, <1>3, <1>5, <1>6

\* The old values after a step, each key by its name.
LEMMA BeforeRightNext ==
  ASSUME \A i \in 1 .. Len(log') : log'[i].type = "UPDATE" =>
           /\ log'[i].key \in Key /\ \A k : k = log'[i].key => log'[i].old = Replayed(k, i)'
           /\ log'[i].old # Empty \/ log'[i].new # Empty
  PROVE  BeforeRight'
BY DEF BeforeRight

LEMMA RunningLogs ==
  ASSUME Empty \notin Value, LockInv, IdsInv, Sound, ValuesOK, server = "up", server' = "up",
         NEW c \in Client, Logging(c), ~OneTwice', \A d \in Client : d # c => Frame(d)
  PROVE  ValuesOK'
<1>0. PICK r \in Record : Adds(c, r)
  BY AddsIs
<1>1. /\ log' = Append(log, r) /\ r.lsn = lsn + 1 /\ r.tx = txid[c] /\ txid[c] # 0
      /\ UNCHANGED <<ht, cmd, old, owner, txid>> /\ TypeOK
  BY <1>0, LoggedIs DEF Adds, LockInv
<1>2. /\ TableRight /\ \A d \in Client : Holds(d) /\ Knows(d)
      /\ BeforeRight
  BY DEF ValuesOK, Sound
<1>3. PICK n \in Nat : n = Len(log)
  BY <1>1, LogIsSeq
<1>4. /\ Len(log') = n + 1 /\ log'[n + 1] = r /\ \A i \in 1 .. n : log'[i] = log[i]
      /\ \A i \in 1 .. n + 1 : i \in 1 .. n \/ i = n + 1
  BY <1>1, <1>3, Appended
<1>5. ASSUME NEW k
      PROVE  /\ \A i \in 1 .. n + 1 : Replayed(k, i)' = Replayed(k, i)
             /\ Latest(k)' = IF Changing(r, k) THEN r.new ELSE Latest(k)
             /\ Latest(k) = Replayed(k, n + 1)
  BY <1>1, <1>3, AppendedLatest DEF Latest
<1>6. ASSUME NEW k, Changing(r, k)
      PROVE  /\ Owns(c, k)
             /\ r.type = "UPDATE" => pc[c] = "log" /\ pc'[c] = "set_update" /\ cmd[c].key = k
             /\ r.type = "CLR" => /\ pc[c] = "rollback" /\ pc'[c] = "set_clr"
                                  /\ cursor'[c] = cursor[c]
                                  /\ log[cursor[c]].key = k /\ r.new = log[cursor[c]].old
                                  /\ cursor[c] \in 1 .. n
  BY <1>0, <1>2, <1>3, <1>6, ChangeOwned
<1>7. BeforeRight'
  <2>1. ASSUME NEW i \in 1 .. n, log[i].type = "UPDATE"
        PROVE  /\ log[i].key \in Key /\ \A k : k = log[i].key => log[i].old = Replayed(k, i)'
               /\ log[i].old # Empty \/ log[i].new # Empty
    <3>1. /\ log[i].key \in Key /\ log[i].old = Replayed(log[i].key, i)
          /\ log[i].old # Empty \/ log[i].new # Empty
      BY <1>2, <1>3, <2>1 DEF BeforeRight
    <3>2. ASSUME NEW k, k = log[i].key PROVE log[i].old = Replayed(k, i)'
      <4>1. Replayed(k, i)' = Replayed(k, i)
        BY <1>5
      <4> QED BY <3>1, <3>2, <4>1
    <3> QED BY <3>1, <3>2
  <2>2. ASSUME r.type = "UPDATE"
        PROVE  /\ r.key \in Key /\ \A k : k = r.key => r.old = Replayed(k, n + 1)'
               /\ r.old # Empty \/ r.new # Empty
    <3>1. /\ r.key = cmd[c].key /\ r.old = ToLog(old[c]) /\ r.new = ToLog(cmd[c].val)
          /\ pc[c] = "log"
      BY <1>0, <2>2, LoggedIs
    <3>2. /\ cmd[c].key \in Key /\ ToLog(old[c]) = Latest(cmd[c].key)
          /\ ToLog(old[c]) # Empty \/ ToLog(cmd[c].val) # Empty
      BY <3>1, UpdateRight
    <3>3. ASSUME NEW k, k = r.key PROVE r.old = Replayed(k, n + 1)'
      <4>1. Replayed(k, n + 1)' = Latest(k) /\ n + 1 \in 1 .. n + 1
        BY <1>5
      <4> QED BY <3>1, <3>2, <3>3, <4>1
    <3> QED BY <3>1, <3>2, <3>3
  <2>3. \A i \in 1 .. n + 1 : log'[i].type = "UPDATE" =>
          /\ log'[i].key \in Key /\ \A k : k = log'[i].key => log'[i].old = Replayed(k, i)'
          /\ log'[i].old # Empty \/ log'[i].new # Empty
    BY <1>4, <2>1, <2>2
  <2> QED BY <1>4, <2>3, BeforeRightNext
<1>8. ASSUME NEW d \in Client, d # c
      PROVE  /\ pc'[d] = pc[d] /\ cursor'[d] = cursor[d]
             /\ pc[d] \in {"set_clr", "undo_apply"} => log'[cursor[d]] = log[cursor[d]]
  <2>1. pc'[d] = pc[d] /\ cursor'[d] = cursor[d]
    BY <1>8 DEF Frame
  <2>2. pc[d] \in {"set_clr", "undo_apply"} => cursor[d] \in 1 .. n
    BY <1>3, UndoesUpdate DEF Undoes
  <2> QED BY <1>4, <2>1, <2>2
<1>9. TableRight'
  <2> SUFFICES ASSUME NEW k \in Key
               PROVE  ToLog(ht[k]) = Latest(k)' \/ \E d \in Client : Late(d, k)'
    BY <1>1 DEF TableRight
  <2>1. CASE Changing(r, k)
    <3>1. Late(c, k)'
      <4>1. CASE r.type = "UPDATE"
        BY <1>1, <1>6, <2>1, <4>1 DEF Late
      <4>2. CASE r.type = "CLR"
        <5>1. log'[cursor[c]] = log[cursor[c]]
          BY <1>4, <1>6, <2>1, <4>2
        <5> QED BY <1>6, <2>1, <4>2, <5>1 DEF Late
      <4> QED BY <2>1, <4>1, <4>2 DEF Changing
    <3> QED BY <3>1
  <2>2. CASE ~Changing(r, k)
    <3>1. Latest(k)' = Latest(k)
      BY <1>5, <2>2
    <3>2. ASSUME NEW d \in Client, Late(d, k) PROVE Late(d, k)'
      <4>1. d # c
        BY <1>0, <3>2 DEF Late, Adds
      <4> QED BY <1>1, <1>8, <3>2, <4>1 DEF Late
    <3> QED BY <1>2, <3>1, <3>2 DEF TableRight
  <2> QED BY <2>1, <2>2
<1>10. ASSUME NEW d \in Client, d # c PROVE Holds(d)'
  <2>1. /\ pc'[d] = pc[d] /\ cursor'[d] = cursor[d] /\ Holds(d)
        /\ pc[d] \in {"set_clr", "undo_apply"} => log'[cursor[d]] = log[cursor[d]]
    BY <1>2, <1>8, <1>10
  <2>2. ASSUME NEW k, Owns(d, k) PROVE Latest(k)' = Latest(k) /\ Owns(d, k)'
    <3>1. ~Changing(r, k)
      BY <1>6, <1>10, <2>2 DEF Owns
    <3> QED BY <1>1, <1>5, <2>2, <3>1 DEF Owns
  <2>3. OwnsUpdates(d)'
    <3> SUFFICES ASSUME txid[d] # 0, pc[d] # "unlock", NEW u \in UpdatesIn(log', txid[d])
                 PROVE  owner[StripeOf[log'[u].key]] = d
      BY <1>1, <2>1 DEF OwnsUpdates, Owns
    <3>1. txid[d] # txid[c]
      BY <1>10 DEF IdsInv, TxIds
    <3>2. u \in 1 .. n + 1 /\ log'[u].tx = txid[d] /\ log'[u].type = "UPDATE"
      BY <1>4, UpdatesAre
    <3>3. u \in 1 .. n /\ log'[u] = log[u]
      BY <1>1, <1>4, <3>1, <3>2
    <3>4. u \in UpdatesIn(log, txid[d])
      BY <1>3, <3>2, <3>3, UpdatesAre
    <3> QED BY <2>1, <3>3, <3>4 DEF Holds, OwnsUpdates, Owns
  <2>4. pc[d] \in {"set_clr", "undo_apply"} => Owns(d, log[cursor[d]].key)
    BY <2>1, LateOwned DEF Late
  <2>5. /\ pc[d] \in {"log", "set_update", "apply"} => Owns(d, cmd[d].key)'
        /\ pc[d] \in {"set_update", "apply"} => Latest(cmd[d].key)' = Latest(cmd[d].key)
        /\ pc[d] \in {"set_clr", "undo_apply"} =>
             Latest(log[cursor[d]].key)' = Latest(log[cursor[d]].key)
    <3>1. PICK k : k = cmd[d].key /\ cmd'[d].key = k
      BY <1>1
    <3>2. pc[d] \in {"log", "set_update", "apply"} => Owns(d, k)' /\ Latest(k)' = Latest(k)
      BY <2>1, <2>2, <3>1 DEF Holds
    <3>3. PICK j : j = log[cursor[d]].key
      OBVIOUS
    <3>4. pc[d] \in {"set_clr", "undo_apply"} => Latest(j)' = Latest(j) /\ log'[cursor'[d]].key = j
      BY <2>1, <2>2, <2>4, <3>3
    <3>5. pc[d] \in {"set_clr", "undo_apply"} => log'[cursor'[d]].key = log[cursor[d]].key
      BY <2>1
    <3> QED BY <3>1, <3>2, <3>3, <3>4, <3>5
  <2> QED BY <1>1, <2>1, <2>3, <2>5 DEF Holds
<1>11. Holds(c)'
  <2>1. Holds(c)
    BY <1>2
  <2>2. pc'[c] # "log" /\ pc'[c] # "apply" /\ pc'[c] # "undo_apply"
    BY <1>0 DEF Adds
  <2>3. pc'[c] = "set_update" =>
          /\ r.type = "UPDATE" /\ Changing(r, cmd[c].key) /\ r.new = ToLog(cmd[c].val)
    BY <1>0, LoggedIs DEF Adds, Changing
  <2>4. pc'[c] = "set_clr" =>
          /\ r.type = "CLR" /\ Changing(r, log[cursor[c]].key) /\ cursor'[c] = cursor[c]
          /\ r.new = log[cursor[c]].old /\ log'[cursor[c]] = log[cursor[c]]
    <3> SUFFICES ASSUME pc'[c] = "set_clr"
                 PROVE  /\ r.type = "CLR" /\ Changing(r, log[cursor[c]].key)
                        /\ cursor'[c] = cursor[c]
                        /\ r.new = log[cursor[c]].old /\ log'[cursor[c]] = log[cursor[c]]
      OBVIOUS
    <3>1. r.type = "CLR" /\ Changing(r, r.key)
      BY <1>0 DEF Adds, Changing
    <3>2. /\ cursor'[c] = cursor[c] /\ log[cursor[c]].key = r.key /\ r.new = log[cursor[c]].old
          /\ cursor[c] \in 1 .. n
      BY <1>6, <3>1
    <3> QED BY <1>4, <3>1, <3>2
  <2>5. OwnsUpdates(c)'
    <3> SUFFICES ASSUME NEW u \in UpdatesIn(log', txid[c])
                 PROVE  owner[StripeOf[log'[u].key]] = c
      BY <1>1 DEF OwnsUpdates, Owns
    <3>1. u \in 1 .. n + 1 /\ log'[u].tx = txid[c] /\ log'[u].type = "UPDATE"
      BY <1>4, UpdatesAre
    <3>2. CASE u \in 1 .. n
      <4>1. u \in UpdatesIn(log, txid[c]) /\ log'[u] = log[u]
        BY <1>3, <1>4, <3>1, <3>2, UpdatesAre
      <4>2. pc[c] # "unlock"
        BY <1>0 DEF Adds
      <4> QED BY <1>1, <2>1, <4>1, <4>2 DEF Holds, OwnsUpdates, Owns
    <3>3. CASE u = n + 1
      <4>1. r.type = "UPDATE" /\ log'[u] = r
        BY <1>4, <3>1, <3>3
      <4>2. Changing(r, r.key)
        BY <4>1 DEF Changing
      <4> QED BY <1>6, <4>1, <4>2 DEF Owns
    <3> QED BY <1>4, <3>1, <3>2, <3>3
  <2>6. pc'[c] = "set_update" => Owns(c, cmd[c].key)' /\ Latest(cmd[c].key)' = ToLog(cmd[c].val)
    <3>1. PICK k : k = cmd[c].key /\ cmd'[c].key = k
      BY <1>1
    <3> QED BY <1>1, <1>5, <1>6, <2>3, <3>1 DEF Owns
  <2>7. pc'[c] = "set_clr" => Latest(log[cursor[c]].key)' = log[cursor[c]].old
    <3>1. PICK k : k = log[cursor[c]].key
      OBVIOUS
    <3>2. pc'[c] = "set_clr" => Latest(k)' = r.new /\ log'[cursor'[c]].key = k
      BY <1>5, <2>4, <3>1
    <3>3. pc'[c] = "set_clr" => log'[cursor'[c]] = log[cursor[c]]
      BY <2>4
    <3> QED BY <2>4, <3>1, <3>2, <3>3
  <2>8. pc'[c] = "set_clr" => log'[cursor'[c]] = log[cursor[c]]
    BY <2>4
  <2> QED BY <1>1, <2>2, <2>5, <2>6, <2>7, <2>8 DEF Holds
<1> QED BY <1>7, <1>9, <1>10, <1>11 DEF ValuesOK

\* Where a client goes that has a change to make, and who comes to have one.
LEMMA QuietMoves ==
  ASSUME LockInv, NEW c \in Client, Starts(c) \/ Leaves(c) \/ Learns(c) \/ Walks(c)
  PROVE  /\ pc[c] = "set_update" => pc'[c] = "apply"
         /\ pc[c] = "set_clr" => pc'[c] \in {"undo_apply", "rollback"}
         /\ pc'[c] = "log" => pc[c] = "lock"
         /\ pc'[c] = "apply" => pc[c] = "set_update"
         /\ pc'[c] = "undo_apply" => pc[c] = "set_clr" /\ cursor'[c] = cursor[c]
         /\ pc'[c] \notin {"set_update", "set_clr"}
         /\ \/ txid'[c] = transaction_id + 1
            \/ txid'[c] = 0
            \/ txid'[c] = txid[c] /\ (pc'[c] # "unlock" => pc[c] # "unlock")
<1>1. txid \in [Client -> Nat]
  BY DEF LockInv, TypeOK
<1> QED BY <1>1 DEF Starts, Leaves, Learns, Walks

LEMMA QuietTable ==
  ASSUME LockInv, Sound, ValuesOK, server = "up", NEW c \in Client, log' = log,
         Starts(c) \/ Leaves(c) \/ Learns(c) \/ Walks(c), Stores(c), Reads(c),
         \A d \in Client : d # c => Frame(d)
  PROVE  TableRight'
<1> SUFFICES ASSUME NEW k \in Key PROVE ToLog(ht'[k]) = Latest(k) \/ \E d \in Client : Late(d, k)'
  BY SameLatest DEF TableRight
<1>1. TableRight /\ Holds(c) /\ BeforeRight
  BY DEF ValuesOK
<1>2. ht \in [Key -> HtValue]
  BY DEF LockInv, TypeOK
<1>3. CASE pc[c] = "apply" /\ cmd[c].key = k
  <2>1. ht'[k] = cmd[c].val
    BY <1>2, <1>3 DEF Stores
  <2> QED BY <1>1, <1>3, <2>1 DEF Holds
<1>4. CASE pc[c] = "undo_apply" /\ log[cursor[c]].key = k
  <2>1. ht'[k] = FromLog(log[cursor[c]].old)
    BY <1>2, <1>4 DEF Stores
  <2>2. log[cursor[c]] \in Record
    BY <1>4, UndoesUpdate DEF Undoes
  <2>3. log[cursor[c]].old \in LogValue
    BY <2>2 DEF Record
  <2>4. ToLog(ht'[k]) = log[cursor[c]].old
    BY <2>1, <2>3, ThereAndBack
  <2> QED BY <1>1, <1>4, <2>4 DEF Holds
<1>5. CASE ~(pc[c] = "apply" /\ cmd[c].key = k) /\ ~(pc[c] = "undo_apply" /\ log[cursor[c]].key = k)
  <2>1. ht'[k] = ht[k]
    BY <1>2, <1>5 DEF Stores
  <2>2. ASSUME NEW d \in Client, Late(d, k), d # c PROVE Late(d, k)'
    BY <2>2 DEF Frame, Late
  <2>3. ASSUME Late(c, k) PROVE Late(c, k)'
    <3>1. CASE pc[c] = "set_update"
      <4>1. cmd[c].key = k
        BY <2>3, <3>1 DEF Late
      <4>2. pc'[c] = "apply" /\ cmd'[c] = cmd[c]
        <5>1. pc'[c] = "apply"
          BY <3>1, QuietMoves
        <5> QED BY <3>1, <5>1 DEF Reads
      <4> QED BY <4>1, <4>2 DEF Late
    <3>2. CASE pc[c] = "set_clr"
      <4>1. log[cursor[c]].key = k
        BY <2>3, <3>2 DEF Late
      <4>2. pc'[c] # "rollback"
        <5> SUFFICES ASSUME pc'[c] = "rollback" PROVE FALSE
          OBVIOUS
        <5>1. log[cursor[c]].old = Empty /\ log[cursor[c]].new = Empty
          BY <3>2 DEF Reads
        <5>2. cursor[c] \in 1 .. Len(log) /\ log[cursor[c]].type = "UPDATE"
          BY <3>2, UndoesUpdate DEF Undoes
        <5> QED BY <1>1, <5>1, <5>2 DEF BeforeRight
      <4>3. pc'[c] = "undo_apply" /\ cursor'[c] = cursor[c]
        <5>1. pc'[c] = "undo_apply"
          BY <3>2, <4>2, QuietMoves
        <5> QED BY <5>1, QuietMoves
      <4> QED BY <4>1, <4>3 DEF Late
    <3> QED BY <1>5, <2>3, <3>1, <3>2 DEF Late
  <2> QED BY <1>1, <2>1, <2>2, <2>3 DEF TableRight
<1> QED BY <1>3, <1>4, <1>5

\* What a client does not own it does not change, and it releases nothing that
\* another has.
LEMMA QuietOthers ==
  ASSUME LockInv, Sound, ValuesOK, server = "up", NEW c \in Client, log' = log, Stores(c), Reads(c),
         NEW d \in Client, d # c, Frame(d)
  PROVE  Holds(d)'
<1>1. Holds(d) /\ Holds(c) /\ BeforeRight
  BY DEF ValuesOK
<1>2. /\ pc'[d] = pc[d] /\ cmd'[d] = cmd[d] /\ txid'[d] = txid[d] /\ cursor'[d] = cursor[d]
      /\ old'[d] = old[d] /\ \A s \in Stripe : owner[s] = d => owner'[s] = d
  BY DEF Frame, Reads
<1>3. ASSUME NEW k \in Key, Owns(d, k) PROVE Owns(d, k)' /\ ht'[k] = ht[k]
  <2>1. StripeOf[k] \in Stripe
    BY TxnConstants
  <2>2. ~Late(c, k)
    <3>1. ASSUME Late(c, k) PROVE FALSE
      <4>1. Owns(c, k)
        BY <1>1, <3>1, LateOwned
      <4> QED BY <1>3, <4>1 DEF Owns
    <3> QED BY <3>1
  <2>3. ht'[k] = ht[k]
    BY <2>2 DEF Stores, Late, LockInv, TypeOK
  <2> QED BY <1>2, <1>3, <2>1, <2>3 DEF Owns
<1>4. pc[d] \in {"log", "set_update", "apply"} => cmd[d].key \in Key
  BY DEF LockInv, ThreadOK
<1>5. PICK k : k = cmd[d].key /\ k = cmd'[d].key
  BY <1>2
<1>6. pc[d] \in {"log", "set_update", "apply"} => Owns(d, k)' /\ ht'[k] = ht[k]
  BY <1>1, <1>3, <1>4, <1>5 DEF Holds
<1>7. PICK j : j = log[cursor[d]].key /\ j = log'[cursor'[d]].key
  BY <1>2
<1>8. Latest(k)' = Latest(k) /\ Latest(j)' = Latest(j)
  BY SameLatest
<1>9. OwnsUpdates(d)'
  <2> SUFFICES ASSUME txid[d] # 0, pc[d] # "unlock", NEW u \in UpdatesIn(log, txid[d])
               PROVE  owner'[StripeOf[log[u].key]] = d
    BY <1>2 DEF OwnsUpdates, Owns
  <2>1. Owns(d, log[u].key)
    BY <1>1 DEF Holds, OwnsUpdates
  <2>2. log[u].key \in Key
    BY <1>1, UpdatesAre DEF BeforeRight
  <2>3. PICK i \in Key : i = log[u].key
    BY <2>2
  <2> QED BY <1>3, <2>1, <2>3 DEF Owns
<1>10. /\ pc[d] \in {"log", "set_update", "apply"} => Owns(d, cmd[d].key)'
       /\ pc[d] = "log" => old'[d] = ht'[cmd'[d].key]
       /\ pc[d] \in {"set_update", "apply"} => Latest(cmd[d].key)' = ToLog(cmd[d].val)
  <2>1. pc[d] = "log" => old'[d] = ht'[k]
    BY <1>1, <1>2, <1>5, <1>6 DEF Holds
  <2>2. pc[d] \in {"set_update", "apply"} => Latest(k)' = ToLog(cmd[d].val)
    BY <1>1, <1>5, <1>8 DEF Holds
  <2> QED BY <1>5, <1>6, <2>1, <2>2
<1>11. pc[d] \in {"set_clr", "undo_apply"} => Latest(log[cursor[d]].key)' = log[cursor[d]].old
  <2>1. pc[d] \in {"set_clr", "undo_apply"} => Latest(j)' = log[cursor[d]].old
    BY <1>1, <1>7, <1>8 DEF Holds
  <2> QED BY <1>7, <2>1
<1>12. pc[d] = "log" => cmd[d].val # None \/ old[d] # None
  BY <1>1 DEF Holds
<1> QED BY <1>2, <1>9, <1>10, <1>11, <1>12 DEF Holds

LEMMA QuietOwn ==
  ASSUME LockInv, Sound, ValuesOK, SetsValue, server = "up", NEW c \in Client, log' = log,
         Starts(c) \/ Leaves(c) \/ Learns(c) \/ Walks(c), Stores(c), Reads(c)
  PROVE  Holds(c)'
<1>1. Holds(c) /\ BeforeRight
  BY DEF ValuesOK
<1>2. pc'[c] = "log" =>
        /\ Owns(c, cmd[c].key)' /\ old'[c] = ht'[cmd'[c].key]
        /\ cmd'[c].val # None \/ old'[c] # None
  <2> SUFFICES ASSUME pc'[c] = "log"
               PROVE  /\ Owns(c, cmd[c].key)' /\ old'[c] = ht'[cmd'[c].key]
                      /\ cmd'[c].val # None \/ old'[c] # None
    OBVIOUS
  <2>1. pc[c] = "lock"
    BY QuietMoves
  <2>2. /\ owner'[StripeOf[cmd[c].key]] = c /\ cmd'[c] = cmd[c] /\ old'[c] = ht[cmd[c].key]
        /\ cmd[c].op = "set" \/ ht[cmd[c].key] # None
    BY <2>1 DEF Reads
  <2>3. ht' = ht
    BY <2>1 DEF Stores
  <2>4. cmd[c].op = "set" => cmd[c].val # None
    BY DEF SetsValue
  <2> QED BY <2>2, <2>3, <2>4 DEF Owns
<1>3. pc'[c] = "apply" => Owns(c, cmd[c].key)' /\ Latest(cmd[c].key)' = ToLog(cmd'[c].val)
  <2> SUFFICES ASSUME pc'[c] = "apply"
               PROVE  Owns(c, cmd[c].key)' /\ Latest(cmd[c].key)' = ToLog(cmd'[c].val)
    OBVIOUS
  <2>1. pc[c] = "set_update"
    BY QuietMoves
  <2>2. cmd'[c] = cmd[c] /\ \A s \in Stripe : owner[s] = c => owner'[s] = c
    BY <2>1 DEF Reads
  <2>3. cmd[c].key \in Key
    BY <2>1 DEF LockInv, ThreadOK
  <2>4. PICK k \in Key : k = cmd[c].key /\ k = cmd'[c].key
    BY <2>2, <2>3
  <2>5. StripeOf[k] \in Stripe
    BY TxnConstants
  <2>6. Owns(c, k) /\ Latest(k) = ToLog(cmd[c].val)
    BY <1>1, <2>1, <2>4 DEF Holds
  <2>7. Owns(c, k)' /\ Latest(k)' = ToLog(cmd[c].val)
    BY <2>2, <2>5, <2>6, SameLatest DEF Owns
  <2> QED BY <2>2, <2>4, <2>7
<1>4. pc'[c] = "undo_apply" => Latest(log[cursor[c]].key)' = log'[cursor'[c]].old
  <2> SUFFICES ASSUME pc'[c] = "undo_apply"
               PROVE  Latest(log[cursor[c]].key)' = log'[cursor'[c]].old
    OBVIOUS
  <2>1. pc[c] = "set_clr" /\ cursor'[c] = cursor[c]
    BY QuietMoves
  <2>2. PICK k : k = log[cursor[c]].key /\ k = log'[cursor'[c]].key
    BY <2>1
  <2>3. Latest(k) = log[cursor[c]].old
    BY <1>1, <2>1, <2>2 DEF Holds
  <2>4. Latest(k)' = log[cursor[c]].old
    BY <2>3, SameLatest
  <2> QED BY <2>1, <2>2, <2>4
<1>5. OwnsUpdates(c)'
  <2> SUFFICES ASSUME txid'[c] # 0, pc'[c] # "unlock", NEW u \in UpdatesIn(log, txid'[c])
               PROVE  owner'[StripeOf[log[u].key]] = c
    BY DEF OwnsUpdates, Owns
  <2>1. u \in 1 .. Len(log) /\ log[u].tx = txid'[c] /\ log[u].type = "UPDATE"
    BY UpdatesAre
  <2>2. txid'[c] # transaction_id + 1
    <3>1. log[u].tx <= transaction_id /\ log[u] \in Record
      BY <2>1, SoundLines DEF Chained
    <3>2. log[u].tx \in Nat /\ transaction_id \in Nat
      BY <3>1 DEF Record, LockInv, TypeOK
    <3> QED BY <2>1, <3>1, <3>2
  <2>3. txid'[c] = txid[c] /\ pc[c] # "unlock"
    BY <2>2, QuietMoves
  <2>4. Owns(c, log[u].key)
    BY <1>1, <2>3 DEF Holds, OwnsUpdates
  <2>5. log[u].key \in Key
    BY <1>1, <2>1 DEF BeforeRight
  <2>6. StripeOf[log[u].key] \in Stripe /\ \A s \in Stripe : owner[s] = c => owner'[s] = c
    BY <2>3, <2>5, TxnConstants DEF Reads
  <2> QED BY <2>4, <2>6 DEF Owns
<1>6. pc'[c] \notin {"set_update", "set_clr"}
  BY QuietMoves
<1> QED BY <1>2, <1>3, <1>4, <1>5, <1>6 DEF Holds

LEMMA RunningQuiet ==
  ASSUME LockInv, Sound, ValuesOK, SetsValue, server = "up", server' = "up",
         NEW c \in Client, Receiving(c) \/ Executing(c), ~Logging(c),
         \A d \in Client : d # c => Frame(d)
  PROVE  ValuesOK'
<1>1. log' = log /\ (Starts(c) \/ Leaves(c) \/ Learns(c) \/ Walks(c))
  BY WalksIs
<1>2. Undoes(c) => Undoing(c) = log[cursor[c]]
  BY UndoesUpdate
<1>3. Stores(c) /\ Reads(c)
  BY <1>2, QuietIs
<1>4. BeforeRight'
  <2>1. BeforeRight
    BY DEF ValuesOK
  <2>2. ASSUME NEW i \in 1 .. Len(log), log[i].type = "UPDATE"
        PROVE  /\ log[i].key \in Key /\ \A k : k = log[i].key => log[i].old = Replayed(k, i)'
               /\ log[i].old # Empty \/ log[i].new # Empty
    BY <1>1, <2>1, <2>2, SameLatest DEF BeforeRight
  <2> QED BY <1>1, <2>2, BeforeRightNext
<1>5. TableRight'
  BY <1>1, <1>3, QuietTable
<1>6. \A d \in Client : d # c => Holds(d)'
  BY <1>1, <1>3, QuietOthers
<1>7. Holds(c)'
  BY <1>1, <1>3, QuietOwn
<1> QED BY <1>4, <1>5, <1>6, <1>7 DEF ValuesOK

\* A command that sets a key has a value for it.
LEMMA SetsKept ==
  ASSUME LockInv, Sound, SetsValue, Running
  PROVE  SetsValue'
<1>1. PICK c \in Client : Receiving(c) \/ Executing(c)
  BY DEF Running
<1>2. SUFFICES ASSUME NEW d \in Client PROVE cmd'[d].op = "set" => cmd'[d].val # None
  BY DEF SetsValue
<1>3. CASE d # c
  <2>1. Frame(d)
    BY <1>1, <1>3, FrameStep
  <2> QED BY <2>1 DEF Frame, SetsValue
<1>4. CASE d = c /\ Logging(c)
  <2>1. cmd' = cmd
    BY <1>4 DEF Logging, BeginLog, UpdateLog, CommitLog, AbortLog, ClrLog, EndLog
  <2> QED BY <2>1 DEF SetsValue
<1>5. CASE d = c /\ ~Logging(c)
  <2>1. Undoes(c) => Undoing(c) = log[cursor[c]]
    BY UndoesUpdate
  <2>2. Reads(c)
    BY <1>1, <1>5, <2>1, QuietIs
  <2> QED BY <1>5, <2>2 DEF Reads, SetsValue
<1> QED BY <1>3, <1>4, <1>5

LEMMA ValuesRunning ==
  ASSUME Empty \notin Value, LockInv, IdsInv, Sound, ValuesOK, SetsValue, Running, ~OneTwice'
  PROVE  ValuesOK'
<1>1. server = "up" /\ server' = "up" /\ \E c \in Client : Receiving(c) \/ Executing(c)
  BY DEF Running
<1>2. PICK c \in Client : Receiving(c) \/ Executing(c)
  BY <1>1
<1>3. \A d \in Client : d # c => Frame(d)
  BY <1>2, FrameStep
<1>4. CASE Logging(c)
  BY <1>1, <1>3, <1>4, RunningLogs
<1>5. CASE ~Logging(c)
  BY <1>1, <1>2, <1>3, <1>5, RunningQuiet
<1> QED BY <1>4, <1>5

(***************************************************************************)
(* The other steps.                                                        *)
(***************************************************************************)

\* Records that are no updates leave the old values of the others.
LEMMA BeforeKept ==
  ASSUME TypeOK, BeforeRight,
         log' = log \/ \E r \in Record : log' = Append(log, r) /\ r.type # "UPDATE"
  PROVE  BeforeRight'
<1>0. PICK n \in Nat : n = Len(log)
  BY LogIsSeq
<1>1. ASSUME NEW i \in 1 .. n, log[i].type = "UPDATE"
      PROVE  /\ log[i].key \in Key /\ \A k : k = log[i].key => log[i].old = Replayed(k, i)
             /\ log[i].old # Empty \/ log[i].new # Empty
  BY <1>0, <1>1 DEF BeforeRight
<1>2. CASE log' = log
  <2>1. \A k, i : Replayed(k, i)' = Replayed(k, i)
    BY <1>2, SameLatest
  <2> QED BY <1>0, <1>1, <1>2, <2>1, BeforeRightNext
<1>3. ASSUME NEW r \in Record, log' = Append(log, r), r.type # "UPDATE" PROVE BeforeRight'
  <2>1. /\ Len(log') = n + 1 /\ log'[n + 1] = r /\ \A i \in 1 .. n : log'[i] = log[i]
        /\ \A i \in 1 .. n + 1 : i \in 1 .. n \/ i = n + 1
    BY <1>0, <1>3, Appended
  <2>2. \A k : \A i \in 1 .. n : Replayed(k, i)' = Replayed(k, i)
    <3> SUFFICES ASSUME NEW k PROVE \A i \in 1 .. n : Replayed(k, i)' = Replayed(k, i)
      OBVIOUS
    <3>1. \A i \in 1 .. n + 1 : Replayed(k, i)' = Replayed(k, i)
      BY <1>0, <1>3, AppendedLatest
    <3> QED BY <3>1
  <2>3. \A i \in 1 .. n + 1 : log'[i].type = "UPDATE" =>
          /\ log'[i].key \in Key /\ \A k : k = log'[i].key => log'[i].old = Replayed(k, i)'
          /\ log'[i].old # Empty \/ log'[i].new # Empty
    BY <1>1, <1>3, <2>1, <2>2
  <2> QED BY <2>1, <2>3, BeforeRightNext
<1> QED BY <1>2, <1>3

\* A step that changes neither the table nor what a client does, and logs no change.
LEMMA ValuesKept ==
  ASSUME LockInv, Sound, ValuesOK, server = "up",
         log' = log \/ \E r \in Record : log' = Append(log, r) /\ r.type \notin {"UPDATE", "CLR"},
         UNCHANGED <<ht, owner, pc, cmd, txid, old, cursor>>
  PROVE  ValuesOK'
<1>0. TypeOK /\ BeforeRight /\ TableRight /\ \A d \in Client : Holds(d)
  BY DEF LockInv, ValuesOK
<1>1. BeforeRight'
  BY <1>0, BeforeKept
<1>2. PICK n \in Nat : n = Len(log)
  BY <1>0, LogIsSeq
<1>3. /\ \A i \in 1 .. n : log'[i] = log[i]
      /\ \A tx : UpdatesIn(log', tx) = UpdatesIn(log, tx)
  <2>1. CASE log' = log
    BY <2>1
  <2>2. ASSUME NEW r \in Record, log' = Append(log, r), r.type \notin {"UPDATE", "CLR"}
        PROVE  /\ \A i \in 1 .. n : log'[i] = log[i]
               /\ \A tx : UpdatesIn(log', tx) = UpdatesIn(log, tx)
    <3>1. /\ Len(log') = n + 1 /\ log'[n + 1] = r /\ \A i \in 1 .. n : log'[i] = log[i]
          /\ \A i \in 1 .. n + 1 : i \in 1 .. n \/ i = n + 1
          /\ \A i \in 1 .. n : i \in 1 .. n + 1
      BY <1>0, <1>2, <2>2, Appended
    <3>2. ASSUME NEW tx PROVE UpdatesIn(log', tx) = UpdatesIn(log, tx)
      <4>1. \A u : u \in UpdatesIn(log', tx) <=> u \in UpdatesIn(log, tx)
        <5>1. \A u : u \in UpdatesIn(log', tx) <=>
                u \in 1 .. n + 1 /\ log'[u].tx = tx /\ log'[u].type = "UPDATE"
          BY <3>1, UpdatesAre
        <5>2. \A u : u \in UpdatesIn(log, tx) <=>
                u \in 1 .. n /\ log[u].tx = tx /\ log[u].type = "UPDATE"
          BY <1>2, UpdatesAre
        <5> QED BY <2>2, <3>1, <5>1, <5>2
      <4> QED BY <4>1
    <3> QED BY <3>1, <3>2
  <2> QED BY <2>1, <2>2
<1>4. ASSUME NEW k PROVE Latest(k)' = Latest(k)
  <2>1. CASE log' = log
    BY <2>1, SameLatest
  <2>2. ASSUME NEW r \in Record, log' = Append(log, r), r.type \notin {"UPDATE", "CLR"}
        PROVE  Latest(k)' = Latest(k)
    <3>1. ~Changing(r, k)
      BY <2>2 DEF Changing
    <3> QED BY <1>0, <2>2, <3>1, AppendedLatest
  <2> QED BY <2>1, <2>2
<1>5. \A d \in Client : pc[d] \in {"set_clr", "undo_apply"} => log'[cursor[d]] = log[cursor[d]]
  <2> SUFFICES ASSUME NEW d \in Client, pc[d] \in {"set_clr", "undo_apply"}
               PROVE  log'[cursor[d]] = log[cursor[d]]
    OBVIOUS
  <2>1. cursor[d] \in 1 .. n
    BY <1>2, UndoesUpdate DEF Undoes
  <2> QED BY <1>3, <2>1
<1>6. TableRight'
  <2> SUFFICES ASSUME NEW k \in Key PROVE ToLog(ht[k]) = Latest(k)' \/ \E d \in Client : Late(d, k)'
    BY DEF TableRight
  <2>1. \A d \in Client : Late(d, k) => Late(d, k)'
    BY <1>5 DEF Late
  <2> QED BY <1>0, <1>4, <2>1 DEF TableRight
<1>7. ASSUME NEW d \in Client PROVE Holds(d)'
  <2>1. Holds(d)
    BY <1>0
  <2>2. OwnsUpdates(d)'
    <3> SUFFICES ASSUME txid[d] # 0, pc[d] # "unlock", NEW u \in UpdatesIn(log, txid[d])
                 PROVE  owner[StripeOf[log'[u].key]] = d
      BY <1>3 DEF OwnsUpdates, Owns
    <3>1. u \in 1 .. n
      BY <1>2, UpdatesAre
    <3>2. log'[u] = log[u]
      BY <1>3, <3>1
    <3> QED BY <2>1, <3>2 DEF Holds, OwnsUpdates, Owns
  <2>3. PICK k : k = cmd[d].key
    OBVIOUS
  <2>4. PICK j : j = log[cursor[d]].key
    OBVIOUS
  <2>5. Latest(k)' = Latest(k) /\ Latest(j)' = Latest(j)
    BY <1>4
  <2>6. pc[d] \in {"set_update", "apply"} => Latest(cmd[d].key)' = ToLog(cmd[d].val)
    <3>1. pc[d] \in {"set_update", "apply"} => Latest(k)' = ToLog(cmd[d].val)
      BY <2>1, <2>3, <2>5 DEF Holds
    <3> QED BY <2>3, <3>1
  <2>7. pc[d] \in {"set_clr", "undo_apply"} =>
          Latest(log[cursor[d]].key)' = log'[cursor[d]].old
    <3>1. pc[d] \in {"set_clr", "undo_apply"} => Latest(j)' = log[cursor[d]].old
      BY <2>1, <2>4, <2>5 DEF Holds
    <3>2. pc[d] \in {"set_clr", "undo_apply"} => log'[cursor[d]] = log[cursor[d]]
      BY <1>5
    <3>3. pc[d] \in {"set_clr", "undo_apply"} => j = log'[cursor'[d]].key
      BY <2>4, <3>2
    <3> QED BY <3>1, <3>2, <3>3
  <2>8. /\ pc[d] \in {"log", "set_update", "apply"} => Owns(d, cmd[d].key)'
        /\ pc[d] = "log" => old[d] = ht[cmd[d].key] /\ (cmd[d].val # None \/ old[d] # None)
    BY <2>1 DEF Holds, Owns
  <2> QED BY <2>2, <2>6, <2>7, <2>8 DEF Holds
<1> QED BY <1>1, <1>6, <1>7 DEF ValuesOK

\* Redoing the log from a line on completes what the log before that line leaves.
LEMMA RedoneIs ==
  ASSUME LockInv, Sound, NEW t \in Tables, NEW n \in 1 .. Len(log) + 1, NEW k \in Key,
         ToLog(t[k]) = Replayed(k, n)
  PROVE  ToLog(Redone(t, n)[k]) = Latest(k)
<1>0. /\ TypeOK /\ Len(log) \in Nat /\ DOMAIN log = 1 .. Len(log)
      /\ \A m : HasLog(log, m) <=> m \in 1 .. Len(log)
      /\ \A m \in 1 .. Len(log) : GetLog(log, m) = log[m] /\ log[m] \in Record
  BY SoundLines DEF LockInv
<1>1. PICK z \in Nat : z = Len(log) + 1
  BY <1>0
<1>2. n \in Nat /\ 1 <= n /\ n <= z
  BY <1>0, <1>1
<1>3. \A m : m \in ReadFrom(n) <=> m \in n .. Len(log)
  BY <1>0, <1>2 DEF ReadFrom
<1> DEFINE S == {m \in ReadFrom(n) :
                   GetLog(log, m).type \in {"UPDATE", "CLR"} /\ GetLog(log, m).key = k}
<1>4. Redone(t, n)[k] = IF S = {} THEN t[k] ELSE FromLog(GetLog(log, Max(S)).new)
  BY DEF Redone
<1>5. \A m : m \in S <=> m \in Changes(k) /\ n <= m
  BY <1>0, <1>2, <1>3 DEF Changes
<1>6. \A m \in Changes(k) : m \in 1 .. Len(log)
  BY <1>0 DEF Changes
<1> HIDE DEF S
<1>7. \A m : m \in Before(k, z) <=> m \in Changes(k)
  BY <1>0, <1>1, <1>6 DEF Before
<1>8. Latest(k) = Replayed(k, z)
  BY <1>1 DEF Latest
<1>9. CASE S = {}
  <2>1. Before(k, z) = Before(k, n)
    <3>1. \A m \in Changes(k) : m < n
      BY <1>0, <1>2, <1>5, <1>6, <1>9
    <3>2. \A m : m \in Before(k, n) <=> m \in Changes(k)
      BY <3>1 DEF Before
    <3> QED BY <1>7, <3>2
  <2>2. Replayed(k, z) = Replayed(k, n)
    BY <2>1 DEF Replayed, Before
  <2> QED BY <1>4, <1>8, <1>9, <2>2
<1>10. CASE S # {}
  <2>1. Before(k, z) # {}
    BY <1>5, <1>7, <1>10
  <2>2. PICK m \in Before(k, z) : IsLargest(Before(k, z), m)
    BY <1>0, <1>1, <2>1, ReplayedIs
  <2>3. Latest(k) = log[m].new
    BY <1>0, <1>1, <1>8, <2>2, ReplayedIs
  <2>4. m \in 1 .. Len(log) /\ m \in S
    <3>1. m \in Changes(k) /\ m \in 1 .. Len(log)
      BY <1>6, <1>7
    <3>2. PICK j \in S : TRUE
      BY <1>10
    <3>3. j \in Changes(k) /\ n <= j /\ j \in Before(k, z) /\ j \in 1 .. Len(log)
      BY <1>5, <1>6, <1>7
    <3>4. j <= m
      BY <2>2, <3>3 DEF IsLargest
    <3>5. n <= m
      BY <1>0, <1>2, <3>1, <3>3, <3>4
    <3> QED BY <1>5, <3>1, <3>5
  <2>5. S \in SUBSET Nat /\ IsLargest(S, m)
    <3>1. \A j \in S : j \in Before(k, z) /\ j \in 1 .. Len(log)
      BY <1>5, <1>6, <1>7
    <3> QED BY <1>0, <2>2, <2>4, <3>1 DEF IsLargest
  <2>6. Max(S) = m
    BY <2>5, LargestIs
  <2>7. log[m] \in Record /\ GetLog(log, m) = log[m]
    BY <1>0, <2>4
  <2>8. log[m].new \in LogValue
    BY <2>7 DEF Record
  <2>9. Redone(t, n)[k] = FromLog(log[m].new)
    BY <1>4, <1>10, <2>6, <2>7
  <2> QED BY <2>3, <2>8, <2>9, ThereAndBack
<1> QED BY <1>9, <1>10

\* So does a restart, from the snapshot of the last checkpoint or from nothing.
LEMMA RedoRight ==
  ASSUME LockInv, DiskTypeOK, CheckedInv, Sound, Restorable, Redo, server' = "up"
  PROVE  \A k \in Key : ToLog(ht'[k]) = Latest(k)
<1> SUFFICES ASSUME NEW k \in Key PROVE ToLog(ht'[k]) = Latest(k)
  OBVIOUS
<1>0. /\ TypeOK /\ Len(log) \in Nat /\ DOMAIN log = 1 .. Len(log)
      /\ \A m \in 1 .. Len(log) : log[m].lsn = m
  BY SoundLines DEF LockInv, Chained
<1>1. /\ ~CannotRedo
      /\ ht' = IF last_checked = Missing THEN Redone(EmptyTable, 1)
               ELSE Redone(snapshots[last_checked], last_checked + 1)
  BY DEF Redo
<1>2. CASE last_checked = Missing
  <2>1. EmptyTable \in Tables /\ EmptyTable[k] = None
    BY DEF EmptyTable, Tables, HtValue
  <2>2. Before(k, 1) = {}
    BY <1>0 DEF Before, Changes
  <2>3. Replayed(k, 1) = Empty
    BY <1>0, <2>2, ReplayedIs
  <2>4. ToLog(None) = Empty /\ 1 \in 1 .. Len(log) + 1
    BY <1>0 DEF ToLog
  <2> QED BY <1>1, <1>2, <2>1, <2>3, <2>4, RedoneIs
<1>3. CASE last_checked # Missing
  <2>1. last_checked \in Nat /\ last_checked > 0 /\ last_checked \in DOMAIN snapshots
    <3>1. last_checked \in {Missing, Blank} \cup (Nat \ {0}) /\ last_checked # Blank
      BY <1>1 DEF DiskTypeOK, CannotRedo
    <3>2. last_checked \in Nat /\ last_checked > 0
      BY <1>3, <3>1
    <3> QED BY <3>2 DEF CheckedInv
  <2>2. PICK i \in DOMAIN log : log[i].lsn = last_checked /\ log[i].type = "CHECK"
    BY <2>1 DEF CheckedInv, IsCheck
  <2>3. i = last_checked /\ last_checked \in 1 .. Len(log)
    BY <1>0, <2>2
  <2>4. ToLog(snapshots[last_checked][k]) = Replayed(k, last_checked)
    BY <1>3, <2>1 DEF Restorable, SnapRight
  <2>5. Before(k, last_checked + 1) = Before(k, last_checked)
    <3>1. \A m \in Changes(k) : m \in 1 .. Len(log) /\ m # last_checked
      BY <1>0, <2>2, <2>3 DEF Changes
    <3>2. \A m \in 1 .. Len(log) : m # last_checked => (m < last_checked + 1 <=> m < last_checked)
      BY <1>0, <2>1
    <3> QED BY <3>1, <3>2 DEF Before
  <2>6. Replayed(k, last_checked + 1) = Replayed(k, last_checked)
    BY <2>5 DEF Replayed, Before
  <2>7. snapshots[last_checked] \in Tables /\ last_checked + 1 \in 1 .. Len(log) + 1
    BY <1>0, <2>1, <2>3 DEF DiskTypeOK
  <2> QED BY <1>1, <1>3, <2>4, <2>6, <2>7, RedoneIs
<1> QED BY <1>2, <1>3

\* No client is at anything then.
LEMMA ValuesRedone ==
  ASSUME LockInv, DiskTypeOK, Alone, CheckedInv, Sound, Restorable, BeforeRight, Redo
  PROVE  ValuesOK'
<1>1. /\ log' = log /\ UNCHANGED <<pc, txid>> /\ server' \in {"up", "dead"}
      /\ \A c \in Client : pc[c] = "ready" /\ txid[c] = 0
  BY DEF Redo, Alone
<1>2. BeforeRight'
  BY <1>1, BeforeKept DEF LockInv
<1>3. server' = "up" => TableRight'
  <2> SUFFICES ASSUME server' = "up", NEW k \in Key PROVE ToLog(ht'[k]) = Latest(k)'
    BY DEF TableRight
  <2>1. ToLog(ht'[k]) = Latest(k)
    BY RedoRight
  <2> QED BY <1>1, <2>1, SameLatest
<1>4. \A c \in Client : Holds(c)'
  BY <1>1 DEF Holds, OwnsUpdates
<1> QED BY <1>2, <1>3, <1>4 DEF ValuesOK

(***************************************************************************)
(* What the analysis of a checkpoint comes to.                             *)
(***************************************************************************)
LEMMA ListDoneNext ==
  ASSUME server' \in {"analyze", "undo"} /\ rec'.check > 0 =>
           /\ rec'.check \in 1 .. Len(log')
           /\ \A n \in DOMAIN log'[rec'.check].list :
                \A tx : tx = log'[rec'.check].list[n].tx_id => Awaits(tx)' \/ HasEnded(tx)'
  PROVE  ListDone'
BY DEF ListDone

\* The checkpoint stays, and what a listed transaction has come to.
LEMMA ListDoneKept ==
  ASSUME LockInv, log' = log \/ \E r \in Record : log' = Append(log, r),
         ListDone, server \in {"analyze", "undo"}, rec'.check = rec.check,
         \A tx : Awaits(tx) => Awaits(tx)' \/ HasEnded(tx)'
  PROVE  ListDone'
<1>1. /\ Len(log) \in Nat /\ \A i \in 1 .. Len(log) : i \in 1 .. Len(log') /\ log'[i] = log[i]
  BY LogKeepsLines
<1>2. \A tx : HasEnded(tx) => HasEnded(tx)'
  BY <1>1 DEF HasEnded
<1>3. SUFFICES ASSUME rec.check > 0
               PROVE  /\ rec.check \in 1 .. Len(log')
                      /\ \A n \in DOMAIN log'[rec.check].list :
                           \A tx : tx = log'[rec.check].list[n].tx_id => Awaits(tx)' \/ HasEnded(tx)'
  BY ListDoneNext
<1>4. /\ rec.check \in 1 .. Len(log)
      /\ \A n \in DOMAIN log[rec.check].list :
           \A tx : tx = log[rec.check].list[n].tx_id => Awaits(tx) \/ HasEnded(tx)
  BY <1>3 DEF ListDone
<1>5. log'[rec.check] = log[rec.check] /\ rec.check \in 1 .. Len(log')
  BY <1>1, <1>4
<1> QED BY <1>2, <1>4, <1>5

LEMMA ListDoneStart ==
  ASSUME LockInv, CheckedInv, Sound, RecoverStart
  PROVE  ListDone'
<1>1. /\ log' = log /\ rec'.check = last_checked /\ rec'.todo = Listed(last_checked)
  BY DEF RecoverStart, NoRec
<1>2. SUFFICES ASSUME last_checked > 0
               PROVE  /\ last_checked \in 1 .. Len(log)
                      /\ \A n \in DOMAIN log[last_checked].list :
                           \A tx : tx = log[last_checked].list[n].tx_id => Awaits(tx)'
  BY <1>1, ListDoneNext
<1>3. /\ DOMAIN log = 1 .. Len(log) /\ \A m : HasLog(log, m) <=> m \in 1 .. Len(log)
      /\ \A m \in 1 .. Len(log) : GetLog(log, m) = log[m] /\ log[m].lsn = m
  BY SoundLines DEF Chained
<1>4. last_checked \in 1 .. Len(log)
  BY <1>2, <1>3 DEF CheckedInv, IsCheck
<1>5. rec'.todo = log[last_checked].list
  BY <1>1, <1>3, <1>4 DEF Listed
<1> QED BY <1>4, <1>5 DEF Awaits

\* A listed transaction that is found to have finished has ended.
LEMMA FinishedHasEnded ==
  ASSUME LockInv, DiskTypeOK, Sound, NEW entry \in Ongoing, Finished(entry), NEW tx,
         tx = entry.tx_id
  PROVE  HasEnded(tx)
<1>1. /\ \A m : HasLog(log, m) <=> m \in 1 .. Len(log)
      /\ \A m \in 1 .. Len(log) : GetLog(log, m) = log[m]
  BY SoundLines
<1>2. ASSUME NEW type \in {"COMMIT", "END"}, NEW n \in Found(entry, {type}) PROVE HasEnded(tx)
  <2>1. HasLog(log, n) /\ GetLog(log, n).tx = tx /\ GetLog(log, n).type = type
    BY <1>2, FoundIs
  <2> QED BY <1>1, <2>1 DEF HasEnded
<1> QED BY <1>2 DEF Finished

LEMMA ListDoneAnalyze ==
  ASSUME LockInv, DiskTypeOK, Sound, ListDone, Analyze,
         log' = log \/ \E r \in Record : log' = Append(log, r)
  PROVE  ListDone'
<1>1. /\ server = "analyze" /\ rec.todo # <<>> /\ rec.todo \in Seq(Ongoing) /\ rec \in RecType
      /\ Head(rec.todo) \in Ongoing
  BY AnalyzeTyped DEF Analyze, DiskTypeOK, RecType
<1>2. PICK entry \in Ongoing : entry = Head(rec.todo)
  BY <1>1
<1>3. /\ rec'.check = rec.check /\ rec'.todo = Tail(rec.todo)
      /\ Finished(entry) \/ (server' = "undo" /\ rec'.tx = entry.tx_id)
  BY <1>1, <1>2 DEF Analyze, NextListed, NoRec, RecType
<1>4. /\ Len(log) \in Nat /\ \A i \in 1 .. Len(log) : i \in 1 .. Len(log') /\ log'[i] = log[i]
  BY LogKeepsLines
<1>5. ASSUME NEW tx, Awaits(tx) PROVE Awaits(tx)' \/ HasEnded(tx)'
  <2>1. PICK n \in DOMAIN rec.todo : rec.todo[n].tx_id = tx
    BY <1>1, <1>5 DEF Awaits
  <2>2. CASE n = 1
    <3>1. entry.tx_id = tx
      BY <1>1, <1>2, <2>1, <2>2
    <3>2. CASE Finished(entry)
      <4>1. HasEnded(tx)
        BY <3>1, <3>2, FinishedHasEnded
      <4> QED BY <1>4, <4>1 DEF HasEnded
    <3>3. CASE server' = "undo" /\ rec'.tx = entry.tx_id
      BY <3>1, <3>3 DEF Awaits
    <3> QED BY <1>3, <3>2, <3>3
  <2>3. CASE n # 1
    <3>1. n - 1 \in DOMAIN Tail(rec.todo) /\ Tail(rec.todo)[n - 1] = rec.todo[n]
      BY <1>1, <2>1, <2>3
    <3> QED BY <1>3, <2>1, <3>1 DEF Awaits
  <2> QED BY <2>2, <2>3
<1> QED BY <1>1, <1>3, <1>5, ListDoneKept

LEMMA ListDoneUndo ==
  ASSUME LockInv, DiskTypeOK, Sound, ListDone, Undo,
         log' = log \/ \E r \in Record : log' = Append(log, r)
  PROVE  ListDone'
<1>1. server = "undo" /\ rec \in RecType
  BY DEF Undo, DiskTypeOK, RecType
<1>2. /\ rec'.check = rec.check /\ rec'.todo = rec.todo
      /\ \/ server' = "dead"
         \/ server' = "undo" /\ rec'.tx = rec.tx
         \/ log' = Append(log, TxRecord(lsn + 1, rec.cursor, rec.tx, "END"))
            /\ HasLog(log, rec.cursor)
  BY <1>1 DEF Undo, NextListed, NoRec, RecType, RecoveryLog
<1>3. CASE server' = "dead"
  BY <1>3, ListDoneNext
<1>4. CASE server' = "undo" /\ rec'.tx = rec.tx
  <2>1. \A tx : Awaits(tx) => Awaits(tx)'
    BY <1>1, <1>2, <1>4 DEF Awaits
  <2> QED BY <1>1, <1>2, <2>1, ListDoneKept
<1>5. CASE /\ log' = Append(log, TxRecord(lsn + 1, rec.cursor, rec.tx, "END"))
           /\ HasLog(log, rec.cursor)
  <2>1. PICK r \in Record : /\ log' = Append(log, r) /\ r.tx = rec.tx /\ r.type = "END"
    <3>1. TxRecord(lsn + 1, rec.cursor, rec.tx, "END") \in Record
      BY <1>5, UndoTyped
    <3> QED BY <1>5, <3>1 DEF TxRecord
  <2>2. /\ Len(log') \in 1 .. Len(log') /\ log'[Len(log')] = r
    <3>1. TypeOK
      BY DEF LockInv
    <3>2. Len(log) \in Nat /\ Len(log') = Len(log) + 1 /\ log'[Len(log) + 1] = r
      BY <2>1, <3>1, LogIsSeq, Appended
    <3> QED BY <3>2
  <2>3. ASSUME NEW tx, Awaits(tx) PROVE Awaits(tx)' \/ HasEnded(tx)'
    <3>1. CASE \E n \in DOMAIN rec.todo : rec.todo[n].tx_id = tx
      BY <1>2, <3>1 DEF Awaits
    <3>2. CASE rec.tx = tx
      BY <2>1, <2>2, <3>2 DEF HasEnded
    <3> QED BY <1>1, <2>3, <3>1, <3>2 DEF Awaits
  <2> QED BY <1>1, <1>2, <2>3, ListDoneKept
<1> QED BY <1>2, <1>3, <1>4, <1>5

(***************************************************************************)
(* Snapshots.                                                              *)
(***************************************************************************)

\* A CHECK record is looked for by its LSN, which is its line.
LEMMA CheckLine ==
  ASSUME LockInv, Sound, NEW n, IsCheck(n)
  PROVE  n \in 1 .. Len(log) /\ log[n].type = "CHECK"
BY SoundLines DEF IsCheck, Chained

LEMMA SnapKept ==
  ASSUME LockInv, SnapSame, log' = log \/ \E r \in Record : log' = Append(log, r),
         snapshots' = snapshots,
         \A p \in children' : \E q \in children : p.lsn = q.lsn /\ p.ht = q.ht
  PROVE  SnapSame'
<1>1. \A i \in 1 .. Len(log) : i \in 1 .. Len(log')
  BY LogKeepsLines
<1>2. \A n \in DOMAIN snapshots : n \in 1 .. Len(log')
  BY <1>1 DEF SnapSame
<1>3. \A p \in children' : p.lsn \in DOMAIN snapshots => snapshots[p.lsn] = p.ht
  BY DEF SnapSame
<1>4. ASSUME NEW p \in children', NEW q \in children', p.lsn = q.lsn PROVE p.ht = q.ht
  <2>1. PICK x \in children : p.lsn = x.lsn /\ p.ht = x.ht
    OBVIOUS
  <2>2. PICK y \in children : q.lsn = y.lsn /\ q.ht = y.ht
    OBVIOUS
  <2>3. x.lsn = y.lsn
    BY <1>4, <2>1, <2>2
  <2>4. x.ht = y.ht
    BY <2>3 DEF SnapSame
  <2> QED BY <2>1, <2>2, <2>4
<1> QED BY <1>2, <1>3, <1>4 DEF SnapSame

LEMMA SnapFork ==
  ASSUME LockInv, DiskTypeOK, CheckedInv, Sound, SnapSame, Fork, ~OneTwice'
  PROVE  SnapSame'
<1>1. /\ server = "up" /\ children' = children \cup {SnapshotProcess("snapshot")}
      /\ snapshots' = snapshots
  BY DEF Fork
<1>2. PICK r \in Record : log' = Append(log, r) /\ r.lsn = lsn + 1
  <2>1. PICK tail \in Uninitialised :
          /\ OngoingList \o tail \in Seq(Ongoing)
          /\ log' = Append(log, CheckRecord(lsn + 1, OngoingList \o tail))
    BY ForkIs
  <2>2. PICK list \in Seq(Ongoing) : log' = Append(log, CheckRecord(lsn + 1, list))
    BY <2>1
  <2> QED BY <2>2, CheckIs
<1>3. lsn = Len(log)
  BY <1>1, <1>2, NextLsn
<1>4. /\ SnapshotProcess("snapshot").lsn = Len(log) + 1 /\ Len(log) \in Nat
  BY <1>3, LogKeepsLines, <1>2 DEF SnapshotProcess
<1>5. \A p \in children : p.lsn \in 1 .. Len(log)
  BY CheckLine DEF CheckedInv
<1>6. \A i \in 1 .. Len(log) : i \in 1 .. Len(log') /\ i # Len(log) + 1
  BY <1>2, <1>4, LogKeepsLines
<1> DEFINE new == SnapshotProcess("snapshot")
<1> HIDE DEF new
<1>7. \A n \in DOMAIN snapshots : n \in 1 .. Len(log') /\ n # new.lsn
  BY <1>4, <1>6 DEF SnapSame, new
<1>8. \A p \in children : p.lsn # new.lsn
  BY <1>4, <1>5, <1>6 DEF new
<1>9. children' = children \cup {new}
  BY <1>1 DEF new
<1> QED BY <1>1, <1>7, <1>8, <1>9 DEF SnapSame

LEMMA SnapWritten ==
  ASSUME LockInv, DiskTypeOK, CheckedInv, Sound, SnapSame, WriteSnapshot
  PROVE  /\ SnapSame' /\ last_checked' = last_checked
         /\ \A n \in DOMAIN snapshots : n \in DOMAIN snapshots' /\ snapshots'[n] = snapshots[n]
<1>1. PICK p \in children :
        /\ p.pc = "snapshot"
        /\ snapshots' = [n \in DOMAIN snapshots \cup {p.lsn} |->
                           IF n = p.lsn THEN p.ht ELSE snapshots[n]]
        /\ Continues(p, IF last_checked = Missing THEN "create" ELSE "last_lsn")
        /\ UNCHANGED <<vars, last_checked, server, rec, crashes>>
  BY DEF WriteSnapshot
<1>2. \A q \in children' : \E x \in children : q.lsn = x.lsn /\ q.ht = x.ht
  <2>1. p \in Process
    BY DEF DiskTypeOK
  <2> QED BY <1>1, <2>1 DEF Continues, Process
<1>3. p.lsn \in 1 .. Len(log) /\ log' = log
  BY <1>1, CheckLine DEF CheckedInv
<1>4. \A n \in DOMAIN snapshots : n \in DOMAIN snapshots' /\ snapshots'[n] = snapshots[n]
  BY <1>1 DEF SnapSame
<1>5. \A n \in DOMAIN snapshots' : n \in 1 .. Len(log)
  BY <1>1, <1>3 DEF SnapSame
<1>6. \A x \in children : x.lsn \in DOMAIN snapshots' => snapshots'[x.lsn] = x.ht
  BY <1>1 DEF SnapSame
<1>7. ASSUME NEW q \in children', NEW z \in children', q.lsn = z.lsn PROVE q.ht = z.ht
  <2>1. PICK x \in children : q.lsn = x.lsn /\ q.ht = x.ht
    BY <1>2
  <2>2. PICK y \in children : z.lsn = y.lsn /\ z.ht = y.ht
    BY <1>2
  <2> QED BY <1>7, <2>1, <2>2 DEF SnapSame
<1>8. SnapSame'
  BY <1>2, <1>3, <1>5, <1>6, <1>7 DEF SnapSame
<1> QED BY <1>1, <1>4, <1>8

LEMMA SnapNext ==
  ASSUME LockInv, DiskTypeOK, CheckedInv, Sound, SnapSame, [RecoveryNext]_allVars, ~OneTwice',
         log' = log \/ \E r \in Record : log' = Append(log, r)
  PROVE  /\ SnapSame' /\ (last_checked # Missing => last_checked' # Missing)
         /\ \A n \in DOMAIN snapshots : n \in DOMAIN snapshots' /\ snapshots'[n] = snapshots[n]
<1>1. CASE Fork
  BY <1>1, SnapFork DEF Fork
<1>2. CASE WriteSnapshot
  BY <1>2, SnapWritten
<1>3. CASE CreateLastChecked \/ WriteLastChecked
  <2>1. PICK p \in children :
          /\ UNCHANGED snapshots
          /\ \/ Continues(p, "last_lsn") /\ last_checked' = Blank
             \/ children' = children \ {p} /\ last_checked' = p.lsn
    BY <1>3 DEF CreateLastChecked, WriteLastChecked
  <2>2. p \in Process /\ p.lsn \in Nat
    BY DEF DiskTypeOK, Process
  <2>3. last_checked' # Missing
    BY <2>1, <2>2 DEF Missing, Blank
  <2>4. \A q \in children' : \E x \in children : q.lsn = x.lsn /\ q.ht = x.ht
    BY <2>1, <2>2 DEF Continues, Process
  <2> QED BY <2>1, <2>3, <2>4, SnapKept
<1>4. CASE Crash
  <2>1. \A q \in children' : \E x \in children : q.lsn = x.lsn /\ q.ht = x.ht
    <3>1. PICK survive \in SUBSET children : children' = {[p EXCEPT !.own = FALSE] : p \in survive}
      BY <1>4 DEF Crash
    <3>2. \A p \in children : p \in Process
      BY DEF DiskTypeOK
    <3> QED BY <3>1, <3>2 DEF Process
  <2> QED BY <1>4, <2>1, SnapKept DEF Crash
<1>5. CASE \/ Running \/ RollbackFails \/ Checkpoint \/ RecoverStart \/ Analyze \/ Undo \/ Redo
           \/ UNCHANGED allVars
  <2>1. UNCHANGED <<snapshots, last_checked, children>>
    BY <1>5 DEF Running, RollbackFails, Checkpoint, RecoverStart, Analyze, Undo, Redo
  <2> QED BY <2>1, SnapKept
<1> QED BY <1>1, <1>2, <1>3, <1>4, <1>5 DEF RecoveryNext

(***************************************************************************)
(* The invariant's steps.                                                  *)
(***************************************************************************)
LEMMA ListInvInit == RecoveryInit => ListInv
<1> SUFFICES ASSUME RecoveryInit PROVE ListDone /\ SnapSame
  BY DEF ListInv
<1>1. server = "up" /\ DOMAIN snapshots = {} /\ children = {}
  BY DEF RecoveryInit
<1> QED BY <1>1 DEF ListDone, SnapSame

LEMMA ListInvNext ==
  ASSUME RecoveryInv, RollInv, ListInv, [RecoveryNext]_allVars
  PROVE  ListInv'
<1> SUFFICES ASSUME Exact' PROVE ListDone' /\ SnapSame'
  BY DEF ListInv
<1>1. LockInv /\ DiskTypeOK /\ Types /\ CheckedInv
  BY DEF RecoveryInv, Types
<1>2. log' = log \/ \E r \in Record : log' = Append(log, r)
  BY <1>1, LogOnlyGrows
<1>3. Exact /\ ~OneTwice'
  BY <1>1, <1>2, ExactKept
<1>4. Sound /\ ListDone /\ SnapSame
  BY <1>3 DEF RollInv, ListInv
<1>5. SnapSame'
  BY <1>1, <1>2, <1>3, <1>4, SnapNext
<1>6. ListDone'
  <2>1. CASE RecoverStart
    BY <1>1, <1>4, <2>1, ListDoneStart
  <2>2. CASE Analyze
    BY <1>1, <1>2, <1>4, <2>2, ListDoneAnalyze
  <2>3. CASE Undo
    BY <1>1, <1>2, <1>4, <2>3, ListDoneUndo
  <2>4. CASE Running \/ RollbackFails \/ Checkpoint \/ Fork \/ Crash \/ Redo
    <3>1. server' \notin {"analyze", "undo"}
      BY <2>4 DEF Running, RollbackFails, Checkpoint, Fork, Crash, Redo
    <3> QED BY <3>1, ListDoneNext
  <2>5. CASE WriteSnapshot \/ CreateLastChecked \/ WriteLastChecked \/ UNCHANGED allVars
    <3>1. UNCHANGED <<log, server, rec>>
      BY <2>5 DEF WriteSnapshot, CreateLastChecked, WriteLastChecked
    <3>2. \A tx : Awaits(tx) => Awaits(tx)'
      BY <3>1 DEF Awaits
    <3>3. CASE server \in {"analyze", "undo"}
      BY <1>1, <1>4, <3>1, <3>2, <3>3, ListDoneKept
    <3>4. CASE server \notin {"analyze", "undo"}
      BY <3>1, <3>4, ListDoneNext
    <3> QED BY <3>3, <3>4
  <2> QED BY <2>1, <2>2, <2>3, <2>4, <2>5 DEF RecoveryNext
<1> QED BY <1>5, <1>6

\* Snapshots that are right now always were: none is written over with another
\* table, and what the log before them leaves does not change.
LEMMA RestorableKept ==
  ASSUME LockInv, DiskTypeOK, CheckedInv, Sound, SnapSame, [RecoveryNext]_allVars, ~OneTwice',
         log' = log \/ \E r \in Record : log' = Append(log, r), Restorable'
  PROVE  Restorable
<1> SUFFICES ASSUME last_checked # Missing, NEW n \in DOMAIN snapshots, NEW k \in Key
             PROVE  ToLog(snapshots[n][k]) = Replayed(k, n)
  BY DEF Restorable, SnapRight
<1>1. last_checked' # Missing /\ n \in DOMAIN snapshots' /\ snapshots'[n] = snapshots[n]
  BY SnapNext
<1>2. ToLog(snapshots[n][k]) = Replayed(k, n)'
  BY <1>1 DEF Restorable, SnapRight
<1>3. n \in 1 .. Len(log) /\ TypeOK
  BY DEF SnapSame, LockInv
<1>4. Replayed(k, n)' = Replayed(k, n)
  <2>1. CASE log' = log
    BY <2>1, SameLatest
  <2>2. ASSUME NEW r \in Record, log' = Append(log, r) PROVE Replayed(k, n)' = Replayed(k, n)
    <3>1. \A i \in 1 .. Len(log) + 1 : Replayed(k, i)' = Replayed(k, i)
      BY <1>3, <2>2, AppendedLatest
    <3>2. n \in 1 .. Len(log) + 1
      BY <1>3, LogIsSeq
    <3> QED BY <3>1, <3>2
  <2> QED BY <2>1, <2>2
<1> QED BY <1>2, <1>4

LEMMA TableInvInit == RecoveryInit => TableInv
<1> SUFFICES ASSUME RecoveryInit PROVE SetsValue /\ ValuesOK
  BY DEF TableInv
<1>1. /\ log = <<>> /\ \A c \in Client : pc[c] = "ready" /\ txid[c] = 0 /\ cmd[c].op = "none"
      /\ \A k \in Key : ht[k] = None
  BY DEF RecoveryInit, Init, NoThread, NoCmd
<1>2. SetsValue
  BY <1>1 DEF SetsValue
<1>3. BeforeRight
  BY <1>1 DEF BeforeRight
<1>4. \A k \in Key : ToLog(ht[k]) = Latest(k)
  <2>1. \A k : Changes(k) = {}
    BY <1>1 DEF Changes
  <2>2. \A k : Replayed(k, Len(log) + 1) = Empty
    BY <2>1 DEF Replayed
  <2> QED BY <1>1, <2>2 DEF Latest, ToLog
<1>5. \A c \in Client : Holds(c)
  BY <1>1 DEF Holds, OwnsUpdates
<1> QED BY <1>2, <1>3, <1>4, <1>5 DEF ValuesOK, TableRight

LEMMA TableInvNext ==
  ASSUME Empty \notin Value, RecoveryInv, RollInv, ListInv, TableInv, [RecoveryNext]_allVars
  PROVE  TableInv'
<1> SUFFICES ASSUME Exact', Restorable' PROVE SetsValue' /\ ValuesOK'
  BY DEF TableInv
<1>1. LockInv /\ DiskTypeOK /\ Types /\ Alone /\ IdsInv /\ CheckedInv /\ TypeOK
  BY DEF RecoveryInv, Types, LockInv
<1>2. log' = log \/ \E r \in Record : log' = Append(log, r)
  BY <1>1, LogOnlyGrows
<1>3. Exact /\ ~OneTwice'
  BY <1>1, <1>2, ExactKept
<1>4. Sound /\ SnapSame
  BY <1>3 DEF RollInv, ListInv
<1>5. Restorable
  BY <1>1, <1>2, <1>3, <1>4, RestorableKept
<1>6. SetsValue /\ ValuesOK
  BY <1>3, <1>5 DEF TableInv
<1>7. BeforeRight
  BY <1>6 DEF ValuesOK
<1>8. CASE Running
  BY <1>1, <1>3, <1>4, <1>6, <1>8, ValuesRunning, SetsKept
<1>9. CASE Redo
  <2>1. cmd' = cmd
    BY <1>9 DEF Redo
  <2> QED BY <1>1, <1>4, <1>5, <1>6, <1>7, <1>9, <2>1, ValuesRedone DEF SetsValue
<1>10. ASSUME server' \notin {"up"}, SetsValue',
              log' = log \/ \E r \in Record : log' = Append(log, r) /\ r.type # "UPDATE"
       PROVE  SetsValue' /\ ValuesOK'
  BY <1>1, <1>7, <1>10, BeforeKept DEF ValuesOK
<1>11. CASE Crash \/ RecoverStart \/ RollbackFails
  <2>1. log' = log /\ server' # "up" /\ (cmd' = cmd \/ cmd' = [c \in Client |-> NoCmd])
    BY <1>11 DEF Crash, RecoverStart, RollbackFails
  <2>2. SetsValue'
    BY <1>6, <2>1 DEF SetsValue, NoCmd
  <2> QED BY <1>10, <2>1, <2>2
<1>12. CASE Analyze
  <2>1. cmd' = cmd /\ server' # "up"
    BY <1>12 DEF Analyze
  <2>2. log' = log \/ \E r \in Record : log' = Append(log, r) /\ r.type # "UPDATE"
    <3> DEFINE r == TxRecord(lsn + 1, LastFound(Head(rec.todo)), Head(rec.todo).tx_id, "ABORT")
    <3>1. log' = log \/ (r \in Record /\ log' = Append(log, r))
      BY <1>1, <1>12, AnalyzeIs
    <3>2. r.type = "ABORT"
      BY DEF TxRecord
    <3> HIDE DEF r
    <3> QED BY <3>1, <3>2
  <2>3. SetsValue'
    BY <1>6, <2>1 DEF SetsValue
  <2> QED BY <1>10, <2>1, <2>2, <2>3
<1>13. CASE Undo
  <2>1. cmd' = cmd /\ server' # "up"
    BY <1>13 DEF Undo
  <2>2. log' = log \/ \E r \in Record : log' = Append(log, r) /\ r.type # "UPDATE"
    BY <1>1, <1>13, UndoIs
  <2>3. SetsValue'
    BY <1>6, <2>1 DEF SetsValue
  <2> QED BY <1>10, <2>1, <2>2, <2>3
<1>14. CASE Fork
  <2>1. UNCHANGED <<ht, owner, pc, cmd, txid, old, cursor>> /\ server = "up"
    BY <1>14 DEF Fork, CkptLog
  <2>2. PICK list \in Seq(Ongoing) : log' = Append(log, CheckRecord(lsn + 1, list))
    BY <1>1, <1>14, ForkIs
  <2>3. \E r \in Record : log' = Append(log, r) /\ r.type \notin {"UPDATE", "CLR"}
    BY <1>1, <2>2, CheckIs
  <2> QED BY <1>1, <1>4, <1>6, <2>1, <2>3, ValuesKept DEF SetsValue
<1>15. CASE \/ Checkpoint \/ WriteSnapshot \/ CreateLastChecked \/ WriteLastChecked
            \/ UNCHANGED allVars
  <2>1. UNCHANGED <<log, ht, owner, pc, cmd, txid, old, cursor, server>>
    BY <1>15 DEF Checkpoint, CkptBegin, WriteSnapshot, CreateLastChecked, WriteLastChecked
  <2>2. SetsValue'
    BY <1>6, <2>1 DEF SetsValue
  <2>3. CASE server = "up"
    BY <1>1, <1>4, <1>6, <2>1, <2>2, <2>3, ValuesKept
  <2>4. CASE server # "up"
    BY <1>10, <2>1, <2>2, <2>4
  <2> QED BY <2>3, <2>4
<1> QED BY <1>8, <1>9, <1>11, <1>12, <1>13, <1>14, <1>15 DEF RecoveryNext

(***************************************************************************)
(* A log of transactions that have all ended leaves what those that        *)
(* committed have stored.                                                  *)
(***************************************************************************)

\* The last update that a committed transaction has logged of key k before line i.
WinsBefore(k, i) == {u \in UpdatesOf(log, Winners(log), k) : u < i}
CommittedBefore(k, i) ==
  IF WinsBefore(k, i) = {} THEN Empty ELSE log[Max(WinsBefore(k, i))].new

\* Whoever updated key k before line i has ended before it.
Settled(k, i) ==
  \A u \in 1 .. i - 1 : log[u].type = "UPDATE" /\ log[u].key = k => EndedBefore(log[u].tx, i)

\* A compensation stands behind its transaction's updates and before its end,
\* and a transaction that has one has not committed.
LEMMA ClrStands ==
  ASSUME LockInv, Sound, Shape(log), NEW r \in 1 .. Len(log), log[r].type = "CLR"
  PROVE  /\ log[r].tx # 0
         /\ \A u \in Of(log, log[r].tx) : log[u].type = "UPDATE" => u < r
         /\ \A j \in Of(log, log[r].tx) : log[j].type # "COMMIT" /\ (log[j].type = "END" => r < j)
<1>0. Len(log) \in Nat /\ \A i \in 1 .. Len(log) : Chained(i) /\ Placed(log, i)
  BY SoundLines DEF Shape
<1>1. /\ log[r].tx # 0 /\ \A j \in Earlier(log, r) : log[j].type \notin {"COMMIT", "END"}
      /\ \E a \in Earlier(log, r) : log[a].type = "ABORT"
  BY <1>0 DEF Placed
<1>2. ASSUME NEW u \in Of(log, log[r].tx), log[u].type = "UPDATE" PROVE u < r
  <2>1. u \in 1 .. Len(log) /\ log[u].tx = log[r].tx
    BY DEF Of
  <2>2. \A j \in Earlier(log, u) : log[j].type \in Working
    BY <1>0, <1>1, <1>2, <2>1 DEF Placed
  <2>3. r \notin Earlier(log, u)
    BY <2>2 DEF Working
  <2>4. u # r /\ ~(r < u)
    BY <1>0, <1>2, <2>1, <2>3 DEF Earlier
  <2> QED BY <1>0, <2>1, <2>4
<1>3. ASSUME NEW j \in Of(log, log[r].tx), log[j].type \in {"COMMIT", "END"} PROVE r < j
  <2>1. j \in 1 .. Len(log) /\ log[j].tx = log[r].tx
    BY DEF Of
  <2>2. j # r /\ ~(j < r)
    BY <1>0, <1>1, <1>3, <2>1 DEF Earlier
  <2> QED BY <1>0, <2>1, <2>2
<1>4. ASSUME NEW j \in Of(log, log[r].tx), log[j].type = "COMMIT" PROVE FALSE
  <2>1. j \in 1 .. Len(log) /\ log[j].tx = log[r].tx /\ r < j
    BY <1>3, <1>4 DEF Of
  <2>2. PICK a \in Earlier(log, r) : log[a].type = "ABORT"
    BY <1>1
  <2>3. a \in 1 .. j - 1 /\ log[a].tx = log[j].tx
    BY <1>0, <2>1 DEF Earlier
  <2>4. "COMMIT" \notin Unwinding
    BY DEF Unwinding
  <2> QED BY <1>0, <1>1, <1>4, <2>1, <2>2, <2>3, <2>4 DEF Chained
<1> QED BY <1>1, <1>2, <1>3, <1>4

\* A transaction's updates are compensated one by one, each by a record of its own.
LEMMA OnceEach ==
  ASSUME LockInv, Sound, Shape(log), NEW tx, tx # 0,
         NEW u \in UpdatesIn(log, tx), NEW w \in UpdatesIn(log, tx),
         NEW r, Compensates(r, log[u]), Compensates(r, log[w])
  PROVE  u = w
<1>1. Len(log) \in Nat /\ u \in 1 .. Len(log) /\ w \in 1 .. Len(log)
  BY SoundLines, UpdatesAre
<1>2. log[u].prev = log[w].prev
  BY DEF Compensates
<1>3. ~(u < w) /\ ~(w < u)
  BY <1>1, <1>2, PrevsDiffer
<1> QED BY <1>1, <1>3

\* Once its transaction has ended, the last compensation of a key undoes the
\* transaction's first update of it.
LEMMA FirstUndone ==
  ASSUME LockInv, Sound, Shape(log), NEW m \in 1 .. Len(log), log[m].type = "CLR",
         NEW e \in Of(log, log[m].tx), log[e].type = "END",
         \A r \in Of(log, log[m].tx) : log[r].type = "CLR" /\ log[r].key = log[m].key => r <= m
  PROVE  \E u \in UpdatesIn(log, log[m].tx) :
           /\ u < m /\ Compensates(log[m], log[u])
           /\ \A w \in UpdatesIn(log, log[m].tx) : log[w].key = log[m].key => u <= w
<1>0. /\ Len(log) \in Nat
      /\ \A i \in 1 .. Len(log) : Progress(log, i) /\ InTurn(log, i)
  BY SoundLines DEF Shape
<1>1. PICK tx : tx = log[m].tx
  OBVIOUS
<1>2. tx # 0 /\ e \in 1 .. Len(log) /\ log[e].tx = tx
  BY <1>1, ClrStands DEF Of
<1>3. \A w \in UpdatesIn(log, tx) : Single(ClrsOf(log, w))
  BY <1>0, <1>2 DEF Progress
<1>4. PICK u \in Earlier(log, m) : log[u].type = "UPDATE" /\ Compensates(log[m], log[u])
  BY <1>0 DEF InTurn
<1>5. u \in UpdatesIn(log, tx) /\ u < m /\ u \in 1 .. Len(log) /\ log[u].tx = tx
  BY <1>0, <1>1, <1>4, UpdatesAre DEF Earlier
<1>6. SUFFICES ASSUME NEW w \in UpdatesIn(log, tx), log[w].key = log[m].key, ~(u <= w)
               PROVE  FALSE
  BY <1>1, <1>4, <1>5
<1>7. /\ w \in 1 .. Len(log) /\ log[w].tx = tx /\ log[w].type = "UPDATE" /\ w < u
      /\ log[w].tx = log[u].tx
  BY <1>0, <1>5, <1>6, UpdatesAre
<1>8. PICK r \in ClrsOf(log, w) : TRUE
  BY <1>3 DEF Single
<1>9. /\ r \in 1 .. Len(log) /\ log[r].tx = tx /\ log[r].type = "CLR" /\ log[r].key = log[m].key
      /\ Compensates(log[r], log[w]) /\ r \in Of(log, tx)
  BY <1>6, <1>7, <1>8 DEF ClrsOf, Of, Compensates
<1>10. r <= m
  BY <1>1, <1>9
<1>11. r # m
  <2>1. ASSUME r = m PROVE FALSE
    <3>1. Compensates(log[m], log[w])
      BY <1>9, <2>1
    <3>2. u = w
      BY <1>2, <1>4, <1>5, <3>1, OnceEach
    <3> QED BY <1>0, <1>7, <3>2
  <2> QED BY <2>1
<1>12. u < r
  BY <1>5, <1>9, ClrStands DEF Of, UpdatesIn
<1>13. PICK v \in Earlier(log, r) :
         /\ log[v].type = "UPDATE" /\ Compensates(log[r], log[v])
         /\ \A x \in Earlier(log, r) : log[x].type = "UPDATE" /\ x > v =>
              \E y \in Earlier(log, r) : Compensates(log[y], log[x])
  BY <1>0, <1>9 DEF InTurn
<1>14. v = w
  <2>1. v \in UpdatesIn(log, tx)
    BY <1>0, <1>9, <1>13, UpdatesAre DEF Earlier
  <2> QED BY <1>2, <1>9, <1>13, <2>1, OnceEach
<1>15. u \in Earlier(log, r) /\ u > w
  BY <1>0, <1>5, <1>7, <1>9, <1>12 DEF Earlier
<1>16. PICK y \in Earlier(log, r) : Compensates(log[y], log[u])
  BY <1>4, <1>13, <1>14, <1>15
<1>17. y \in ClrsOf(log, u) /\ m \in ClrsOf(log, u) /\ y < r
  BY <1>0, <1>1, <1>4, <1>5, <1>9, <1>16 DEF ClrsOf, Of, Earlier
<1>18. y = m
  BY <1>3, <1>5, <1>17 DEF Single
<1> QED BY <1>0, <1>9, <1>10, <1>17, <1>18

\* The changes of a key before a line, and those of them that committed.
LEMMA WinsAre ==
  ASSUME LockInv, Sound, NEW k, NEW i \in 1 .. Len(log) + 1
  PROVE  /\ \A u : u \in Before(k, i) <=>
              u \in 1 .. Len(log) /\ u < i /\ log[u].type \in {"UPDATE", "CLR"} /\ log[u].key = k
         /\ \A u : u \in WinsBefore(k, i) <=>
              /\ u \in 1 .. Len(log) /\ u < i /\ log[u].type = "UPDATE" /\ log[u].key = k
              /\ \E j \in Of(log, log[u].tx) : log[j].type = "COMMIT"
         /\ WinsBefore(k, i) \in SUBSET Nat
<1>0. Len(log) \in Nat /\ DOMAIN log = 1 .. Len(log)
  BY SoundLines
<1>1. \A tx : tx \in Winners(log) <=> \E j \in Of(log, tx) : log[j].type = "COMMIT"
  BY <1>0 DEF Winners, Of
<1> QED BY <1>0, <1>1 DEF Before, Changes, WinsBefore, UpdatesOf

LEMMA EndedIs ==
  ASSUME LockInv, Sound, NEW tx, NEW i \in 1 .. Len(log) + 1, EndedBefore(tx, i)
  PROVE  \E j \in Of(log, tx) : j < i /\ log[j].type \in {"COMMIT", "END"}
<1>0. Len(log) \in Nat
  BY SoundLines
<1>1. PICK j \in 1 .. i - 1 : log[j].tx = tx /\ log[j].type \in {"COMMIT", "END"}
  BY DEF EndedBefore, RecordsBefore
<1>2. j \in 1 .. Len(log) /\ j < i
  BY <1>0, <1>1
<1> QED BY <1>1, <1>2 DEF Of

\* The key's last change is an update: its transaction has committed.
LEMMA LastIsUpdate ==
  ASSUME LockInv, Sound, Shape(log), NEW k, NEW i \in 1 .. Len(log) + 1, Settled(k, i),
         NEW m, IsLargest(Before(k, i), m), log[m].type = "UPDATE"
  PROVE  CommittedBefore(k, i) = log[m].new
<1>0. Len(log) \in Nat /\ i \in Nat
  BY SoundLines
<1>1. /\ m \in 1 .. Len(log) /\ m < i /\ log[m].key = k
      /\ \A r \in Before(k, i) : r <= m
  BY WinsAre DEF IsLargest
<1>2. PICK tx : tx = log[m].tx
  OBVIOUS
<1>3. EndedBefore(tx, i)
  BY <1>0, <1>1, <1>2 DEF Settled
<1>4. PICK j \in Of(log, tx) : j < i /\ log[j].type \in {"COMMIT", "END"}
  BY <1>3, EndedIs
<1>5. log[j].type # "END"
  <2> SUFFICES ASSUME log[j].type = "END" PROVE FALSE
    OBVIOUS
  <2>1. m \in UpdatesIn(log, tx) /\ j \in 1 .. Len(log) /\ log[j].tx = tx
    BY <1>1, <1>2, <1>4, UpdatesAre DEF Of
  <2>2. Single(ClrsOf(log, m))
    BY <2>1 DEF Shape, Progress
  <2>3. PICK r \in ClrsOf(log, m) : TRUE
    BY <2>2 DEF Single
  <2>4. r \in 1 .. Len(log) /\ log[r].tx = tx /\ log[r].type = "CLR" /\ log[r].key = k
    BY <1>1, <1>2, <2>3 DEF ClrsOf, Of, Compensates
  <2>5. m < r /\ r < j
    BY <1>1, <1>2, <1>4, <2>4, ClrStands DEF Of
  <2>6. r \in Before(k, i)
    BY <1>0, <1>4, <2>1, <2>4, <2>5, WinsAre
  <2> QED BY <1>0, <1>1, <2>4, <2>5, <2>6
<1>6. m \in WinsBefore(k, i)
  BY <1>1, <1>2, <1>4, <1>5, WinsAre
<1>7. \A u \in WinsBefore(k, i) : u \in Before(k, i)
  BY WinsAre
<1>8. IsLargest(WinsBefore(k, i), m)
  BY <1>1, <1>6, <1>7 DEF IsLargest
<1>9. Max(WinsBefore(k, i)) = m
  BY <1>8, WinsAre, LargestIs
<1> QED BY <1>6, <1>9 DEF CommittedBefore

\* It is a compensation: what the key is given back it had when everything
\* logged of it had ended, and nobody has committed an update of it since.
LEMMA LastIsClr ==
  ASSUME LockInv, Sound, Shape(log), BeforeRight, StrictLog,
         NEW k, NEW i \in 1 .. Len(log) + 1, Settled(k, i),
         NEW m, IsLargest(Before(k, i), m), log[m].type = "CLR"
  PROVE  \E u \in 1 .. i - 1 :
           /\ Settled(k, u) /\ log[m].new = Replayed(k, u)
           /\ CommittedBefore(k, i) = CommittedBefore(k, u)
<1>0. Len(log) \in Nat /\ DOMAIN log = 1 .. Len(log) /\ i \in Nat
  BY SoundLines
<1>1. /\ m \in 1 .. Len(log) /\ m < i /\ log[m].key = k
      /\ \A r \in Before(k, i) : r <= m
  BY WinsAre DEF IsLargest
<1>2. PICK tx : tx = log[m].tx
  OBVIOUS
<1>3. /\ tx # 0 /\ \A u \in Of(log, tx) : log[u].type = "UPDATE" => u < m
      /\ \A j \in Of(log, tx) : log[j].type # "COMMIT" /\ (log[j].type = "END" => m < j)
  BY <1>1, <1>2, ClrStands
<1>4. PICK e \in Of(log, tx) : e < i /\ log[e].type = "END"
  <2>1. PICK v \in Earlier(log, m) : log[v].type = "UPDATE" /\ Compensates(log[m], log[v])
    BY <1>1 DEF Shape, InTurn
  <2>2. v \in 1 .. i - 1 /\ log[v].key = k /\ log[v].tx = tx
    BY <1>0, <1>1, <1>2, <2>1 DEF Earlier, Compensates
  <2>3. EndedBefore(tx, i)
    BY <2>1, <2>2 DEF Settled
  <2>4. PICK e \in Of(log, tx) : e < i /\ log[e].type \in {"COMMIT", "END"}
    BY <2>3, EndedIs
  <2> QED BY <1>3, <2>4
<1>5. \A r \in Of(log, tx) : log[r].type = "CLR" /\ log[r].key = k => r <= m
  <2> SUFFICES ASSUME NEW r \in Of(log, tx), log[r].type = "CLR", log[r].key = k PROVE r <= m
    OBVIOUS
  <2>1. r \in 1 .. Len(log) /\ log[r].tx = tx
    BY DEF Of
  <2>2. r < e
    BY <1>4, <2>1, ClrStands
  <2>3. e \in 1 .. Len(log)
    BY DEF Of
  <2>4. r < i
    BY <1>0, <1>4, <2>1, <2>2, <2>3
  <2>5. r \in Before(k, i)
    BY <2>1, <2>4, WinsAre
  <2> QED BY <1>1, <2>5
<1>6. PICK u \in UpdatesIn(log, tx) :
        /\ u < m /\ Compensates(log[m], log[u])
        /\ \A w \in UpdatesIn(log, tx) : log[w].key = k => u <= w
  BY <1>1, <1>2, <1>4, <1>5, FirstUndone
<1>7. /\ u \in 1 .. Len(log) /\ log[u].tx = tx /\ log[u].type = "UPDATE" /\ log[u].key = k
      /\ log[m].new = log[u].old /\ u \in 1 .. i - 1 /\ u \in 1 .. Len(log) + 1
  <2>1. u \in 1 .. Len(log) /\ log[u].tx = tx /\ log[u].type = "UPDATE"
    BY UpdatesAre
  <2>2. u < i
    BY <1>0, <1>1, <1>6, <2>1
  <2> QED BY <1>0, <1>1, <1>6, <2>1, <2>2 DEF Compensates
<1>8. log[m].new = Replayed(k, u)
  BY <1>7 DEF BeforeRight
<1>9. Settled(k, u)
  <2> SUFFICES ASSUME NEW v \in 1 .. u - 1, log[v].type = "UPDATE", log[v].key = k
               PROVE  EndedBefore(log[v].tx, u)
    BY DEF Settled
  <2>1. v \in 1 .. Len(log) /\ v < u
    BY <1>0, <1>7
  <2>2. log[v].tx # tx
    <3>1. v \notin UpdatesIn(log, tx)
      BY <1>0, <1>6, <1>7, <2>1
    <3> QED BY <2>1, <3>1, UpdatesAre
  <2> QED BY <1>0, <1>7, <2>1, <2>2 DEF StrictLog
<1>10. \A v : v \in WinsBefore(k, i) <=> v \in WinsBefore(k, u)
  <2>1. ASSUME NEW v \in WinsBefore(k, i) PROVE v < u
    <3> SUFFICES ASSUME ~(v < u) PROVE FALSE
      OBVIOUS
    <3>1. /\ v \in 1 .. Len(log) /\ v < i /\ log[v].type = "UPDATE" /\ log[v].key = k
          /\ \E j \in Of(log, log[v].tx) : log[j].type = "COMMIT"
      BY <2>1, WinsAre
    <3>2. log[v].tx # tx
      BY <1>3, <3>1
    <3>3. u < v
      BY <1>0, <1>7, <3>1, <3>2
    <3>4. EndedBefore(tx, v)
      BY <1>0, <1>7, <3>1, <3>2, <3>3 DEF StrictLog
    <3>5. v \in 1 .. Len(log) + 1
      BY <1>0, <3>1
    <3>6. PICK j \in Of(log, tx) : j < v /\ log[j].type \in {"COMMIT", "END"}
      BY <3>4, <3>5, EndedIs
    <3>7. m < j /\ j \in 1 .. Len(log)
      BY <1>3, <3>6 DEF Of
    <3>8. v \in Before(k, i)
      BY <3>1, WinsAre
    <3> QED BY <1>0, <1>1, <3>1, <3>6, <3>7, <3>8
  <2>2. \A v : v \in WinsBefore(k, i) => v \in WinsBefore(k, u)
    BY <1>7, <2>1, WinsAre
  <2>3. ASSUME NEW v \in WinsBefore(k, u) PROVE v \in WinsBefore(k, i)
    <3>1. /\ v \in 1 .. Len(log) /\ v < u /\ log[v].type = "UPDATE" /\ log[v].key = k
          /\ \E j \in Of(log, log[v].tx) : log[j].type = "COMMIT"
      BY <1>7, <2>3, WinsAre
    <3>2. v < i
      BY <1>0, <1>7, <3>1
    <3> QED BY <3>1, <3>2, WinsAre
  <2> QED BY <2>2, <2>3
<1>11. WinsBefore(k, i) = WinsBefore(k, u)
  BY <1>10
<1>12. CommittedBefore(k, i) = CommittedBefore(k, u)
  BY <1>11 DEF CommittedBefore
<1> QED BY <1>7, <1>8, <1>9, <1>12

LEMMA SettledStep ==
  ASSUME LockInv, Sound, Shape(log), BeforeRight, StrictLog,
         NEW k, NEW i \in 1 .. Len(log) + 1, Settled(k, i),
         \A j \in 1 .. i - 1 : Settled(k, j) => Replayed(k, j) = CommittedBefore(k, j)
  PROVE  Replayed(k, i) = CommittedBefore(k, i)
<1>0. Len(log) \in Nat /\ i \in Nat /\ TypeOK
  BY SoundLines DEF LockInv
<1>1. CASE Before(k, i) = {}
  <2>1. \A u : u \in WinsBefore(k, i) => u \in Before(k, i)
    BY WinsAre
  <2>2. WinsBefore(k, i) = {}
    BY <1>1, <2>1
  <2>3. Replayed(k, i) = Empty
    BY <1>0, <1>1, ReplayedIs
  <2> QED BY <2>2, <2>3 DEF CommittedBefore
<1>2. CASE Before(k, i) # {}
  <2>1. PICK m \in Before(k, i) : IsLargest(Before(k, i), m)
    BY <1>0, <1>2, ReplayedIs
  <2>2. Replayed(k, i) = log[m].new
    BY <1>0, <2>1, ReplayedIs
  <2>3. log[m].type \in {"UPDATE", "CLR"}
    BY WinsAre
  <2>4. CASE log[m].type = "UPDATE"
    BY <2>1, <2>2, <2>4, LastIsUpdate
  <2>5. CASE log[m].type = "CLR"
    BY <2>1, <2>2, <2>5, LastIsClr
  <2> QED BY <2>3, <2>4, <2>5
<1> QED BY <1>1, <1>2

LEMMA SettledIsCommitted ==
  ASSUME LockInv, Sound, Shape(log), BeforeRight, StrictLog,
         NEW k, NEW i \in 1 .. Len(log) + 1, Settled(k, i)
  PROVE  Replayed(k, i) = CommittedBefore(k, i)
<1> DEFINE Wrong == {j \in 1 .. Len(log) + 1 :
                       Settled(k, j) /\ Replayed(k, j) # CommittedBefore(k, j)}
<1>0. Len(log) \in Nat
  BY SoundLines
<1>1. Wrong \in SUBSET Nat
  BY <1>0
<1>2. ASSUME Wrong # {} PROVE FALSE
  <2>1. PICK j \in Wrong : IsSmallest(Wrong, j)
    <3> HIDE DEF Wrong
    <3> QED BY <1>1, <1>2, SmallestExists
  <2>2. j \in 1 .. Len(log) + 1 /\ Settled(k, j) /\ Replayed(k, j) # CommittedBefore(k, j)
    OBVIOUS
  <2>3. ASSUME NEW x \in 1 .. j - 1, Settled(k, x) PROVE Replayed(k, x) = CommittedBefore(k, x)
    <3>1. x \in 1 .. Len(log) + 1 /\ ~(j <= x)
      BY <1>0, <2>2
    <3>2. x \notin Wrong
      BY <2>1, <3>1 DEF IsSmallest
    <3> QED BY <2>3, <3>1, <3>2
  <2> QED BY <2>2, <2>3, SettledStep
<1> QED BY <1>2

\* What recovery has analysed has ended.
LEMMA AllEnded ==
  ASSUME LockInv, DiskTypeOK, CheckedInv, Sound, ListDone, Recoverable,
         server = "analyze", rec.todo = <<>>, NEW i \in 1 .. Len(log), log[i].tx # 0
  PROVE  EndedBefore(log[i].tx, Len(log) + 1)
<1>0. Len(log) \in Nat /\ DOMAIN log = 1 .. Len(log)
  BY SoundLines
<1>1. PICK tx : tx = log[i].tx
  OBVIOUS
<1>2. tx \in Transactions
  BY <1>0, <1>1 DEF Transactions
<1>3. CASE RecordsBefore(tx, CheckedLsn) = {}
  BY <1>1, <1>2, <1>3 DEF Recoverable
<1>4. CASE RecordsBefore(tx, CheckedLsn) # {}
  <2>1. CheckedLsn = last_checked /\ last_checked > 0
    <3>1. CheckedLsn # 0
      BY <1>4 DEF RecordsBefore
    <3> QED BY <3>1 DEF CheckedLsn
  <2>2. last_checked \in 1 .. Len(log) /\ log[last_checked].type = "CHECK"
    BY <2>1, CheckLine DEF CheckedInv
  <2>3. rec.check = last_checked /\ ListsExactly(last_checked)
    BY <1>0, <2>2 DEF Recoverable
  <2>4. CASE EndedBefore(tx, last_checked)
    <3>1. PICK j \in 1 .. last_checked - 1 : log[j].tx = tx /\ log[j].type \in {"COMMIT", "END"}
      BY <2>4 DEF EndedBefore, RecordsBefore
    <3>2. j \in 1 .. Len(log) + 1 - 1
      BY <1>0, <2>2
    <3> QED BY <1>1, <3>1, <3>2 DEF EndedBefore, RecordsBefore
  <2>5. CASE ~EndedBefore(tx, last_checked)
    <3>1. tx \in Unfinished(last_checked)
      BY <1>2, <1>4, <2>1, <2>5 DEF Unfinished
    <3>2. tx \in ListedTxs(last_checked)
      BY <2>3, <3>1 DEF ListsExactly
    <3>3. PICK n \in DOMAIN log[last_checked].list : log[last_checked].list[n].tx_id = tx
      BY <3>2 DEF ListedTxs
    <3>4. Awaits(tx) \/ HasEnded(tx)
      BY <2>1, <2>3, <3>3 DEF ListDone
    <3>5. ~Awaits(tx)
      BY DEF Awaits
    <3>6. PICK j \in 1 .. Len(log) : log[j].tx = tx /\ log[j].type \in {"COMMIT", "END"}
      BY <3>4, <3>5 DEF HasEnded
    <3>7. j \in 1 .. Len(log) + 1 - 1
      BY <1>0
    <3> QED BY <1>1, <3>6, <3>7 DEF EndedBefore, RecordsBefore
  <2> QED BY <2>4, <2>5
<1> QED BY <1>3, <1>4

LEMMA LatestIsCommitted ==
  ASSUME LockInv, DiskTypeOK, CheckedInv, Sound, Shape(log), BeforeRight, ListDone, Recoverable,
         server = "analyze", rec.todo = <<>>, NEW k \in Key
  PROVE  Latest(k) = ToLog(Committed(log)[k])
<1>0. /\ Len(log) \in Nat /\ DOMAIN log = 1 .. Len(log) /\ log \in Seq(Record)
      /\ \A i \in 1 .. Len(log) : log[i] \in Record /\ Placed(log, i)
  BY SoundLines DEF LockInv, TypeOK, Shape
<1>1. PICK n \in 1 .. Len(log) + 1 : n = Len(log) + 1
  BY <1>0
<1>2. Settled(k, n)
  <2> SUFFICES ASSUME NEW u \in 1 .. n - 1, log[u].type = "UPDATE"
               PROVE  EndedBefore(log[u].tx, n)
    BY DEF Settled
  <2>1. u \in 1 .. Len(log)
    BY <1>0, <1>1
  <2>2. log[u].tx # 0
    BY <1>0, <2>1 DEF Placed
  <2> QED BY <1>1, <2>1, <2>2, AllEnded
<1>3. Replayed(k, n) = CommittedBefore(k, n)
  BY <1>2, SettledIsCommitted DEF Recoverable
<1>4. WinsBefore(k, n) = UpdatesOf(log, Winners(log), k)
  <2>1. \A u \in UpdatesOf(log, Winners(log), k) : u < n
    BY <1>0, <1>1 DEF UpdatesOf
  <2> QED BY <2>1 DEF WinsBefore
<1> DEFINE wins == UpdatesOf(log, Winners(log), k)
<1>5. wins \in SUBSET Nat /\ wins \in SUBSET (1 .. Len(log))
  BY <1>0 DEF UpdatesOf
<1>6. /\ wins = {} => Committed(log)[k] = None
      /\ \A m : IsLargest(wins, m) => Committed(log)[k] = FromLog(log[m].new)
      /\ wins # {} => \E m \in wins : IsLargest(wins, m)
  BY <1>0, CommittedIs
<1> HIDE DEF wins
<1>7. CASE wins = {}
  BY <1>1, <1>3, <1>4, <1>6, <1>7 DEF Latest, CommittedBefore, wins, ToLog
<1>8. CASE wins # {}
  <2>1. PICK m \in wins : IsLargest(wins, m)
    BY <1>6, <1>8
  <2>2. Max(wins) = m
    BY <1>5, <2>1, LargestIs
  <2>3. Committed(log)[k] = FromLog(log[m].new)
    BY <1>6, <2>1
  <2>4. log[m].new \in LogValue
    BY <1>0, <1>5 DEF Record
  <2>5. CommittedBefore(k, n) = log[m].new
    BY <1>4, <1>8, <2>2 DEF CommittedBefore, wins
  <2> QED BY <1>1, <1>3, <2>3, <2>4, <2>5, ThereAndBack DEF Latest
<1> QED BY <1>7, <1>8

\* The snapshot a restart takes is one that holds what the log leaves.
LEMMA RestorableNow ==
  ASSUME DiskTypeOK, Recoverable, ~CannotRedo
  PROVE  Restorable
<1>1. last_checked # Missing => CheckedLsn > 0
  <2>1. last_checked # Blank /\ last_checked \in {Missing, Blank} \cup (Nat \ {0})
    BY DEF CannotRedo, DiskTypeOK
  <2> QED BY <2>1 DEF CheckedLsn
<1> QED BY <1>1 DEF Restorable, SnapRight, Recoverable

\* The restarted server's table.
LEMMA RecoveredIs ==
  ASSUME Empty \notin Value, Types, CheckedInv, Sound, Shape(log), BeforeRight,
         ListDone, Recoverable, Redo, server = "analyze", server' = "up"
  PROVE  ht' = Committed(log)
<1>0. LockInv /\ DiskTypeOK
  BY DEF Types
<1>1. ht' \in Tables
  BY RedoTyped
<1>2. Restorable
  BY <1>0, RestorableNow DEF Redo
<1>3. rec.todo = <<>>
  BY DEF Redo
<1>4. ASSUME NEW k \in Key PROVE ht'[k] = Committed(log)[k]
  <2>1. ToLog(ht'[k]) = Latest(k)
    BY <1>0, <1>2, RedoRight
  <2>2. Latest(k) = ToLog(Committed(log)[k])
    BY <1>0, <1>3, LatestIsCommitted
  <2>3. ht'[k] \in HtValue /\ Committed(log)[k] \in HtValue
    BY <1>0, <1>1, CommittedType DEF Tables, LockInv
  <2> QED BY <2>1, <2>2, <2>3, BackAndThere
<1>5. Committed(log) = [k \in Key |-> Committed(log)[k]]
  BY DEF Committed
<1>6. ht' = [k \in Key |-> ht'[k]]
  BY <1>1 DEF Tables
<1> HIDE DEF Committed
<1> QED BY <1>4, <1>5, <1>6

(***************************************************************************)
(* The theorems.                                                           *)
(***************************************************************************)
LEMMA RecoveryInvInit == RecoveryInit => RecoveryInv
<1>1. RecoveryInit => Alone
  BY DEF RecoveryInit, Alone
<1> QED BY <1>1, TypesInit, IdsInit, CheckedInit, SoundInit DEF RecoveryInv

LEMMA RecoveryInvNext == RecoveryInv /\ [RecoveryNext]_allVars => RecoveryInv'
BY TypesNext, AloneNext, IdsNext, CheckedNext, SoundNext DEF RecoveryInv

LEMMA RecoveryInvAlways == RecoverySpec => []RecoveryInv
BY RecoveryInvInit, RecoveryInvNext, PTL DEF RecoverySpec

\* README.md, tx_id.kvdb: no two transactions of the log have the same id,
\* however often the server crashes and however the crash falls on a
\* transaction that has its id and not yet its BEGIN record.
THEOREM IdsUnique == RecoverySpec => []TxIdsUnique
<1>1. RecoveryInv => TxIdsUnique
  BY DEF RecoveryInv, IdsInv
<1> QED BY <1>1, RecoveryInvAlways, PTL

\* Wherever a crash falls among the steps of the snapshot processes, also of
\* one that outlived its server, last_checked_lsn.kvdb names a CHECK record of
\* the log and a snapshot file that is complete.
THEOREM CheckedFound == RecoverySpec => []CheckedIsThere
<1>1. RecoveryInv => CheckedIsThere
  <2> SUFFICES ASSUME RecoveryInv, LsnsUnique, CheckedLsn > 0
               PROVE  /\ CheckedLsn \in DOMAIN snapshots
                      /\ CheckedLsn \in DOMAIN log /\ log[CheckedLsn].type = "CHECK"
    BY DEF CheckedIsThere
  <2>1. last_checked > 0 /\ CheckedLsn = last_checked
    BY DEF CheckedLsn, RecoveryInv, Types, DiskTypeOK, Missing, Blank
  <2>2. last_checked \in DOMAIN snapshots /\ IsCheck(last_checked)
    BY <2>1 DEF RecoveryInv, CheckedInv
  <2>3. PICK i \in DOMAIN log : log[i].lsn = last_checked /\ log[i].type = "CHECK"
    BY <2>2 DEF IsCheck
  <2>4. i = last_checked
    BY <2>3 DEF LsnsUnique
  <2> QED BY <2>1, <2>2, <2>3, <2>4
<1> QED BY <1>1, RecoveryInvAlways, PTL

\* The server process dies of what it reads back only of an empty
\* last_checked_lsn.kvdb or of a log that misleads it: the rollback of a
\* running server, the rollback of a restart and the redo find what they read.
THEOREM DiesOnly == RecoverySpec => DiesOnlyOf
<1>1. RecoveryInv /\ [RecoveryNext]_allVars =>
        [server # "dead" /\ server' = "dead" => last_checked = Blank \/ Misled]_allVars
  <2> SUFFICES ASSUME RecoveryInv, [RecoveryNext]_allVars, server # "dead", server' = "dead",
                      last_checked # Blank, ~Misled
               PROVE  FALSE
    OBVIOUS
  <2>1. LockInv /\ DiskTypeOK /\ CheckedInv /\ Sound
    BY DEF RecoveryInv, Types
  <2>2. \A n : HasLog(log, n) <=> n \in 1 .. Len(log)
    BY <2>1, SoundLines
  <2>3. ~RollbackFails
    <3> SUFFICES ASSUME NEW c \in Client, pc[c] = "rollback", ~HasLog(log, cursor[c])
                 PROVE  FALSE
      BY DEF RollbackFails, At
    <3>1. OwnRecord(log, cursor[c], txid[c])
      BY <2>1 DEF Sound, Knows
    <3> QED BY <2>2, <3>1 DEF OwnRecord
  <2>4. ~Undo
    <3> SUFFICES ASSUME Undo PROVE FALSE
      OBVIOUS
    <3>1. OwnRecord(log, rec.cursor, rec.tx)
      BY <2>1 DEF Sound, RecKnows, Undo
    <3>2. HasLog(log, rec.cursor)
      BY <2>2, <3>1 DEF OwnRecord
    <3> QED BY <3>2 DEF Undo
  <2>5. ~Redo
    <3>1. ~CannotRedo
      BY <2>1 DEF CannotRedo, CheckedInv
    <3> QED BY <3>1 DEF Redo
  <2>6. \/ Running \/ Checkpoint \/ Fork \/ WriteSnapshot \/ CreateLastChecked
        \/ WriteLastChecked \/ Crash \/ RecoverStart \/ Analyze \/ UNCHANGED allVars
    BY <2>3, <2>4, <2>5 DEF RecoveryNext
  <2> QED BY <2>6 DEF Running, Checkpoint, Fork, WriteSnapshot, CreateLastChecked,
                      WriteLastChecked, Crash, RecoverStart, Analyze
<1> QED BY <1>1, RecoveryInvAlways, PTL DEF RecoverySpec, DiesOnlyOf

\* However often the server crashes, also in the middle of a rollback of its own
\* or of a restart, a restarted server whose checkpoints were exact finds each
\* update of a transaction that has logged END compensated exactly once.
THEOREM UndoneOnce == RecoverySpec => UndoesOnce
<1>1. RecoveryInv /\ RollInv /\ [RecoveryNext]_allVars =>
        [Restarted /\ Recoverable => RolledBack]_allVars
  <2> SUFFICES ASSUME RecoveryInv, RollInv, Recoverable PROVE RolledBack
    OBVIOUS
  <2>1. LockInv /\ Exact
    BY ExactlyIsExact DEF RecoveryInv, Types, Recoverable
  <2>2. Sound /\ Good
    BY <2>1 DEF RollInv
  <2>3. Shape(log) /\ Len(log) \in Nat /\ DOMAIN log = 1 .. Len(log)
    BY <2>1, <2>2, SoundLines DEF Good
  <2> QED BY <2>3, ShapeRollsBack
<1> QED BY <1>1, RecoveryInvAlways, RollInit, RollNext, PTL DEF RecoverySpec, UndoesOnce

\* README.md: after a failure the log restores the system.  However often the
\* server crashes, also in the middle of a rollback or of a restart, a restarted
\* server whose checkpoints were exact has in its table what the transactions
\* that committed have stored, and nothing else.  Nobody may store the
\* zero-length value, which is logged as the absence of one.
THEOREM Recovered ==
  ASSUME Empty \notin Value
  PROVE  RecoverySpec => RecoversCommitted
<1> DEFINE Inv == RecoveryInv /\ RollInv /\ ListInv /\ TableInv
<1>1. RecoveryInit => Inv
  BY RecoveryInvInit, RollInit, ListInvInit, TableInvInit
<1>2. Inv /\ [RecoveryNext]_allVars => Inv'
  BY RecoveryInvNext, RollNext, ListInvNext, TableInvNext
<1>3. Inv /\ [RecoveryNext]_allVars => [Restarted /\ Recoverable => ht' = Committed(log)]_allVars
  <2> SUFFICES ASSUME Inv, [RecoveryNext]_allVars, Restarted, Recoverable PROVE ht' = Committed(log)
    OBVIOUS
  <2>1. Types /\ LockInv /\ DiskTypeOK /\ CheckedInv /\ Exact
    BY ExactlyIsExact DEF RecoveryInv, Types, Recoverable
  <2>2. Sound /\ Shape(log) /\ ListDone
    BY <2>1 DEF RollInv, ListInv, Good
  <2>3. server = "analyze" /\ server' = "up" /\ Redo
    BY DEF Restarted, RecoveryNext, Running, RollbackFails, Checkpoint, Fork, WriteSnapshot,
           CreateLastChecked, WriteLastChecked, Crash, RecoverStart, Analyze, Undo
  <2>4. Restorable
    BY <2>1, <2>3, RestorableNow DEF Redo
  <2>5. BeforeRight
    BY <2>1, <2>4 DEF TableInv, ValuesOK
  <2> QED BY <2>1, <2>2, <2>3, <2>5, RecoveredIs
<1> QED BY <1>1, <1>2, <1>3, PTL DEF RecoverySpec, RecoversCommitted
=============================================================================
