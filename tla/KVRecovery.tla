---------------------------- MODULE KVRecovery ----------------------------
(***************************************************************************)
(* The server across crashes: KVTxn, the snapshot process that each        *)
(* checkpoint forks, the crash of the whole process at any point, and the  *)
(* restart: kv_recovery_recover, which appends to the log what rolls the   *)
(* unfinished transactions back, then kv_recovery_redo, which builds the   *)
(* hash table from the last snapshot and the log.                          *)
(*                                                                         *)
(* A crash loses memory and no file: every record is flushed before        *)
(* lsn_lock is released, and every transaction id before tx_lock is.  It   *)
(* may come in the middle of a recovery.  A snapshot process may go with   *)
(* the server or outlive it, and then writes its files beside the next.    *)
(***************************************************************************)
EXTENDS KVTxn

CONSTANT MaxCrash     \* bound on the crashes

(***************************************************************************)
(* A transaction's id as tx_id.kvdb has it: eight digits, the highest one  *)
(* first.                                                                  *)
(***************************************************************************)
Place == <<268435456, 16777216, 1048576, 65536, 4096, 256, 16, 1>>

Hex(id) == [i \in 1 .. 8 |-> (id \div Place[i]) % 16]

FromHex(d) ==
  d[1] * Place[1] + d[2] * Place[2] + d[3] * Place[3] + d[4] * Place[4]
  + d[5] * Place[5] + d[6] * Place[6] + d[7] * Place[7] + d[8] * Place[8]

\* It has eight digits: it is an uint32_t.
HasEightDigits(id) == id \div Place[1] < 16

ASSUME RecoveryConstants == MaxCrash \in Nat /\ HasEightDigits(MaxTx)

VARIABLES
  snapshots,      \* the snapshot files: from the LSN in the name to the table
  last_checked,   \* last_checked_lsn.kvdb
  children,       \* the snapshot processes, also those of servers that are gone
  server,         \* the phase the server process is in
  rec,            \* the locals of kv_recovery_recover
  crashes         \* crashes so far

diskVars == <<snapshots, last_checked>>
recoveryVars == <<snapshots, last_checked, children, server, rec, crashes>>
allVars == <<vars, recoveryVars>>

Missing == -1     \* there is no last_checked_lsn.kvdb
Blank   == -2     \* it is created and not yet written

EmptyTable == [k \in Key |-> None]
NoRec == [check |-> Missing, todo |-> <<>>, tx |-> 0, last |-> 0, cursor |-> 0]

RecoveryInit ==
  /\ Init
  /\ snapshots = [n \in {} |-> EmptyTable]
  /\ last_checked = Missing
  /\ children = {}
  /\ server = "up"
  /\ rec = NoRec
  /\ crashes = 0

(***************************************************************************)
(* Running: the steps of KVTxn, a checkpoint also forking the snapshot     *)
(* process, which the snapshot thread waits for.                           *)
(***************************************************************************)
Running ==
  /\ server = "up"
  /\ \E c \in Client : Receiving(c) \/ Executing(c)
  /\ UNCHANGED recoveryVars

\* The process exits when a rollback does not find its record.
RollbackFails ==
  /\ server = "up"
  /\ \E c \in Client : At(c, "rollback") /\ ~HasLog(log, cursor[c])
  /\ server' = "dead"
  /\ UNCHANGED <<vars, diskVars, children, rec, crashes>>

Checkpoint ==
  /\ server = "up" /\ ~\E p \in children : p.own
  /\ CkptBegin
  /\ UNCHANGED recoveryVars

SnapshotProcess(at) == [pc |-> at, lsn |-> lsn + 1, ht |-> ht, own |-> TRUE]

ForkLsnFirst ==   \* mutant: last_checked_lsn.kvdb is written before the snapshot
  /\ server = "up" /\ CkptLog
  /\ children' = children \cup {SnapshotProcess("last_lsn")}
  /\ UNCHANGED <<diskVars, server, rec, crashes>>

\* fork() is under the locks: the child's hash table is the parent's.
Fork ==
  /\ server = "up"
  /\ CkptLog
  /\ children' = children \cup {SnapshotProcess("snapshot")}
  /\ UNCHANGED <<diskVars, server, rec, crashes>>

Continues(p, at) == children' = (children \ {p}) \cup {[p EXCEPT !.pc = at]}

\* The snapshot file is written and closed before last_checked_lsn.kvdb is
\* touched; that file is created empty when it is not there.
WriteSnapshot ==
  \E p \in children :
    /\ p.pc = "snapshot"
    /\ snapshots' = [n \in DOMAIN snapshots \cup {p.lsn} |->
                       IF n = p.lsn THEN p.ht ELSE snapshots[n]]
    /\ Continues(p, IF last_checked = Missing THEN "create" ELSE "last_lsn")
    /\ UNCHANGED <<vars, last_checked, server, rec, crashes>>

CreateLastChecked ==
  \E p \in children :
    /\ p.pc = "create"
    /\ last_checked' = Blank
    /\ Continues(p, "last_lsn")
    /\ UNCHANGED <<vars, snapshots, server, rec, crashes>>

WriteLastChecked ==
  \E p \in children :
    /\ p.pc = "last_lsn"
    /\ last_checked' = p.lsn
    /\ children' = children \ {p}
    /\ UNCHANGED <<vars, snapshots, server, rec, crashes>>

(***************************************************************************)
(* Crash: the server stops and its memory is lost; what snapshot processes *)
(* there are go with it or not.                                            *)
(***************************************************************************)
Crash ==
  /\ server # "dead" /\ crashes < MaxCrash
  /\ crashes' = crashes + 1
  /\ server' = "down"
  /\ lsn' = 0 /\ tx_list' = <<>> /\ ht' = EmptyTable
  /\ owner' = [s \in Stripe |-> NoOwner] /\ lock_count' = [s \in Stripe |-> 0]
  /\ ckpt' = [held |-> FALSE, size |-> 0]
  /\ pc' = [c \in Client |-> "ready"] /\ cmd' = [c \in Client |-> NoCmd]
  /\ txid' = NoThread /\ last_lsn' = NoThread /\ held' = NoLocks
  /\ new_lsn' = NoThread /\ old' = [c \in Client |-> None] /\ cursor' = NoThread
  /\ \E survive \in SUBSET children :
       children' = {[p EXCEPT !.own = FALSE] : p \in survive}
  /\ rec' = NoRec
  /\ UNCHANGED <<log, transaction_id, diskVars>>

(***************************************************************************)
(* kv_recovery_recover.                                                    *)
(***************************************************************************)

\* The last LSN is read back from the last line, which is looked for from the
\* end of the file until a line end: with one line there is none to be found.
LastLsn == IF Len(log) <= 1 THEN 0 ELSE log[Len(log)].lsn

Listed(check) == IF HasLog(log, check) THEN GetLog(log, check).list ELSE <<>>

\* last_checked_lsn.kvdb is read here and, by the redo, once more.
RecoverStart ==
  /\ server = "down"
  /\ lsn' = LastLsn
  /\ rec' = [NoRec EXCEPT !.check = last_checked, !.todo = Listed(last_checked)]
  /\ server' = "analyze"
  /\ UNCHANGED <<log, transaction_id, tx_list, ht, lockVars, ckpt, pc, cmd, txid, last_lsn,
                 new_lsn, old, cursor, diskVars, children, crashes>>

\* The LSNs that are read one after the other from n on, until one is missing.
ReadFrom(n) == {m \in n .. n + Len(log) : \A i \in n .. m : HasLog(log, i)}

\* What the analysis of a listed transaction finds of it behind the checkpoint
\* and behind the last LSN listed for it.
Larger(m, n) == IF m > n THEN m ELSE n

Found(entry, types) ==
  {n \in ReadFrom(Larger(rec.check, entry.last_lsn) + 1) :
     GetLog(log, n).tx = entry.tx_id /\ GetLog(log, n).type \in types}

AbortStartedNever(entry) == FALSE   \* mutant: the rollback begins again
AbortStarted(entry) == Found(entry, {"ABORT"}) # {}

FinishedAborted(entry) == Found(entry, {"COMMIT", "ABORT"}) # {}   \* mutant: END is not waited for

Finished(entry) ==
  \/ Found(entry, {"COMMIT"}) # {}
  \/ \E a \in Found(entry, {"ABORT"}), e \in Found(entry, {"END"}) : a < e

LastFound(entry) ==
  LET found == Found(entry, LogType)
  IN  IF found = {} THEN entry.last_lsn ELSE Max(found)

\* A record recovery itself appends: it runs before any other thread.
RecoveryLog(record) ==
  /\ lsn < MaxLsn
  /\ lsn' = lsn + 1
  /\ log' = Append(log, record)

NextListed(todo) == [NoRec EXCEPT !.check = rec.check, !.todo = todo]

\* The next listed transaction: left alone when it has finished, rolled back
\* behind a new ABORT record when it had not begun to abort, and else from
\* where its own rollback stopped.
Analyze ==
  /\ server = "analyze" /\ rec.todo # <<>>
  /\ LET entry == Head(rec.todo)
         last  == LastFound(entry)
         undo(n) == [rec EXCEPT !.todo = Tail(rec.todo), !.tx = entry.tx_id,
                                !.last = last, !.cursor = n]
     IN  \/ /\ Finished(entry)
            /\ rec' = NextListed(Tail(rec.todo))
            /\ UNCHANGED <<log, lsn, server>>
         \/ /\ ~Finished(entry) /\ ~AbortStarted(entry)
            /\ RecoveryLog(TxRecord(lsn + 1, last, entry.tx_id, "ABORT"))
            /\ rec' = undo(lsn + 1)
            /\ server' = "undo"
         \/ /\ ~Finished(entry) /\ AbortStarted(entry)
            /\ rec' = undo(IF GetLog(log, last).type = "ABORT"
                           THEN GetLog(log, last).prev ELSE GetLog(log, last).undo_next)
            /\ server' = "undo"
            /\ UNCHANGED <<log, lsn>>
  /\ UNCHANGED <<transaction_id, tx_list, ht, lockVars, ckpt, pc, cmd, txid, last_lsn,
                 new_lsn, old, cursor, diskVars, children, crashes>>

\* One record on the way back to the transaction's BEGIN.  NULL from
\* kv_recovery_get_log is dereferenced: the process dies.
Undo ==
  /\ server = "undo"
  /\ LET r == GetLog(log, rec.cursor) IN
       \/ /\ ~HasLog(log, rec.cursor)
          /\ server' = "dead"
          /\ UNCHANGED <<log, lsn, rec>>
       \/ /\ HasLog(log, rec.cursor) /\ r.type = "BEGIN"
          /\ RecoveryLog(TxRecord(lsn + 1, rec.cursor, rec.tx, "END"))
          /\ rec' = NextListed(rec.todo)
          /\ server' = "analyze"
       \/ /\ HasLog(log, rec.cursor) /\ r.type = "UPDATE"
          /\ RecoveryLog(DataRecord(lsn + 1, rec.last, rec.tx, "CLR", r.prev,
                                    r.key, r.new, r.old))
          /\ rec' = [rec EXCEPT !.last = lsn + 1, !.cursor = r.prev]
          /\ UNCHANGED server
       \/ /\ HasLog(log, rec.cursor) /\ r.type \notin {"BEGIN", "UPDATE"}
          /\ rec' = [rec EXCEPT !.cursor = r.prev]
          /\ UNCHANGED <<log, lsn, server>>
  /\ UNCHANGED <<transaction_id, tx_list, ht, lockVars, ckpt, pc, cmd, txid, last_lsn,
                 new_lsn, old, cursor, diskVars, children, crashes>>

(***************************************************************************)
(* kv_recovery_redo, kv_recovery_init, kv_txm_init.                        *)
(***************************************************************************)

\* The table the records with LSNs from n on make of a table: for each key,
\* what the last of them that carries it stores.
Redone(table, n) ==
  [k \in Key |->
     LET changes == {m \in ReadFrom(n) :
                       GetLog(log, m).type \in {"UPDATE", "CLR"} /\ GetLog(log, m).key = k}
     IN  IF changes = {} THEN table[k] ELSE FromLog(GetLog(log, Max(changes)).new)]

\* An empty last_checked_lsn.kvdb and a snapshot that is not there end the
\* process.
CannotRedo == last_checked = Blank \/ (last_checked > 0 /\ last_checked \notin DOMAIN snapshots)

LastTxIdNone == 0   \* mutant: ids start again

\* From the last line of tx_id.kvdb, which every id issued was appended to.
LastTxId == FromHex(Hex(transaction_id))

Redo ==
  /\ server = "analyze" /\ rec.todo = <<>>
  /\ \/ CannotRedo /\ server' = "dead" /\ UNCHANGED ht
     \/ /\ ~CannotRedo
        /\ ht' = IF last_checked = Missing THEN Redone(EmptyTable, 1)
                 ELSE Redone(snapshots[last_checked], last_checked + 1)
        /\ server' = "up"
  /\ transaction_id' = LastTxId
  /\ rec' = NoRec
  /\ UNCHANGED <<logVars, tx_list, lockVars, ckpt, pc, cmd, txid, last_lsn,
                 new_lsn, old, cursor, diskVars, children, crashes>>

RecoveryNext ==
  \/ Running \/ RollbackFails
  \/ Checkpoint \/ Fork \/ WriteSnapshot \/ CreateLastChecked \/ WriteLastChecked
  \/ Crash \/ RecoverStart \/ Analyze \/ Undo \/ Redo

RecoverySpec == RecoveryInit /\ [][RecoveryNext]_allVars

(***************************************************************************)
(* What a restart must achieve.                                            *)
(***************************************************************************)
Restarted == server = "analyze" /\ server' = "up"

Transactions == {log[i].tx : i \in DOMAIN log} \ {0}
EndedBefore(tx, i) == \E j \in RecordsBefore(tx, i) : log[j].type \in {"COMMIT", "END"}
LsnsUnique == \A i \in DOMAIN log : log[i].lsn = i
CheckedLsn == IF last_checked > 0 THEN last_checked ELSE 0

\* The transactions whose records before the checkpoint end with neither COMMIT
\* nor END, and those the checkpoint lists.
Unfinished(check) ==
  {tx \in Transactions : RecordsBefore(tx, check) # {} /\ ~EndedBefore(tx, check)}

ListedTxs(check) == {log[check].list[n].tx_id : n \in DOMAIN log[check].list}

\* A checkpoint describes the log before it: it lists the unfinished
\* transactions, none of them aborting, each with its last record.
ListsExactly(check) ==
  /\ Unfinished(check) = ListedTxs(check)
  /\ \A n \in DOMAIN log[check].list :
       LET entry == log[check].list[n]
           mine  == RecordsBefore(entry.tx_id, check)
       IN  /\ entry.last_lsn = Max(mine)
           /\ \A j \in mine : log[j].type # "ABORT"

\* The log of transactions under locks: a key is updated by another transaction
\* only after the one that updated it before has ended.  It is lost when a
\* restart leaves a transaction as it is.
StrictLog ==
  \A i, j \in DOMAIN log :
    /\ i < j /\ log[j].type = "UPDATE" /\ log[i].tx # log[j].tx
    /\ log[i].type = "UPDATE" /\ log[i].key = log[j].key
    => EndedBefore(log[i].tx, j)

\* What recovery relies on: the checkpoints of the log are exact, a snapshot
\* holds what the log before it makes of the table (also one that only a restart
\* before used: what it got wrong is in later before-images), a transaction
\* that began behind the last one has ended, no restart before left one as it
\* was, and the checkpoint that was analysed is the one the redo begins from,
\* which a snapshot process that outlives its server may change in between.
Recoverable ==
  /\ LsnsUnique
  /\ \A i \in DOMAIN log : log[i].type = "CHECK" => ListsExactly(i)
  /\ CheckedLsn > 0 =>
       \A n \in DOMAIN snapshots : \A k \in Key : ToLog(snapshots[n][k]) = Replayed(k, n)
  /\ \A tx \in Transactions :
       RecordsBefore(tx, CheckedLsn) = {} => EndedBefore(tx, Len(log) + 1)
  /\ StrictLog
  /\ rec.check = last_checked

\* Then the restarted server has exactly the committed values, however often
\* it crashed on the way, and each update rolled back is undone once.
RecoversCommitted ==
  [][Restarted /\ Recoverable => ht' = Committed(log)]_allVars

UndoesOnce ==
  [][Restarted /\ Recoverable => RolledBack]_allVars

\* README.md, tx_id.kvdb: ids read back at a restart keep the log's
\* transactions apart (로그가 겹치지 않게 함).
TxIdsUnique ==
  \A i \in DOMAIN log : log[i].type = "BEGIN" =>
    \A j \in DOMAIN log : log[j].type = "BEGIN" /\ i # j => log[i].tx # log[j].tx

\* Wherever a crash falls, last_checked_lsn.kvdb names a CHECK record of the
\* log and a snapshot that is complete.
CheckedIsThere ==
  CheckedLsn > 0 /\ LsnsUnique =>
    /\ CheckedLsn \in DOMAIN snapshots
    /\ CheckedLsn \in DOMAIN log /\ log[CheckedLsn].type = "CHECK"

\* What may make a rollback meet a record that is not there: a checkpoint that
\* lists a transaction whose BEGIN was not yet logged, or lists what it never
\* wrote into the list, and a server restarted with one record, which gives
\* LSN 1 again.
Misleading(entry) == entry.last_lsn = 0 \/ entry \in Garbage

Misled ==
  \/ \E i \in DOMAIN log : \E n \in DOMAIN log[i].list : Misleading(log[i].list[n])
  \/ Len(log) >= 2 /\ log[2].lsn = 1

\* README.md: after a failure the log restores the system.  The server process
\* dies of what it reads back only when last_checked_lsn.kvdb was left empty or
\* the log misleads it: every other rollback, of the running server or of a
\* restarted one, finds its records, and every redo its snapshot.
DiesOnlyOf ==
  [][server # "dead" /\ server' = "dead" => last_checked = Blank \/ Misled]_allVars

(***************************************************************************)
(* What the documentation says of a restart, and the code does not keep.   *)
(***************************************************************************)

\* README.md, recovery step 1: the transactions that have not terminated are
\* found and rolled back in the log.
LosersRolledBack ==
  [][Restarted => \A tx \in Transactions : EndedBefore(tx, Len(log) + 1)]_allVars

\* README.md, recovery steps 2 and 3: the snapshot is loaded and the log redone
\* from its LSN on.  The log's last word on a key, when it is the update of a
\* committed transaction, is what the key maps to.
CommittedSurvives ==
  [][Restarted => \A k \in Key : \A i \in Changes(k) :
       (i = Max(Changes(k)) /\ log[i].tx \in Winners(log)) => ToLog(ht'[k]) = log[i].new]_allVars

\* README.md, recovery step 1, rolls back transactions that have not ended: a
\* committed transaction is never aborted, and one that has logged END, its
\* locks released, is not undone again.
FinishedNotUndone ==
  /\ \A tx \in Winners(log) : \A i \in DOMAIN log : log[i].tx = tx => log[i].type # "ABORT"
  /\ \A i, j \in DOMAIN log :
       log[i].type = "END" /\ i < j /\ log[j].tx = log[i].tx => log[j].type # "CLR"
=============================================================================
