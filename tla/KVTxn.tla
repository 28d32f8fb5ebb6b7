------------------------------- MODULE KVTxn -------------------------------
(***************************************************************************)
(* The running server: client threads that execute commands in             *)
(* transactions (run_command), the write-ahead log, the key locks of two-  *)
(* phase locking, rollback from the log, and the snapshot thread's         *)
(* checkpoint record.                                                      *)
(*                                                                         *)
(* A client is its handler thread.  Between two of its steps any other     *)
(* thread may run: a record is appended under lsn_lock, but the transaction*)
(* learns the new LSN, the hash table changes, the key locks are released  *)
(* and the transaction leaves tx_list in steps of their own.  The snapshot *)
(* thread holds tx_lock, lsn_lock and the hash table's lock together, and  *)
(* so stops the steps that take one of them, and only those.               *)
(*                                                                         *)
(* The hash table is a map and tx_list a sequence here; the code of those  *)
(* two structures and the bytes of a command are not this module's matter. *)
(***************************************************************************)
EXTENDS KVLog, SequencesExt

CONSTANTS
  Client,     \* the connections, each served by a thread
  NoOwner,    \* a kv_rwl nobody holds (owner 0)
  Stripe,     \* the kv_rwl objects of the lock manager
  StripeOf,   \* the kv_rwl a key hashes to
  Command,    \* what clients may do
  Garbage,    \* what an uninitialised kv_ongoing_tx may hold
  MaxTx,      \* bound on the transactions started
  MaxLsn,     \* bound on the records logged
  MaxCheck,   \* bound on the checkpoints among them
  MaxHeld     \* bound on the times one kv_rwl is held again

ASSUME TxnConstants ==
  /\ NoOwner \notin Client
  /\ Stripe # {}
  /\ StripeOf \in [Key -> Stripe]
  /\ Command \subseteq {"begin", "get", "set", "del", "commit", "abort", "disconnect"}
  /\ Garbage \subseteq Ongoing
  /\ MaxTx \in Nat /\ MaxLsn \in Nat /\ MaxCheck \in Nat /\ MaxHeld \in Nat

VARIABLES
  log,              \* recovery.kvdb
  lsn,              \* the last LSN issued
  transaction_id,   \* the last transaction id issued
  tx_list,          \* the clients whose transaction is in tx_list
  ht,               \* the hash table
  owner,            \* owner of each kv_rwl
  lock_count,       \* lock_count of each kv_rwl
  ckpt,             \* the snapshot thread: are its locks held, the list size it read
  pc,               \* where a client's thread is
  cmd,              \* the data command it runs
  txid,             \* the id of its transaction, 0 when c_data->tx is NULL
  last_lsn,         \* last_lsn of its transaction
  held,             \* its lock list: how often each kv_rwl is in it
  new_lsn,          \* the LSN the last log call returned to it
  old,              \* what kv_ht_get returned to it
  cursor            \* next_crl_lsn of its rollback

logVars  == <<log, lsn>>
lockVars == <<owner, lock_count, held>>
vars == <<log, lsn, transaction_id, tx_list, ht, owner, lock_count, ckpt,
          pc, cmd, txid, last_lsn, held, new_lsn, old, cursor>>

NoCmd == [op |-> "none", key |-> NoKey, val |-> None, single |-> FALSE]

\* Steps of a thread that has appended a record and not yet called
\* kv_tx_set_last_lsn, and where it goes on from each.
Setting == {"set_begin", "set_update", "set_commit", "set_abort", "set_clr", "set_end"}

PC == Setting \cup
  {"ready", "begin_log", "lock", "reply", "log", "apply", "commit_log",
   "rollback", "undo_apply", "unlock", "gone"}

NoThread == [c \in Client |-> 0]     \* the initial value of a thread's counter
NoLocks == [c \in Client |-> [s \in Stripe |-> 0]]

Init ==
  /\ log = <<>> /\ lsn = 0
  /\ transaction_id = 0 /\ tx_list = <<>>
  /\ ht = [k \in Key |-> None]
  /\ owner = [s \in Stripe |-> NoOwner] /\ lock_count = [s \in Stripe |-> 0]
  /\ ckpt = [held |-> FALSE, size |-> 0]
  /\ pc = [c \in Client |-> "ready"] /\ cmd = [c \in Client |-> NoCmd]
  /\ txid = NoThread /\ last_lsn = NoThread /\ held = NoLocks
  /\ new_lsn = NoThread /\ old = [c \in Client |-> None] /\ cursor = NoThread

(***************************************************************************)
(* Helpers.                                                                *)
(***************************************************************************)
At(c, label) == pc[c] = label
Goto(c, label) == pc' = [pc EXCEPT ![c] = label]

WriteLogStale(c, record) ==   \* mutant: lsn++ where the code has ++lsn
  ~ckpt.held /\ lsn < MaxLsn /\ lsn' = lsn + 1 /\ log' = Append(log, record)
  /\ new_lsn' = [new_lsn EXCEPT ![c] = lsn]

\* pthread_mutex_lock (&lsn_lock) ... ++lsn, fputs, fflush ... unlock: the
\* client's local new_lsn is the LSN of the record appended.
WriteLog(c, record) ==
  /\ ~ckpt.held
  /\ lsn < MaxLsn
  /\ lsn' = lsn + 1
  /\ log' = Append(log, record)
  /\ new_lsn' = [new_lsn EXCEPT ![c] = lsn + 1]

\* After a data command: on to its commit when it is its own transaction, else
\* back to reading the next command.
Finish(c) ==
  /\ Goto(c, IF cmd[c].single THEN "commit_log" ELSE "ready")
  /\ cmd' = [cmd EXCEPT ![c] = IF cmd[c].single THEN cmd[c] ELSE NoCmd]
  /\ old' = [old EXCEPT ![c] = None]

(***************************************************************************)
(* Receiving a command.                                                    *)
(***************************************************************************)

\* kv_txm_start_new_transaction, under tx_lock.
StartTx(c) ==
  /\ ~ckpt.held
  /\ transaction_id < MaxTx
  /\ transaction_id' = transaction_id + 1
  /\ txid' = [txid EXCEPT ![c] = transaction_id + 1]
  /\ last_lsn' = [last_lsn EXCEPT ![c] = 0]
  /\ tx_list' = Append(tx_list, c)
  /\ Goto(c, "begin_log")

Begin(c) ==
  /\ "begin" \in Command
  /\ At(c, "ready") /\ txid[c] = 0
  /\ StartTx(c)
  /\ UNCHANGED <<logVars, ht, lockVars, ckpt, cmd, new_lsn, old, cursor>>

\* A data command opens a transaction of its own when the client has none.
Receive(c, op, k, v) ==
  /\ op \in Command
  /\ At(c, "ready")
  /\ cmd' = [cmd EXCEPT ![c] = [op |-> op, key |-> k, val |-> v, single |-> txid[c] = 0]]
  /\ \/ txid[c] = 0 /\ StartTx(c)
     \/ /\ txid[c] # 0 /\ Goto(c, "lock")
        /\ UNCHANGED <<transaction_id, txid, last_lsn, tx_list>>
  /\ UNCHANGED <<logVars, ht, lockVars, ckpt, new_lsn, old, cursor>>

Get(c) == \E k \in Key : Receive(c, "get", k, None)
Set(c) == \E k \in Key, v \in Value : Receive(c, "set", k, v)
Del(c) == \E k \in Key : Receive(c, "del", k, None)

\* read() returns 0 between two commands: the handler returns, whatever the
\* client's transaction holds.
Disconnect(c) ==
  /\ "disconnect" \in Command
  /\ At(c, "ready")
  /\ Goto(c, "gone")
  /\ UNCHANGED <<logVars, transaction_id, tx_list, ht, lockVars, ckpt,
                 cmd, txid, last_lsn, new_lsn, old, cursor>>

(***************************************************************************)
(* The records of a transaction, and kv_tx_set_last_lsn after each.        *)
(***************************************************************************)
BeginLog(c) ==
  /\ At(c, "begin_log")
  /\ WriteLog(c, TxRecord(lsn + 1, last_lsn[c], txid[c], "BEGIN"))
  /\ Goto(c, "set_begin")
  /\ UNCHANGED <<transaction_id, tx_list, ht, lockVars, ckpt, cmd, txid, last_lsn,
                 old, cursor>>

UpdateLog(c) ==
  /\ At(c, "log")
  /\ WriteLog(c, DataRecord(lsn + 1, last_lsn[c], txid[c], "UPDATE", 0, cmd[c].key,
                            ToLog(old[c]), ToLog(cmd[c].val)))
  /\ Goto(c, "set_update")
  /\ UNCHANGED <<transaction_id, tx_list, ht, lockVars, ckpt, cmd, txid, last_lsn,
                 old, cursor>>

\* The end of a single command, or the command commit.
CommitLog(c) ==
  /\ \/ At(c, "commit_log")
     \/ At(c, "ready") /\ "commit" \in Command /\ txid[c] # 0
  /\ WriteLog(c, TxRecord(lsn + 1, last_lsn[c], txid[c], "COMMIT"))
  /\ Goto(c, "set_commit")
  /\ UNCHANGED <<transaction_id, tx_list, ht, lockVars, ckpt, cmd, txid, last_lsn,
                 old, cursor>>

AbortLog(c) ==
  /\ At(c, "ready") /\ "abort" \in Command /\ txid[c] # 0
  /\ WriteLog(c, TxRecord(lsn + 1, last_lsn[c], txid[c], "ABORT"))
  /\ Goto(c, "set_abort")
  /\ UNCHANGED <<transaction_id, tx_list, ht, lockVars, ckpt, cmd, txid, last_lsn,
                 old, cursor>>

\* The record the rollback of c has reached.
Undoing(c) == GetLog(log, cursor[c])

UndoNextBegin(c) ==   \* mutant: back to BEGIN after the newest record
  Min({n \in DOMAIN log : log[n].tx = txid[c]})
UndoNextSelf(c) == cursor[c]   \* mutant: the loop does not move on

\* The record before it in its transaction: the next to undo.
UndoNext(c) == Undoing(c).prev

AfterClrKeeps(c) ==   \* mutant: a key that had no value is not deleted again
  IF Undoing(c).old = Empty THEN "rollback" ELSE "undo_apply"

\* Undoing an update that logs neither an old nor a new value changes nothing.
AfterClr(c) ==
  IF Undoing(c).old = Empty /\ Undoing(c).new = Empty THEN "rollback" ELSE "undo_apply"

AfterSet(c) ==
  CASE pc[c] = "set_begin"  -> IF cmd[c].op = "none" THEN "ready" ELSE "lock"
    [] pc[c] = "set_update" -> "apply"
    [] pc[c] = "set_abort"  -> "rollback"
    [] pc[c] = "set_clr"    -> AfterClr(c)
    [] pc[c] \in {"set_commit", "set_end"} -> "unlock"

\* kv_tx_set_last_lsn takes no lock.  A rollback starts at the ABORT record,
\* and moves on at once from an update whose undoing changes nothing.
SetLast(c) ==
  /\ pc[c] \in Setting
  /\ Goto(c, AfterSet(c))
  /\ last_lsn' = [last_lsn EXCEPT ![c] = new_lsn[c]]
  /\ new_lsn' = [new_lsn EXCEPT ![c] = 0]
  /\ cursor' = [cursor EXCEPT ![c] =
       CASE At(c, "set_abort") -> new_lsn[c]
         [] At(c, "set_clr") /\ AfterClr(c) = "rollback" -> UndoNext(c)
         [] OTHER -> cursor[c]]
  /\ UNCHANGED <<logVars, transaction_id, tx_list, ht, lockVars, ckpt, cmd, txid, old>>

(***************************************************************************)
(* Data commands: lock the key, read it, log the change, make it.          *)
(***************************************************************************)

CanLockAnyway(c, s) == lock_count[s] <= MaxHeld   \* mutant: nobody waits

\* kv_rwl_rlock and kv_rwl_wlock are the same: the owner counts, others wait.
CanLock(c, s) == owner[s] \in {NoOwner, c} /\ lock_count[s] < MaxHeld

\* kv_lm_rlock or kv_lm_wlock, kv_tx_add_lock, kv_ht_get.
Lock(c) ==
  /\ At(c, "lock")
  /\ ~ckpt.held
  /\ LET s == StripeOf[cmd[c].key]
     IN  /\ CanLock(c, s)
         /\ owner' = [owner EXCEPT ![s] = c]
         /\ lock_count' = [lock_count EXCEPT ![s] = @ + 1]
         /\ held' = [held EXCEPT ![c][s] = @ + 1]
  /\ old' = [old EXCEPT ![c] = ht[cmd[c].key]]
  /\ Goto(c, IF cmd[c].op = "get" \/ (cmd[c].op = "del" /\ ht[cmd[c].key] = None)
             THEN "reply" ELSE "log")
  /\ UNCHANGED <<logVars, transaction_id, tx_list, ht, ckpt, cmd, txid, last_lsn,
                 new_lsn, cursor>>

\* The value, or its absence, is copied into the answer.
Reply(c) ==
  /\ At(c, "reply")
  /\ Finish(c)
  /\ UNCHANGED <<logVars, transaction_id, tx_list, ht, lockVars, ckpt, txid, last_lsn,
                 new_lsn, cursor>>

\* kv_ht_set, or kv_ht_del when the command stores nothing.
Apply(c) ==
  /\ At(c, "apply")
  /\ ~ckpt.held
  /\ ht' = [ht EXCEPT ![cmd[c].key] = cmd[c].val]
  /\ Finish(c)
  /\ UNCHANGED <<logVars, transaction_id, tx_list, lockVars, ckpt, txid, last_lsn,
                 new_lsn, cursor>>

(***************************************************************************)
(* Rollback: kv_tx_rollback follows prev_lsn from the ABORT record back to *)
(* the BEGIN record.                                                       *)
(***************************************************************************)
SkipRecord(c) ==
  /\ At(c, "rollback")
  /\ HasLog(log, cursor[c])
  /\ Undoing(c).type \notin {"BEGIN", "UPDATE"}
  /\ cursor' = [cursor EXCEPT ![c] = UndoNext(c)]
  /\ UNCHANGED <<logVars, transaction_id, tx_list, ht, lockVars, ckpt, pc, cmd, txid,
                 last_lsn, new_lsn, old>>

ClrLog(c) ==
  /\ At(c, "rollback")
  /\ HasLog(log, cursor[c])
  /\ Undoing(c).type = "UPDATE"
  /\ WriteLog(c, DataRecord(lsn + 1, last_lsn[c], txid[c], "CLR", UndoNext(c),
                            Undoing(c).key, Undoing(c).new, Undoing(c).old))
  /\ Goto(c, "set_clr")
  /\ UNCHANGED <<transaction_id, tx_list, ht, lockVars, ckpt, cmd, txid, last_lsn,
                 old, cursor>>

\* kv_ht_set of the old value, or kv_ht_del when it was logged with length 0.
UndoApply(c) ==
  /\ At(c, "undo_apply")
  /\ ~ckpt.held
  /\ ht' = [ht EXCEPT ![Undoing(c).key] = FromLog(Undoing(c).old)]
  /\ cursor' = [cursor EXCEPT ![c] = UndoNext(c)]
  /\ Goto(c, "rollback")
  /\ UNCHANGED <<logVars, transaction_id, tx_list, lockVars, ckpt, cmd, txid, last_lsn,
                 new_lsn, old>>

EndLog(c) ==
  /\ At(c, "rollback")
  /\ HasLog(log, cursor[c])
  /\ Undoing(c).type = "BEGIN"
  /\ WriteLog(c, TxRecord(lsn + 1, last_lsn[c], txid[c], "END"))
  /\ Goto(c, "set_end")
  /\ cursor' = [cursor EXCEPT ![c] = 0]
  /\ UNCHANGED <<transaction_id, tx_list, ht, lockVars, ckpt, cmd, txid, last_lsn, old>>

(***************************************************************************)
(* The end of a transaction: kv_txm_end_transaction.                       *)
(***************************************************************************)

ReleasedByAnyone(c, s) ==   \* mutant: whoever calls
  /\ lock_count' = [lock_count EXCEPT ![s] = @ - 1]
  /\ owner' = IF lock_count[s] = 1 THEN [owner EXCEPT ![s] = NoOwner] ELSE owner
ReleasedStillOwned(c, s) ==   \* mutant: owner is not reset
  /\ lock_count' = IF owner[s] = c THEN [lock_count EXCEPT ![s] = @ - 1] ELSE lock_count
  /\ owner' = owner

\* kv_rwl_unlock: only the owner's call counts, and its last one releases.
Released(c, s) ==
  /\ lock_count' = IF owner[s] = c THEN [lock_count EXCEPT ![s] = @ - 1] ELSE lock_count
  /\ owner' = IF owner[s] = c /\ lock_count[s] = 1
              THEN [owner EXCEPT ![s] = NoOwner] ELSE owner

\* One turn of kv_tx_unlock_all.  The lock list is kept as a count for each
\* kv_rwl, so the order in which its elements are released is free here.
Unlock(c) ==
  /\ At(c, "unlock")
  /\ \E s \in Stripe :
       /\ held[c][s] > 0
       /\ Released(c, s)
       /\ held' = [held EXCEPT ![c][s] = @ - 1]
  /\ UNCHANGED <<logVars, transaction_id, tx_list, ht, ckpt, pc, cmd, txid, last_lsn,
                 new_lsn, old, cursor>>

\* kv_ll_del removes the client's transaction and kv_tx_destroy frees it.  A
\* single command then calls kv_lm_unlock once more, with a key it has freed
\* or given away: any kv_rwl.
Leave(c) ==
  /\ At(c, "unlock")
  /\ \A s \in Stripe : held[c][s] = 0
  /\ tx_list' = RemoveFirst(tx_list, c)
  /\ txid' = [txid EXCEPT ![c] = 0]
  /\ last_lsn' = [last_lsn EXCEPT ![c] = 0]
  /\ cmd' = [cmd EXCEPT ![c] = NoCmd]
  /\ Goto(c, "ready")
  /\ \/ cmd[c].single /\ \E s \in Stripe : Released(c, s)
     \/ ~cmd[c].single /\ UNCHANGED <<owner, lock_count>>
  /\ UNCHANGED <<logVars, transaction_id, ht, held, ckpt, new_lsn, old, cursor>>

(***************************************************************************)
(* The snapshot thread: kv_txm_lock, kv_recovery_lock, kv_ht_lock and the  *)
(* size of tx_list; then the list, the CHECK record and the unlocks.       *)
(***************************************************************************)
Checks == {i \in DOMAIN log : log[i].type = "CHECK"}

CkptBegin ==
  /\ ~ckpt.held
  /\ lsn < MaxLsn /\ Cardinality(Checks) < MaxCheck
  /\ ckpt' = [held |-> TRUE, size |-> Len(tx_list)]
  /\ UNCHANGED <<logVars, transaction_id, tx_list, ht, lockVars, pc, cmd, txid, last_lsn,
                 new_lsn, old, cursor>>

OngoingListShort ==   \* mutant: the last of the list is left out
  [i \in 1 .. Len(tx_list) - 1 |->
     [tx_id |-> txid[tx_list[i]], last_lsn |-> last_lsn[tx_list[i]]]]

\* kv_txm_ongoing_transaction_ids: the size was read before the list is, and
\* what the list no longer fills of the array is uninitialised.
OngoingList ==
  [i \in 1 .. Len(tx_list) |->
     [tx_id |-> txid[tx_list[i]], last_lsn |-> last_lsn[tx_list[i]]]]

Uninitialised == [1 .. ckpt.size - Len(tx_list) -> Garbage]

CkptLog ==
  /\ ckpt.held
  /\ lsn' = lsn + 1
  /\ \E tail \in Uninitialised :
       log' = Append(log, CheckRecord(lsn + 1, OngoingList \o tail))
  /\ ckpt' = [held |-> FALSE, size |-> 0]
  /\ UNCHANGED <<transaction_id, tx_list, ht, lockVars, pc, cmd, txid, last_lsn,
                 new_lsn, old, cursor>>

(***************************************************************************)
(* The specification.                                                      *)
(***************************************************************************)
Receiving(c) == Begin(c) \/ Get(c) \/ Set(c) \/ Del(c) \/ Disconnect(c)

Logging(c) ==
  BeginLog(c) \/ UpdateLog(c) \/ CommitLog(c) \/ AbortLog(c) \/ ClrLog(c) \/ EndLog(c)

Executing(c) ==
  Logging(c) \/ SetLast(c) \/ Lock(c) \/ Reply(c) \/ Apply(c) \/ SkipRecord(c)
  \/ UndoApply(c) \/ Unlock(c) \/ Leave(c)

Next == (\E c \in Client : Receiving(c) \/ Executing(c)) \/ CkptBegin \/ CkptLog

Spec == Init /\ [][Next]_vars


(***************************************************************************)
(* Types.                                                                  *)
(***************************************************************************)
Cmd ==
  [op : {"none", "get", "set", "del"}, key : Key \cup {NoKey}, val : HtValue,
   single : BOOLEAN]

\* Every variable holds a value of its type; in particular no lock is released
\* more often than it was taken (lock_count is an int that could go below 0).
TypeOK ==
  /\ log \in Seq(Record) /\ lsn \in Nat
  /\ transaction_id \in Nat /\ tx_list \in Seq(Client)
  /\ ht \in [Key -> HtValue]
  /\ owner \in [Stripe -> Client \cup {NoOwner}]
  /\ lock_count \in [Stripe -> Nat]
  /\ ckpt \in [held : BOOLEAN, size : Nat]
  /\ pc \in [Client -> PC]
  /\ cmd \in [Client -> Cmd]
  /\ txid \in [Client -> Nat]
  /\ last_lsn \in [Client -> Nat]
  /\ held \in [Client -> [Stripe -> Nat]]
  /\ new_lsn \in [Client -> Nat]
  /\ old \in [Client -> HtValue]
  /\ cursor \in [Client -> Nat]

(***************************************************************************)
(* Safety.                                                                 *)
(***************************************************************************)

\* The lock manager and the transactions' lock lists agree: a kv_rwl is owned
\* exactly when some transaction's list holds it, as often as it is counted,
\* and a client without a transaction owns none.  The unlock a single command
\* makes after its transaction has ended must therefore release nothing.
LocksMatchList ==
  /\ \A s \in Stripe :
       /\ owner[s] = NoOwner <=> lock_count[s] = 0
       /\ \A c \in Client : held[c][s] = IF owner[s] = c THEN lock_count[s] ELSE 0
  /\ \A c \in Client, s \in Stripe : owner[s] = c => txid[c] # 0

\* LSNs are the line numbers, and prev_lsn threads every record of a
\* transaction: it is the LSN of the transaction's record before, though it
\* comes from last_lsn, which is set outside lsn_lock.
PrevChain ==
  /\ lsn = Len(log)
  /\ \A i \in DOMAIN log :
       /\ log[i].lsn = i
       /\ log[i].tx # 0 =>
            LET before == {j \in 1 .. i - 1 : log[j].tx = log[i].tx}
            IN  log[i].prev = IF before = {} THEN 0 ELSE Max(before)

\* The records that give key k a value: updates and their compensations.
Changes(k) == {i \in DOMAIN log : log[i].type \in {"UPDATE", "CLR"} /\ log[i].key = k}

\* What the log's records before the one with index i leave for key k.
Replayed(k, i) ==
  LET before == {j \in Changes(k) : j < i}
  IN  IF before = {} THEN Empty ELSE log[Max(before)].new

\* Every before-image is right: the old value an UPDATE or CLR record carries
\* is the new value of the key's previous record, whoever wrote it.  The value
\* was read by kv_ht_get, outside lsn_lock and before the record was written.
BeforeImage ==
  \A k \in Key : \A i \in Changes(k) : log[i].old = Replayed(k, i)

\* The key whose logged change client c has yet to make in the hash table.
Pending(c, k) ==
  \/ pc[c] \in {"set_update", "apply"} /\ cmd[c].key = k
  \/ pc[c] \in {"set_clr", "undo_apply"} /\ Undoing(c).key = k

\* Write-ahead: replaying the whole log gives the hash table, but for the keys
\* of changes that are logged and not yet made.
WriteAhead ==
  \A k \in Key :
    ToLog(ht[k]) # Replayed(k, lsn + 1) => \E c \in Client : Pending(c, k)

\* Rigorous two-phase locking: a key of the hash table differs from its last
\* committed value only while the transaction that logged an update of it
\* holds its lock.
DirtyOnlyUnderLock ==
  \A k \in Key :
    ht[k] # Committed(log)[k] =>
      \E c \in Client : owner[StripeOf[k]] = c /\ UpdatesOf(log, {txid[c]}, k) # {}

\* A transaction that logged END has undone every one of its updates exactly
\* once: one CLR record restores each old value and points at the record
\* before the update, the next to undo.
RolledBack ==
  \A i \in DOMAIN log : log[i].type = "END" =>
    \A k \in Key : \A u \in UpdatesOf(log, {log[i].tx}, k) :
      Cardinality({r \in 1 .. i - 1 :
        /\ log[r].type = "CLR" /\ log[r].tx = log[i].tx /\ log[r].key = k
        /\ log[r].new = log[u].old /\ log[r].undo_next = log[u].prev}) = 1

\* A rollback that starts finds every record it asks for, and they are its
\* own: kv_tx_rollback exits the server when kv_recovery_get_log returns NULL.
RollbackFindsItsRecords ==
  \A c \in Client : pc[c] \in {"rollback", "set_clr", "undo_apply"} =>
    HasLog(log, cursor[c]) /\ Undoing(c).tx = txid[c]

\* The records of transaction tx before the one with index i.
RecordsBefore(tx, i) == {j \in 1 .. i - 1 : log[j].tx = tx}

\* A checkpoint misses no unfinished transaction, and what it says of one is
\* out of date by one record at most: last_lsn is the transaction's last record
\* or, in the window before kv_tx_set_last_lsn, the record before that.
CheckListsUnfinished ==
  \A i \in DOMAIN log : log[i].type = "CHECK" =>
    \A tx \in {log[j].tx : j \in 1 .. i - 1} \ {0} :
      LET mine == RecordsBefore(tx, i) IN
      (\A j \in mine : log[j].type \notin {"COMMIT", "END"}) =>
        \E n \in DOMAIN log[i].list :
          /\ log[i].list[n].tx_id = tx
          /\ log[i].list[n].last_lsn \in {Max(mine), log[Max(mine)].prev}

(***************************************************************************)
(* Action properties.                                                      *)
(***************************************************************************)

\* The hash table changes under the changed key only by a step of the client
\* that owns the key's kv_rwl, keeps it over the step, and has logged it.
StrictWrite ==
  [][\A k \in Key : ht'[k] # ht[k] =>
       \E c \in Client :
         /\ owner[StripeOf[k]] = c /\ owner'[StripeOf[k]] = c
         /\ UpdatesOf(log, {txid[c]}, k) # {}]_vars

(***************************************************************************)
(* Liveness: the threads run, and pthread_mutex_lock gives a free lock to  *)
(* one that waits for it.  A thread that is ready waits in read(): nobody  *)
(* has to send it a commit or an abort.                                    *)
(***************************************************************************)
FairSpec ==
  /\ Spec
  /\ WF_vars(CkptLog)
  /\ \A c \in Client : WF_vars(~At(c, "ready") /\ Executing(c))

\* Single commands and checkpoints never wait for one another for ever: a
\* single command finishes, its transaction gone from tx_list, unless it waits
\* for a transaction that a client has opened with begin (or the log is as
\* long as MaxLsn).
CommandsFinish ==
  \A c \in Client : cmd[c].single ~>
    \/ At(c, "ready") /\ txid[c] = 0
    \/ lsn = MaxLsn
    \/ \E d \in Client \ {c} :
         At(c, "lock") /\ owner[StripeOf[cmd[c].key]] = d /\ txid[d] # 0 /\ ~cmd[d].single

\* Ending a transaction waits for no key lock, whatever the other clients wait
\* for: one that logs COMMIT or ABORT rolls back, releases its locks and is
\* gone (a log as long as MaxLsn takes no further record).
EndingFinishes ==
  \A c \in Client : pc[c] \in {"set_commit", "set_abort"} ~>
    (At(c, "ready") /\ txid[c] = 0) \/ lsn = MaxLsn

(***************************************************************************)
(* What the documentation says of the running server, and the code does    *)
(* not keep.                                                               *)
(***************************************************************************)

\* README.md: transactions are rolled back by the log.  A key that nobody has
\* locked and no committed transaction has updated is not in the hash table.
NeverCommittedIsAbsent ==
  \A k \in Key :
    ht[k] # None => owner[StripeOf[k]] # NoOwner \/ UpdatesOf(log, Winners(log), k) # {}
=============================================================================
