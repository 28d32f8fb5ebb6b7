# sample-kv in TLA+

sample-kv is a key-value server in C: one thread for each client, transactions
under two-phase locking, a write-ahead log with rollback and compensation
records, checkpoints that fork a process to write a snapshot, and recovery from
log and snapshot at a restart. This directory models all of its parts, from the
instructions of a key lock and the pointers of its lists to restarts after
crashes, checks them with TLC and proves their safety properties with
TLAPS, for every number of clients, keys and locks.

## 1. Inventory

| Component (`src/src/`) | State | Operations | Correct when |
|---|---|---|---|
| Client threads, commands (`kv_command.c`) | `c_data.tx`, locals of `run_command` | begin, get, set, del, commit, abort; a data command without a transaction is one of its own | transactions are serializable and see committed values |
| Transactions (`transaction.c`) | id, `last_lsn`, lock list | `kv_tx_rollback`, `kv_tx_add_lock`, `kv_tx_unlock_all`, `kv_tx_set_last_lsn` | an abort restores every value once |
| Transaction manager (`tx_manager.c`) | `transaction_id`, `tx_list`, `tx_id.kvdb` | start, end, list of ongoing transactions | ids are never given twice; the list misses nobody |
| Log (`kv_recovery.c`) | `lsn`, `recovery.kvdb` | seven kinds of record, `kv_recovery_get_log` | LSNs are unique, `prev_lsn` threads a transaction, before-images are right |
| Restart (`kv_recovery.c`) | files only | `kv_recovery_recover`, `kv_recovery_redo` | committed values survive, others are gone |
| Snapshot thread and process (`kv_recovery_snapshot.c`) | the checkpoint's locks, snapshot files, `last_checked_lsn.kvdb` | CHECK record, fork, writing the files | snapshot and CHECK record agree |
| Lock manager, key locks (`lock_manager.c`, `lock_rwlock.c`) | per `kv_rwl`: mutex, owner, count | rlock, wlock, unlock | only the owner releases; counts match the lock lists |
| Hash table (`kv_hash.c`) | buckets, size, count | get, set, del, foreach, resize | a map |
| Linked list (`linked_list.c`) | head, tail, size | add, del, del_tail, foreach | a list |
| Client handler (`kv_client_handler.c`) | 128-byte buffer | framing of commands, disconnect | commands are cut at line ends |
| Server loop (`kv_server.c`, `main.c`, `shutdown.c`) | `is_running`, descriptors | restart order, accept, greeting, SIGINT, destruction | it stops, and a checkpoint with it |
| Utilities (`utils.c`) | - | hexadecimal digits, djb2 | conversions are inverse |

How they interact: a client thread calls the transaction manager (under
`tx_lock`), the log (under `lsn_lock`), the lock manager and the hash table
(under its own mutex), one after the other and never holding two of these
mutexes. The snapshot thread holds `tx_lock`, `lsn_lock` and the hash table's
mutex together while it lists transactions, writes CHECK and forks. Key locks
are held from a command to the end of its transaction. Leaving `tx_list` takes
`tx_list_lock`, which the snapshot thread does not.

What is hard: the gaps between appending a record, setting `last_lsn`, changing
the hash table, releasing key locks and leaving `tx_list`; a checkpoint or a
crash in any of these gaps; a crash during recovery; rollback, which writes
without taking locks; repeated locking of one `kv_rwl`; waiting cycles.
The parts below have gaps of their own: the owner of a key lock is read without
its mutex, a value of the hash table after its lock is released; a deletion
chooses its bucket before it locks; list elements lack `prev`; the shutdown
destroys what threads still use; commands arrive in pieces; lengths meet buffers
and a two-digit field. The
list, with the line each bites at and the properties that cover it, is
`hazards` in `PROJECT.json`.

## 2. Modules

| Module | What it is |
|---|---|
| `KVLog` | The log as a sequence of records; reading it by LSN; what it implies about committed values. No state. |
| `KVTxn` | The running server: clients, transactions, locks, log, hash table, checkpoint record. |
| `KVSerial` | The abstract promise: serializable transactions that see committed values. |
| `KVTxnSerial` | The refinement mapping from `KVTxn` to `KVSerial`. |
| `KVRecovery` | `KVTxn` with files, the snapshot process, crashes and the restart. |
| `KVKeyLock` | The abstract promise of a `kv_rwl`: a lock its owner may take again. |
| `KVLock` | `kv_rwl` instruction by instruction, and the lock lists; it implements `KVKeyLock`. |
| `KVMap` | The abstract promise of the hash table: each call is one step on a map, but for a deletion the table outgrows. |
| `KVHash` | Buckets, chains, resize; it implements `KVMap`. |
| `KVKeys` | `KVLock` and `KVHash` composed: threads use the table under key locks. |
| `KVList` | The pointers of `linked_list.c`. |
| `KVServer` | The server process: `KVList` as its list of transactions, the accept loop, handler threads, the snapshot thread and its process, SIGINT and the destruction at the end. |
| `KVCodec` | Lengths: commands, buffers, log lines and what is read back of them. No state. |
| `KVHandler` | One connection, byte by byte, and the lengths through table, log, rollback and redo; it uses `KVCodec`. |
| `MCKVTxn`, `MCKVRecovery`, `MCKVKeys`, `MCKVServer`, `MCKVHandler` | Instances for TLC. |
| `KVTxnProofs` | Theorems about `KVTxn`: types and locks; the log's chain, the rollback that follows it, the writes of the hash table. |
| `KVValueProofs` | Theorems about `KVTxn`: before-images, the hash table as the log replayed, uncommitted values. |
| `KVEndingProofs` | Theorems about `KVTxn`: what is compensated at END, what a checkpoint lists. |
| `KVSerialProofs` | `KVTxn` implements `KVSerial`. |
| `KVRecoveryProofs` | Theorems about `KVRecovery`: ids, snapshot files, what the process can die of. |
| `KVKeysProofs` | Theorems about `KVKeys`: counts and lock lists, `KVLock` implements `KVKeyLock`; the hash table is well formed, keeps what a get has found, and implements `KVMap`. |
| `KVServerProofs` | Theorems about `KVServer`: the list, the destruction, connections, the stop. |
| `KVHandlerProofs` | Theorems about `KVHandler`: framing; redo and rollback of short keys and values. |

### KVTxn against the code

A client is its handler thread; `pc[c]` is where it is in `run_command`. Steps
are cut where another thread can tell the difference:

* `Begin`, `Get`, `Set`, `Del`: a command is received. When the client has no
  transaction, `kv_txm_start_new_transaction` is part of the step (`StartTx`):
  id, `tx_list` and the line of `tx_id.kvdb` change under `tx_lock`.
* `BeginLog`, `UpdateLog`, `CommitLog`, `AbortLog`, `ClrLog`, `EndLog`: one
  record appended and flushed under `lsn_lock`. The client then has the LSN in
  a local, `new_lsn`.
* `SetLast`: `kv_tx_set_last_lsn`, under no lock, and where the thread goes on.
* `Lock`: `kv_lm_rlock`/`kv_lm_wlock`, `kv_tx_add_lock` and `kv_ht_get`. These
  are one step: the lock list is private, and the value read is protected by
  the key's lock, which only its owner's steps may disregard. Read and write
  locks are the same in the code.
* `Reply`, `Apply`: the value is copied into the answer; `kv_ht_set` or
  `kv_ht_del`.
* `SkipRecord`, `ClrLog`, `UndoApply`, `EndLog`: the loop of `kv_tx_rollback`.
* `Unlock`: one turn of `kv_tx_unlock_all`. The list is kept as a count for each
  `kv_rwl`, so the order is free. `Leave`: `kv_ll_del`, `kv_tx_destroy`, and a
  single command's second `kv_lm_unlock` with a key it no longer has, so of any
  `kv_rwl`.
* `Disconnect`: the handler returns with its transaction left behind.
* `CkptBegin`, `CkptLog`: the three locks and the size of `tx_list`; then the
  list, the CHECK record and the unlocks. They are two steps because `Leave`
  may come between. What the shorter list leaves of the array is any value of
  `Garbage`.

A command that changes nothing (commit without a transaction, begin inside one,
an unknown command) is no step.

### KVRecovery against the code

`Running` is a step of `KVTxn`. `Fork` is `CkptLog` with the copy of the hash
table the child gets. `WriteSnapshot`, `CreateLastChecked` and
`WriteLastChecked` are the child's steps on files. `Crash` loses memory, keeps
files, and may fall anywhere, also between two steps of recovery; each snapshot
process goes with the server or outlives it, and then writes beside the next
one, which waits only for its own. `RecoverStart` reads `last_checked_lsn.kvdb`,
the last LSN and the CHECK record; `Analyze` takes the next listed transaction;
`Undo` follows one record back; `Redo` reads `last_checked_lsn.kvdb` once more,
as `kv_recovery_redo` does, builds the table and reads the last transaction id. `RollbackFails`, and the branches of `Undo` and `Redo`
that lead to `server = "dead"`, are the process ending: `exit` in the code, or
the use of the NULL that `kv_recovery_get_log` returned.

### KVLock, KVHash and KVKeys against the code

`LockCall` enters `kv_lm_rlock` or `kv_lm_wlock`, which are the same code down to
`kv_rwl`. `Compare` reads `owner` without the mutex, `Again` counts up without
it, `TakeMutex`, `SetCount` and `SetOwner` are the slow path; `kv_tx_add_lock` is
part of the last step, because the list is private. `UnlockCall` is a turn of
`kv_tx_unlock_all`, `StrayUnlock` the unlock a single command makes once more;
`CompareOwner`, `Decrement`, `Disown` and `ReleaseMutex` are `kv_rwl_unlock`.
The mapping to `KVKeyLock` takes the mutex for the lock: it is taken with it and
given back with it.

In `KVHash` each operation is a step, for it runs under the table's mutex, except
where the code leaves it: `kv_ht_get` finds the element (`GetElem`) and reads its
value after the unlock (`GetValue`), which is any value when the element is gone;
`kv_ht_del` chooses the bucket (`ChooseBucket`) before it locks and searches
(`Delete`, `NotFound`). `Resized` is `kv_ht_resize`, called by `kv_ht_set` as
soon as there is one element more than buckets. `KVKeys` lets a thread call the
table on a key only while its lock list names the key's `kv_rwl`.

### KVList and KVServer against the code

`cell` holds `next` and `prev` of the elements that are allocated, so a pointer
is good exactly when it is in the domain of `cell`. `AddBehind` leaves `prev`
as the memory had it: NULL, the address of an element, or `Wild`, any other.
`Delete` relinks by the pointers of the element, as the
code does, and what it would follow into freed memory sets `fault`; a model that
has reached a fault stops, because nothing can be said of what comes after.

In `KVServer`, `Loop` to `SpawnFails` are the turns of the accept loop, with each
of its failures; `Sigint` runs in the main thread. The build defines
`_POSIX_C_SOURCE` with `-std=c99`, so `signal` has System V semantics and an
`accept` that waits returns EINTR, and a second SIGINT kills the process
(`SigintAgain`), as SIGPIPE does when an answer is written to a peer that is gone
(`AnswerKills`). `Broadcast` takes `server_terminate_lock`, which the snapshot
thread holds except in its wait. `Destroy` and `DestroyTx` are
`kv_lm_destroy`, `kv_txm_destroy` turn by turn, `kv_recovery_destroy` and the
return from `main`. A handler thread begins and ends transactions, works and
disconnects; what else a command does is `KVTxn`'s. `Wait` is the snapshot
thread's loop with its timer and spurious wake-ups; `OwnFiles` is the snapshot
process's code run by the server itself when `pid` is still 0.

### KVCodec and KVHandler against the code

A byte is its place in what the client sends, so the buffer after any reads shows
which bytes it holds. `Read` copies what has come behind `command_cur`;
`Consume` is `consume_command` with the command it runs, and sets `command_cur`;
`Answer`, `AnswerFails` are the write. A command runs in one step: there is one
client. Keys and values are names with a length; `LineLen`, `CommandLen` and
`AnswerFits` count bytes against the code's buffers, `ReadBack` is what
`from_2_digit_hex` makes of a length, and `ReadLine` what `kv_recovery_get_log`
then finds. A step that writes behind a buffer sets `spoiled`, and nothing is
said of what follows.

## 3. What is abstract

* In `KVTxn` and `KVRecovery` keys and values are model values. They stand for
  strings shorter than 16 bytes, for which the length of the log reads back as
  written (`KVHandler` checks where this ends), with no line end in them. The
  empty value is a value of its own, `Empty`, when a run includes it, because
  the log cannot tell it from no value.
* There the hash table is a map, `tx_list` a sequence, a `kv_rwl` an owner and a
  count. That a `kv_rwl` is such a lock is `ImplementsKeyLock`. The table is such
  a map but for deletions that race with a resize, and the list such a sequence
  while transactions end in the order they began: what `KVTxn` and `KVRecovery`
  say holds for runs in which neither goes wrong.
* LSNs and ids are natural numbers: `uint32_t` does not overflow within a log
  of 2^32 records. A restart reads the last id from its eight digits (`Hex`,
  `FromHex`); the digits of the LSNs and ids in a log line, written and read by
  the same two functions (`kv_recovery.c:31-56`), are left out.
* A crash loses nothing that was flushed (a kill of processes, not a loss of
  power). A snapshot file is written in one step: it is not named before it is
  closed.
* Memory that is not freed, the text of answers, and time are left out.

Bounds, all named: `MaxTx` transactions, `MaxLsn` records, `MaxCheck`
checkpoints, `MaxHeld` times one `kv_rwl` is held, `MaxCrash` crashes, `MaxConn` connections,
the transactions `Node` and descriptors `Fd` of `KVServer`, and the `Scripts` of
`KVHandler`, whose keys and values have the `Name`s. They are
guards of the model only. The runs switch deadlock checking off because a
server whose clients are idle stops, a bound may end a run, and transactions
that wait for each other's keys really stop.

## 4. Runs

Passing:

| Run | Bounds | What it shows |
|---|---|---|
| `txn_safety` | 2 clients, 1 key, 2 values, all commands and disconnect, 2 transactions, 9 records, 1 checkpoint, a lock held twice | The ten safety properties below. A client may leave with its transaction open, whose locks nobody gets any more. Nine records hold a committed transaction followed by one that is rolled back with a checkpoint among them, or a rollback of two updates with two records to spare; two values make a wrong before-image visible. |
| `txn_serial` | 2 clients, 2 keys on 2 locks, also disconnect, 7 records, fair threads | `Serializable`: the server implements `KVSerial`. Two keys are the least for write skew and for deadlock. `EndingFinishes`: a transaction that commits or aborts ends, whatever the others wait for. `CommandsFinish`: a single command finishes, unless it waits for a transaction that a client keeps open. |
| `recovery` | 2 clients, 2 transactions, 8 records, 1 checkpoint, 2 crashes anywhere, the snapshot process with them or not, garbage in a list that got shorter | `TxIdsUnique`, `CheckedIsThere`, `RecoversCommitted`, `UndoesOnce`, `DiesOnlyOf`. Eight records hold an update that is undone behind a checkpoint, in a rollback that one restart begins and the next finishes: the second crash meets a half-done undo, and the process of the first server meets the recovery of the second. In such a log the committed transaction has no update of its own. A log with that update too has nine records, which takes too long with two clients; with one client (two values, ten records) `RecoversCommitted` and `UndoesOnce` also hold. |
| `keys` | 2 threads, 4 keys on 2 locks, 1 value, a lock held twice, 2 buckets that become 4 | `ImplementsKeyLock`, `ListMatchesCount`, `ImplementsMap`, `WellFormed`, `FoundIsThere`. Keys of both locks change buckets in the resize, which the fourth insertion makes. With two values (`v`, `w`) and `MaxHeld` 1 the run also passes, but takes four times as long. |
| `server` | 2 connections, 2 descriptors, 3 transactions, 1 checkpoint | `FollowsOrder`, `OwnConnection`, `NamesCheckpoint`, `StopAfterCheckpoint`, `DestroysOne`, `Stops`. Two connections are enough for a descriptor that is used again and for two open transactions, the third transaction for an addition after a deletion. The five invariants also hold with three connections. |
| `handler` | 8 scripts of up to 9 commands, the code's buffer sizes, every way to cut them | `RestInBuffer`, `RollbackRestores`, `RedoRestores`, `HandlerEnds`. The scripts have lengths on both sides of each limit: 15 and 16 bytes for the length field, 61 and 62 for the answer, lines of 127 and 128, commands of 127 and 128. |

The safety properties of `txn_safety`:

* `LocksMatchList`: locks and lock lists agree; the extra unlock of a single
  command releases nothing. (`TypeOK` includes that no count goes below 0.)
* `BeforeImage`: every old value in the log is the key's new value in the record
  before, though it was read long before the record was written.
* `WriteAhead`: the log, replayed, gives the hash table but for keys whose
  change is logged and not made.
* `DirtyOnlyUnderLock`, `StrictWrite`: uncommitted values exist only under the
  lock of the transaction that logged them; the hash table changes only under
  the lock of the key.
* `PrevChain`, `RollbackFindsItsRecords`, `RolledBack`: `prev_lsn` is the
  transaction's record before, rollback meets its own records only, and at END
  each update has been undone once.
* `CheckListsUnfinished`: a CHECK record misses no unfinished transaction and is
  out of date by one record of each at most.

Of the other runs:

* `ListMatchesCount`: outside the lock manager a thread owns exactly what its
  transaction lists, as often. `ImplementsKeyLock`: the instructions implement
  `KVKeyLock`, although `owner` is read while others write it: it can equal the
  reader only if the reader wrote it.
* `WellFormed`: through every resize a key is once in the table, in the bucket
  it is looked for, and counted. `FoundIsThere`: the element a get has found is
  not freed before its value is read, because of the key's lock.
  `ImplementsMap`: each call is one step on a map, but for a deletion that finds
  nothing because the table grew after its bucket was chosen.
* `FollowsOrder`: the list is right as long as only its first element has been
  deleted. `DestroysOne`: the destruction goes astray in the list only when two
  transactions are open, or had been deleted out of order.
* `OwnConnection`: a thread reads the connection it was started for, though
  descriptors are used again, unless a greeting has failed.
* `StopAfterCheckpoint`: the stop waits for a checkpoint and its process, unless
  the timer had fired at the broadcast, or the loop ended because accept failed.
  `NamesCheckpoint`: only a server that stops before its first checkpoint names
  one that never was. `Stops`: after SIGINT the server ends, unless the signal
  came between the test of `is_running` and accept. To reach undefined behaviour,
  in the destruction of what threads still use, counts as an end.
* `RestInBuffer`: however the bytes come, each command is executed once and in
  order. `HandlerEnds`: when the client has closed, its handler ends.
  `RollbackRestores`, `RedoRestores`: for keys and values of 1 to 15 bytes,
  rollback gives back the table of the begin, and the log gives the table; what
  happens at 16 bytes is told below.

`RecoversCommitted` and `UndoesOnce` are about restarts whose log meets
`Recoverable`: LSNs unique; checkpoints exact (they list the unfinished
transactions, each with its last record, none aborting) and every snapshot with
what the log before it makes of the table; no unfinished transaction that began after it,
nor one that an earlier restart left as it was while others updated its keys
(`StrictLog`); and the analysis and the redo from the same checkpoint, which a
snapshot process that outlives its server can change between the two reads.
That is what the code's recovery needs; three of the runs below show that the
running server does not always provide it. Within it, recovery is right wherever
the crash falls and however often it is repeated. The conditions are needed:
without `StrictLog` two crashes violate `RecoversCommitted`, and with two
checkpoints so does an inexact one that is no longer the last, or an inexact
snapshot that a restart before this one has used: the value it got wrong is in
the before-images of what was logged since, and a rollback brings it back. With
the conditions as they are, one client, two checkpoints, eleven records and two
crashes violate neither property.

`DiesOnlyOf` names the four ways the process can end in or after a restart: an
empty `last_checked_lsn.kvdb` (`kv_recovery.c:240`, after a crash between
`kv_recovery_snapshot.c:138` and `:148`); a CHECK record that lists a
transaction with `last_lsn` 0, because it entered `tx_list` before its BEGIN
(`kv_recovery.c:186` follows LSN 0 to NULL); a CHECK record with uninitialised
memory in its list, because a transaction left `tx_list` between its size and
its elements being read (`tx_manager.c:177`); and a log of one line, after which
LSN 1 is given again (`kv_recovery.c:116`), so that a later abort reads a wrong
record (`transaction.c:79`). There is no fifth.

Violations, each a claim of the repository's documentation that the code does
not keep (`findings` in `PROJECT.json` quotes the lines):

| Run | Property | What happens |
|---|---|---|
| `says_rolled_back` | `NeverCommittedIsAbsent` | Abort of a set of the empty value to a new key undoes nothing. |
| `says_losers` | `LosersRolledBack` | A transaction that began after the last checkpoint is not rolled back at a restart. |
| `says_survives` | `CommittedSurvives` | A checkpoint between UPDATE and `kv_ht_set` loses the value: the snapshot is without it, redo begins behind it. |
| `says_finished` | `FinishedNotUndone` | A transaction that logged COMMIT and is still in `tx_list` at the checkpoint is rolled back at a restart; a rollback with ABORT before the checkpoint and END behind it is undone again. |
| `says_deletes` | `DeletesWhatIsThere` | The table grows between the two steps of `kv_ht_del`; the key is looked for in its old bucket and stays. |
| `says_lists` | `ListsAll` | Of two transactions the later ends first: the next checkpoint walks into freed memory, and the next begin follows an unset tail. |

Two divergences have no run, each a matter of one line. The lock table of
`README.md:70` lets readers share, and `kv_rwl_rlock` excludes them as
`kv_rwl_wlock` does. `KVLock` and `KVTxn` model one kind of lock. And
`from_2_digit_hex` (`kv_recovery.c:381`) shifts the high digit by one bit: a length
of 16, written `10`, is read back as 2. The abort of a deletion then stores two bytes
of a value of 16, and that of a change under a key of 16 bytes goes to another key;
the scripts `LongValue` and `LongKey` of `handler` do this, and violate
`RollbackRestores` when its condition `Short` is left out.

Fairness. `KVTxn!FairSpec`: weak fairness of each client's own steps
(`Executing`) behind the receipt of a command, and of `CkptLog`. Threads are scheduled, and a mutex that is free
infinitely often is granted because every holder releases it in finitely many
steps and the load of a run is finite. There is no fairness on receiving a
command, also not a commit or an abort, or on starting a checkpoint. Both liveness properties excuse a log that
has reached `MaxLsn`; `CommandsFinish` also excuses a command that waits for a
transaction opened with begin, whose client may never end it.
`KVServer!FairSpec`: the main thread, the snapshot thread and its process run;
nobody connects and no timer fires because it must. `KVHandler!FairSpec`: the
handler runs; bytes need not come, and a read returns once the client has closed.

## 5. Proofs

TLAPS checks every theorem for every value of the constants that meets the
assumptions of the modules: `LogConstants` (no value is `None`, `None` is not
`Empty`, `NoKey` is no key), `TxnConstants` (`NoOwner` is no client, there is a
lock, `StripeOf` gives each key a lock, the commands and the contents of
uninitialised memory have their types, the bounds are naturals),
`RecoveryConstants` (a bound on the crashes, and ids of at most eight digits),
`LockConstants`,
`KeysConstants` (no value is `None`, `NoKey` is no key, each key has a hash and a
lock), `HandlerConstants` (what stands for NULL is the name of no key or value,
and scripts are sequences of commands), `ListConstants` and `ServerConstants` (finitely many elements, which are the
numbers of the transactions; NULL and an unset pointer are no element's
address; descriptors are naturals).

| Theorem | Module | Property |
|---|---|---|
| `TypeCorrect` | `KVTxnProofs` | `TypeOK` |
| `LocksMatch` | `KVTxnProofs` | `LocksMatchList` |
| `ChainHolds` | `KVTxnProofs` | `PrevChain` |
| `RollbackFinds` | `KVTxnProofs` | `RollbackFindsItsRecords` |
| `WritesStrict` | `KVTxnProofs` | `StrictWrite` (of every step) |
| `BeforeImages` | `KVValueProofs` | `BeforeImage` |
| `LogIsAhead` | `KVValueProofs` | `WriteAhead` |
| `DirtyUnderLock` | `KVValueProofs` | `DirtyOnlyUnderLock`, when `Empty \notin Value` |
| `EndsRolledBack` | `KVEndingProofs` | `RolledBack` |
| `CheckpointListsUnfinished` | `KVEndingProofs` | `CheckListsUnfinished` |
| `SerialImplemented` | `KVSerialProofs` | `Serializable` (refinement), when `Empty \notin Value` |
| `IdsUnique` | `KVRecoveryProofs` | `TxIdsUnique` |
| `CheckedFound` | `KVRecoveryProofs` | `CheckedIsThere` |
| `DiesOnly` | `KVRecoveryProofs` | `DiesOnlyOf` (of every step) |
| `UndoneOnce` | `KVRecoveryProofs` | `UndoesOnce` (of every step) |
| `Recovered` | `KVRecoveryProofs` | `RecoversCommitted` (of every step), when `Empty \notin Value` |
| `ListsMatchCounts` | `KVKeysProofs` | `ListMatchesCount` |
| `KeyLockImplemented` | `KVKeysProofs` | `ImplementsKeyLock` (refinement) |
| `TableWellFormed` | `KVKeysProofs` | `WellFormed` |
| `FoundStays` | `KVKeysProofs` | `FoundIsThere` |
| `MapImplemented` | `KVKeysProofs` | `ImplementsMap` (refinement) |
| `ListInOrder` | `KVServerProofs` | `FollowsOrder` |
| `DestroysAtMostOne` | `KVServerProofs` | `DestroysOne` |
| `ConnectionsAreOwn` | `KVServerProofs` | `OwnConnection` |
| `StopWaits` | `KVServerProofs` | `StopAfterCheckpoint` |
| `NamedAreChecks` | `KVServerProofs` | `NamesCheckpoint` |
| `CommandsInOrder` | `KVHandlerProofs` | `RestInBuffer` |
| `RedoGivesTable` | `KVHandlerProofs` | `RedoRestores` |
| `RollbackGivesBegin` | `KVHandlerProofs` | `RollbackRestores` |

Three theorems have the hypothesis that no zero-length value is stored. Without
it they are false: the log writes the before-image of such a value as it writes
that of an absent key, so a rollback deletes the key, or leaves it
(`says_rolled_back` shows the second). The others hold with that value too.

### Types, locks, the log's chain

`LockInv` is the first inductive invariant: `TypeOK`, `LocksMatchList` and
`ThreadOK`. Types and locks need each other. `lock_count` stays a natural number
only because its owner alone decrements it and an owner has counted it, which is
`LocksMatchList`; that a client without a transaction owns nothing needs the
types. `ThreadOK` says what a thread's position implies: one that runs a command
has a transaction, one that runs a data command has a key. The step that carries
the weight is `Leave`: the lock list is empty, so the client owns no lock, so the
second unlock of a single command, of whichever lock, changes nothing.

`TxnInv` adds three parts to it. `LogOK`: a record's LSN is its line, `prev` is
the transaction's last record before it, and only BEGIN has `prev` 0. `TxIds`: no
two clients share an id and none is ahead of the counter. `ClientOK`, for each
client:

* `LastKnown`: the client knows its transaction's last record, by `new_lsn`
  between the log call and `kv_tx_set_last_lsn`, by `last_lsn` at all other
  times. This is what makes the gap between the two harmless to the chain, and
  it needs `TxIds`: nobody else appends to the transaction.
* `CursorOwn`: a rollback is at a record of its own transaction. Going back from
  it `prev` is not 0, because the record is not a BEGIN.
* `WritesOwned`: the client owns the lock of every key its transaction has
  logged an update of, until it releases its locks. That is why rollback may
  write without locking.

For a step of client c, `FrameStep` and `Others` show that every other client's
part holds because c touches none of its variables, takes none of its locks and
appends no record of its transaction; `LoggingKeeps` and `QuietKeeps` treat c's
own part. `GetLogAt` turns the search of `kv_recovery_get_log` into an index.

### Values, rollback, checkpoints

`ValueInv` adds to `TxnInv` what the log says of a key's value. The crux is that
a value is read at `Lock` and logged as before-image much later, outside
`lsn_lock`; what carries it over the gap is the key's lock.

* `CommandHolds`: what a client has read under its lock is still so, and what it
  has logged is the log's last word until it is applied. `BeforeImage` and
  `WriteAhead` need each other here: the first says that the log's last word
  was the hash table's value, the second that it is again.
* `KeepsOut`, `Unmixed`: behind a transaction's update of a key nobody else
  changes the key before the transaction releases its locks; so between two of
  its updates the key's changes are its own.
* `RollbackHolds`: in the middle of a rollback the log leaves of each key the
  value of the last update up to the cursor, or the value before the first. It
  is stated separately for the gap between CLR and `kv_ht_set`.
* `BeganCommitted`, `CleanCommitted`: the value before a transaction's first
  update of a key is the committed one, and so is the value of a key that no
  transaction is changing. These two give `DirtyOnlyUnderLock`.

`EndInv` adds to `ValueInv`: `Compensated`, a rollback has one CLR for each
update behind its cursor and none for those before it; `EndsUndone`, END is the
transaction's last record and each of its updates has one CLR; `UnfinishedHeld`,
a transaction with records and no end is some client's, which `Listed` puts in
`tx_list`; and `OneLate`, `last_lsn` is one record behind between the append and
`kv_tx_set_last_lsn`. The checkpoint's entries then follow. A client that leaves
between `CkptBegin` and `CkptLog` has logged its end (`HasEnded`), so the entry
that is lost by it is not needed.

### Serializability

`SerialImplemented` takes a step of `KVTxn` to a step of `KVSerial` through the
mapping of `KVTxnSerial`, whose committed values, writes and values seen are
computed from the log and the locks. A transaction begins with its BEGIN record,
commits with its COMMIT record, reaches a key with its lock, and reads it in
that step. `SerialInv` is `ValueInv` with `PhaseOK`: a client's transaction has a
BEGIN record once it is behind `begin_log`, and a COMMIT or ABORT record exactly
while it is ending, and it takes no lock before or after. Two steps carry the
weight. A commit may change only keys that no other transaction has reached, for
what the others have seen is still to be committed then; that is two-phase
locking: the client owns the locks of all that it has logged (`WritesOwned`), so
nobody else has them. And what a read finds in the hash table must be the
transaction's own write or the committed value: `WriteAhead` makes it the log's
last word, and `KeepsOut` and `CleanCommitted` make that the client's or the
committed one, because the client owns the lock.

### Restarts

`RecoveryInv` has a part that always holds - types, ids that are read back as they
were written (`HexReadBack`), `TxIds` across crashes, and
`CheckedInv`, which says that the snapshot file and the CHECK record exist before
a snapshot process, whichever server it belongs to, touches
`last_checked_lsn.kvdb` - and a part that holds unless the log misleads
(`Misled`: LSN 1 given twice, or a CHECK record that lists LSN 0 or uninitialised
memory). That second part, `Sound`, says that `prev_lsn` and `undo_next_lsn` lead back inside one transaction to
its BEGIN, that a checkpoint lists records that are there, and what the running
clients or the recovery's own cursor know of it; with it every `kv_recovery_get_log`
of rollback, undo and redo finds what it asks for. The disjunction is inductive
because a log never stops misleading: it only grows.

`UndoneOnce` needs to know where a rollback is that a crash has cut off and
another restart goes on with, so it cannot speak of clients. `RollInv` has the
same form: unless a checkpoint is inexact, `Sound` and `Good`.

* `Shape`, of the log alone: a transaction is one BEGIN, updates, and then one
  COMMIT, or one ABORT, CLRs and one END (`Placed`); when its last record is an
  ABORT or a CLR, the updates behind the one to be undone next have one CLR
  each and the others none, and before an END all have one (`Progress`).
  `ShapeGrown` is the one lemma of the growing log: a record that `Fits` keeps it.
* `Acts`, of each client, and `RecActs`, of the restart: the record at hand is the
  transaction's last, and the cursor of a rollback is where the log says it is
  (`UnwindsAt`). `ListedRight` carries what the checkpoint said of the entries
  that the analysis has not reached.

A restart's step that carries the weight is `Analyze` (`LastIs`): the checkpoint
lists the transaction's last record before it, so what is found behind it is the
rest of the transaction, whose last record says whether it ended and where its
rollback stopped. Two CLRs cannot be for one update because the records before two
updates differ (`PrevsDiffer`).

`Recovered` is about values. `ValueInv` cannot be carried over a crash, behind
which a transaction goes on without its client and its locks, so what is kept
says of the log alone as much as it can. Two invariants join `RecoveryInv` and
`RollInv`, each for a log whose checkpoints are exact:

* `ListInv`. `ListDone`: in the analysis and the undo, every transaction that the
  checkpoint lists has logged its end or is still to be looked at. `SnapSame`:
  the snapshot processes of two servers never write different tables to one file.
* `TableInv`, while every snapshot holds what the log before its checkpoint makes
  of the table (`Restorable`). `BeforeRight`: the old value of an UPDATE is what
  the log before it leaves of its key, and an UPDATE changes something.
  `TableRight`: the running server's table is the log replayed, but for changes
  that are logged and not yet made (`Late`). `Holds`: the locks that a client has,
  and what it has read and logged under them.

A restart's last step redoes the log from the snapshot, which gives what the whole
log leaves (`RedoRight`); that brings `TableRight` back for the next server.
`Restorable` is a hypothesis, and not an invariant, for a fork may copy a table
whose changes are late. It is kept backwards (`RestorableKept`): where it holds
behind a step it held before it, for a snapshot that was wrong stays wrong.

What is left speaks of a log in which every transaction that updated a key has
ended: it leaves of the key what the last update of a committed transaction stored
(`SettledIsCommitted`). The argument is by the first line at which it would not be
so. When the last change of the key is an UPDATE, its transaction has committed,
for END comes behind the CLR of every update. When it is a CLR, the transaction has
compensated all of its updates in turn, newest first (`InTurn`), so this CLR is of
its first update of the key (`FirstUndone`), whose old value is, by `BeforeRight`,
what was there before the transaction; there the transactions on the key had all
ended, because a key is changed by one transaction at a time (`StrictLog`).

### Key locks

`LockInv` is about the instructions of `kv_rwl`. `OwnerHasMutex`: the owner of a
`kv_rwl` holds its mutex. `StepKnows`: a thread whose unprotected comparison
found itself as owner is the owner, and one that did not is not, whatever the
others do in between, because only a thread itself writes or removes its name.
`Counted`: the count is that of the lock list, plus one while an unlock is going
on. The mapping to `KVKeyLock` follows step by step.

### The hash table

`KeysInv` is `LockInv` with two parts. `TableInv`: every element is in the bucket
its key's hash chooses, no key has two, and there are as many as `count` says,
at most one more than buckets. `CallsInv`: a thread in a call of the table has
the lock of its key, and a get that has found its key has it in the table until
it reads the value. That needs the locks: `OwnerHasMutex` and `Counted` say that
no other thread is in a call on the key meanwhile, and only a call on the key
removes it.

The step that carries the weight is the resize. It puts the chains of all buckets
one behind the other and distributes them anew, both by recursion over the number
of buckets. The elements must be the same ones, each once: `Iterated` shows that
a function with the recursion's equations exists, so that the definition is
known to mean one, and what it gives at each bucket is shown for the least
bucket at which it would not (`LeastOf`), for the library's induction over the
naturals is out of reach.

`MapImplemented` follows from `KeysInv`. The mapping gives a key the value of its
one element. A resize changes no key's; a deletion that looks in the bucket of
the old size finds nothing, which `KVMap` allows only then (`Outgrown`).

### A connection

`FrameInv`: unless a write went behind a buffer, the buffer holds exactly the
bytes read and not executed (`Rest`), `command_cur` is their number, and when the
handler waits for bytes they are less than a command. `RestInBuffer` is its
second part for every script and every way to cut it into reads. The arguments
are about offsets: where the n-th command ends grows with n, so the first line
end in the buffer is that of the first command not executed.

### Lengths

`DataInv` relates the lines of the log to the table. `RedoInv`: when the key and
values of every line are shorter than 16 bytes, the lines, redone from the empty
table, give the table. `UndoInv`: while a transaction is open, its lines, undone
from the last back, give the table of its begin. Each new line extends the first
recursion at its end and the second at its beginning, which needs that a line
undone right behind its own change restores the table. A line that stores nothing
where nothing was would break this, and is never written (`Telling`). At the abort
each compensation does to the table what undoing its line does; so the lines
compensated and the compensations redone end in the same table. `FrameInv` is
used for the types of the commands.

### The server process

* `ListInv`: as long as only first elements have been deleted, `Linked` - the
  pointers, seen from `head`, follow the history of additions, whose elements are
  distinct - and `Owned` - each element is the transaction of some thread.
  `Linked` is needed because `FollowsOrder` speaks of the walk only, and a
  deletion changes the pointers. That a walk is then the order, for a list of any
  length (`WalkIs`), is proved without induction: the order, continued with
  NULL, satisfies the recursive definition of `Walk`, and where the two first
  differed they would not. `Owned` gives the two transactions of `DestroysOne`.
* `ConnInv`: a connection is accepted, greeted and given a thread before the
  next one, and the descriptor of a thread that lives is open for its own
  connection.
* `StopInv`: there is a snapshot process only while the snapshot thread waits
  for it under `server_terminate_lock`, and behind a broadcast that came in time
  that thread does not wait for its timer, so its next test of `is_running` fails.
* `SnapInv`: while `pid` is 0 no checkpoint has been made.

### What stays with TLC

Liveness under fairness: `CommandsFinish`, `EndingFinishes`, `Stops` and
`HandlerEnds`. It is out of the prover's reach. Every safety property that the
passing runs check is stated by a theorem.

## 6. Not modelled

Not modelled: the arguments, and `socket`, `bind` and `listen`, whose failures
end the process before it serves; the text of answers and of the snapshot file's
lines; a value with a line end in it, whose log line is read as two; bytes `\0`
in a command; the size of the array of ongoing transactions and of the CHECK
line, which depend on malloc and are too small from the fourth and fifth open
transaction on; functions nobody calls (`kv_ht_destroy`, `kv_ll_destroy`,
`int_to_digit`, `lseek_with_error`, `read_with_error`); the Python tests.

## 7. Running

    tlc -workers 2 -config MCKVTxn_safety.cfg MCKVTxn
    tlapm KVTxnProofs.tla
    tlapm KVSerialProofs.tla

and so on for each run's configuration and each module of proofs.

Definitions marked `mutant` in the modules are plausible errors in the code;
each replaces the definition behind it, and the run named in `mutants` of
`PROJECT.json` then fails.
