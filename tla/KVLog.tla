------------------------------- MODULE KVLog -------------------------------
(***************************************************************************)
(* The recovery log, recovery.kvdb: one record per line, appended under    *)
(* lsn_lock and flushed before the lock is released, and the operators     *)
(* that read it back.  A key or a value is an abstract value; of a value   *)
(* the log keeps what its 2-digit length field tells apart, so that "no    *)
(* value" and the zero-length value are the same log value, Empty.         *)
(*                                                                         *)
(* Keys and values are shorter than 16 bytes, the range in which the       *)
(* length field is read back as it was written, and a line fits in         *)
(* KV_RECOVERY_MAX_LINE_LEN.                                               *)
(***************************************************************************)
EXTENDS Integers, Sequences, FiniteSetsExt

CONSTANTS
  Key,      \* the keys clients use
  Value,    \* the values clients set
  None,     \* kv_ht_get's NULL: the key is not in the hash table
  Empty,    \* the zero-length value
  NoKey     \* the key of a record that carries none

ASSUME LogConstants ==
  /\ None \notin Value
  /\ None # Empty
  /\ NoKey \notin Key

HtValue  == Value \cup {None}     \* what a key maps to in the hash table
LogValue == Value \cup {Empty}    \* what a record says of a value

LogType == {"BEGIN", "COMMIT", "UPDATE", "ABORT", "CLR", "CHECK", "END"}

Ongoing == [tx_id : Nat, last_lsn : Nat]

Record ==
  [lsn : Nat, prev : Nat, tx : Nat, type : LogType, undo_next : Nat,
   key : Key \cup {NoKey}, old : LogValue, new : LogValue, list : Seq(Ongoing)]

(***************************************************************************)
(* The three shapes of a line: a transaction's begin or end, a data        *)
(* change, a checkpoint.                                                   *)
(***************************************************************************)
TxRecord(lsn, prev, tx, type) ==
  [lsn |-> lsn, prev |-> prev, tx |-> tx, type |-> type, undo_next |-> 0,
   key |-> NoKey, old |-> Empty, new |-> Empty, list |-> <<>>]

DataRecord(lsn, prev, tx, type, undo_next, key, old, new) ==
  [lsn |-> lsn, prev |-> prev, tx |-> tx, type |-> type, undo_next |-> undo_next,
   key |-> key, old |-> old, new |-> new, list |-> <<>>]

CheckRecord(lsn, list) ==
  [lsn |-> lsn, prev |-> 0, tx |-> 0, type |-> "CHECK", undo_next |-> 0,
   key |-> NoKey, old |-> Empty, new |-> Empty, list |-> list]

\* NULL is logged with length 0, and length 0 is read back as a deletion.
ToLog(v)   == IF v = None THEN Empty ELSE v
FromLog(v) == IF v = Empty THEN None ELSE v

(***************************************************************************)
(* kv_recovery_get_log: the first line with this LSN, or NULL.             *)
(***************************************************************************)
HasLog(log, lsn) == \E i \in DOMAIN log : log[i].lsn = lsn

GetLog(log, lsn) ==
  log[CHOOSE i \in DOMAIN log :
        /\ log[i].lsn = lsn
        /\ \A j \in 1 .. i - 1 : log[j].lsn # lsn]

(***************************************************************************)
(* What the log implies, independently of the code that replays it: the    *)
(* value of a key is the one its last committed update gave it.            *)
(***************************************************************************)
Winners(log) ==
  {log[i].tx : i \in {j \in DOMAIN log : log[j].type = "COMMIT"}}

UpdatesOf(log, txs, k) ==
  {i \in DOMAIN log :
     log[i].type = "UPDATE" /\ log[i].key = k /\ log[i].tx \in txs}

Committed(log) ==
  [k \in Key |->
     LET updates == UpdatesOf(log, Winners(log), k)
     IN  IF updates = {} THEN None ELSE FromLog(log[Max(updates)].new)]
=============================================================================
