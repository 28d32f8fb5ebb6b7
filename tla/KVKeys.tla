------------------------------- MODULE KVKeys -------------------------------
(***************************************************************************)
(* Client threads that use the hash table under key locks, as run_command  *)
(* and kv_tx_rollback do: a call on a key only while the transaction's     *)
(* lock list names the key's kv_rwl.  The table's operations rely on these *)
(* locks where they leave its own.                                         *)
(***************************************************************************)
EXTENDS KVLock

CONSTANTS Key, Value, None, NoKey, Hash,
  StripeOf    \* the kv_rwl a key hashes to

ASSUME KeysConstants ==
  /\ None \notin Value /\ NoKey \notin Key
  /\ Hash \in [Key -> Nat]
  /\ StripeOf \in [Key -> Stripe]

VARIABLES size, count, table, call, asked, reply

Table == INSTANCE KVHash WITH Caller <- Thread

keysVars == <<lockVars, size, count, table, call, asked, reply>>

Init == LockInit /\ Table!HashInit

\* A thread locks and unlocks between two calls of the table.
Locking(t) ==
  /\ call[t] = NoKey
  /\ LockNext(t)
  /\ UNCHANGED <<size, count, table, call, asked, reply>>

HashingUnlocked(t) ==   \* mutant: calls need no lock
  /\ step[t] = "idle"
  /\ Table!Continue(t) \/ \E k \in Key : Table!Begin(t, k)
  /\ UNCHANGED lockVars

Hashing(t) ==
  /\ step[t] = "idle"
  /\ \/ Table!Continue(t)
     \/ \E k \in Key : held[t][StripeOf[k]] > 0 /\ Table!Begin(t, k)
  /\ UNCHANGED lockVars

Next == \E t \in Thread : Locking(t) \/ Hashing(t)

Spec == Init /\ [][Next]_keysVars

(***************************************************************************)
(* Properties: those of the two parts, of the whole.                       *)
(***************************************************************************)
WellFormed == Table!WellFormed
FoundIsThere == Table!FoundIsThere
ImplementsMap == Table!ImplementsMap
DeletesWhatIsThere == Table!DeletesWhatIsThere

=============================================================================
