--------------------------- MODULE KVSerialProofs ---------------------------
(***************************************************************************)
(* The running server implements serializable transactions: every step of  *)
(* KVTxn is a step of KVSerial, or none, for every set of clients, keys,   *)
(* values and locks and every bound.                                       *)
(***************************************************************************)
EXTENDS KVTxnSerial, KVValueProofs

USE DEF vars, logVars, lockVars

(***************************************************************************)
(* The inductive invariant: what the log says of a transaction agrees with *)
(* where its client is.                                                    *)
(***************************************************************************)

\* A record of transaction tx whose type is one of types.
HasRecord(l, tx, types) == \E i \in DOMAIN l : l[i].tx = tx /\ l[i].type \in types

\* Where a client is once its transaction has logged COMMIT or ABORT.
Closing == {"set_commit", "set_abort", "rollback", "set_clr", "undo_apply", "set_end", "unlock"}

\* A transaction has no lock before its BEGIN record, has that record ever
\* after, and has its COMMIT or ABORT record exactly when it is ending.
PhaseOK(c) ==
  /\ pc[c] = "begin_log" => \A s \in Stripe : held[c][s] = 0
  /\ txid[c] # 0 =>
       /\ pc[c] # "begin_log" => HasRecord(log, txid[c], {"BEGIN"})
       /\ HasRecord(log, txid[c], {"COMMIT", "ABORT"}) <=> pc[c] \in Closing

\* No transaction has id 0, the id that checkpoints log.
BeginsHaveIds == \A i \in DOMAIN log : log[i].type = "BEGIN" => log[i].tx # 0

SerialInv == ValueInv /\ BeginsHaveIds /\ \A c \in Client : PhaseOK(c)

(***************************************************************************)
(* What a step changes of the records of a transaction and of its locks.   *)
(***************************************************************************)

\* Records of other transactions say nothing of this one.
LEMMA RecordsKept ==
  ASSUME NEW l, NEW m, NEW tx, Without(l, m, tx), NEW types
  PROVE  HasRecord(m, tx, types) <=> HasRecord(l, tx, types)
<1>1. ASSUME NEW i \in DOMAIN l PROVE i \in DOMAIN m /\ m[i] = l[i]
  BY <1>1 DEF Without
<1>2. ASSUME NEW i \in DOMAIN m, m[i].tx = tx PROVE i \in DOMAIN l /\ m[i] = l[i]
  BY <1>2 DEF Without
<1> QED BY <1>1, <1>2 DEF HasRecord

\* A record of the transaction itself is one more of its type.
LEMMA RecordsGrow ==
  ASSUME TypeOK, NEW r \in Record, log' = Append(log, r), NEW types
  PROVE  HasRecord(log', r.tx, types) <=> HasRecord(log, r.tx, types) \/ r.type \in types
<1>1. PICK n \in Nat : n = Len(log) + 1
  BY LogIsSeq
<1>2. /\ DOMAIN log' = 1 .. n /\ DOMAIN log = 1 .. n - 1 /\ n - 1 \in Nat
      /\ \A i \in 1 .. n - 1 : log'[i] = log[i]
      /\ log'[n] = r
  BY <1>1, Appended, LogIsSeq
<1> QED BY <1>2 DEF HasRecord

\* Only a client's own steps change its lock list, and StartTx does not.
LEMMA HeldIs ==
  ASSUME TxnInv, NEW c \in Client, Receiving(c) \/ Executing(c)
  PROVE  /\ \A d \in Client : d # c => held'[d] = held[d]
         /\ pc'[c] = "begin_log" => held'[c] = held[c]
<1> USE DEF Goto
<1>0. pc \in [Client -> PC] /\ held \in [Client -> [Stripe -> Nat]]
  BY DEF TxnInv, LockInv, TypeOK
<1>1. CASE Receiving(c)
  BY <1>1 DEF Receiving, Begin, Get, Set, Del, Receive, Disconnect
<1>2. CASE Logging(c)
  BY <1>2 DEF Logging, BeginLog, UpdateLog, CommitLog, AbortLog, ClrLog, EndLog
<1>3. CASE SetLast(c) \/ Reply(c) \/ Apply(c) \/ SkipRecord(c) \/ UndoApply(c) \/ Leave(c)
  BY <1>3 DEF SetLast, Reply, Apply, SkipRecord, UndoApply, Leave
<1>4. CASE Lock(c)
  BY <1>0, <1>4 DEF Lock
<1>5. CASE Unlock(c)
  BY <1>0, <1>5 DEF Unlock, At
<1> QED BY <1>1, <1>2, <1>3, <1>4, <1>5 DEF Executing

\* A client without a transaction is in no lock list.
LEMMA NoTxNoLocks ==
  ASSUME TxnInv, NEW c \in Client, txid[c] = 0, NEW s \in Stripe
  PROVE  held[c][s] = 0
BY DEF TxnInv, LockInv, LocksMatchList

(***************************************************************************)
(* The invariant.                                                          *)
(***************************************************************************)

\* A client that takes no part in a step keeps its phase.
LEMMA PhaseKept ==
  ASSUME NEW d \in Client, PhaseOK(d), pc'[d] = pc[d], txid'[d] = txid[d], held'[d] = held[d],
         txid[d] # 0 => Without(log, log', txid[d]), pc[d] = "begin_log" => txid[d] # 0
  PROVE  PhaseOK(d)'
<1>1. pc[d] = "begin_log" => \A s \in Stripe : held'[d][s] = 0
  BY DEF PhaseOK
<1>2. ASSUME txid[d] # 0
      PROVE  /\ pc[d] # "begin_log" => HasRecord(log', txid[d], {"BEGIN"})
             /\ HasRecord(log', txid[d], {"COMMIT", "ABORT"}) <=> pc[d] \in Closing
  BY <1>2, RecordsKept DEF PhaseOK
<1> QED BY <1>1, <1>2 DEF PhaseOK

\* A client that logs a record goes on to the next phase.
LEMMA PhaseLogged ==
  ASSUME SerialInv, NEW c \in Client, NEW r \in Record, LogStep(c, r)
  PROVE  PhaseOK(c)'
<1>1. /\ TypeOK /\ PhaseOK(c) /\ log' = Append(log, r) /\ r.tx = txid[c] /\ txid[c] # 0
      /\ txid' = txid /\ pc'[c] \in Setting
  BY DEF SerialInv, ValueInv, TxnInv, LockInv, LogStep
<1>2. \A types : HasRecord(log', txid[c], types) <=> HasRecord(log, txid[c], types) \/ r.type \in types
  BY <1>1, RecordsGrow
<1>3. pc[c] = "begin_log" <=> r.type = "BEGIN"
  BY DEF LogStep, Appends
<1>4. pc'[c] \in Closing <=> pc[c] \in Closing \/ r.type \in {"COMMIT", "ABORT"}
  BY DEF LogStep, Appends, Closing
<1>5. HasRecord(log', txid[c], {"BEGIN"})
  BY <1>1, <1>2, <1>3 DEF PhaseOK
<1>6. HasRecord(log', txid[c], {"COMMIT", "ABORT"}) <=> pc'[c] \in Closing
  BY <1>1, <1>2, <1>4 DEF PhaseOK
<1> QED BY <1>1, <1>5, <1>6 DEF PhaseOK, Setting

\* A client that logs nothing has its phase.
LEMMA PhaseMoved ==
  ASSUME SerialInv, NEW c \in Client, Moves(c), UNCHANGED <<log, lsn>>,
         pc'[c] = "begin_log" => held'[c] = held[c]
  PROVE  PhaseOK(c)'
<1>1. TxnInv /\ PhaseOK(c) /\ txid[c] \in Nat /\ transaction_id \in Nat
  BY DEF SerialInv, ValueInv, TxnInv, LockInv, TypeOK
<1>2. CASE txid'[c] = txid[c]
  <2>1. /\ pc'[c] # "begin_log" /\ pc[c] # "begin_log"
        /\ txid[c] # 0 => (pc'[c] \in Closing <=> pc[c] \in Closing)
    BY <1>1, <1>2 DEF Moves, Closing
  <2>2. txid[c] # 0 => /\ HasRecord(log', txid'[c], {"BEGIN"})
                       /\ HasRecord(log', txid'[c], {"COMMIT", "ABORT"}) <=> pc'[c] \in Closing
    BY <1>1, <1>2, <2>1 DEF PhaseOK
  <2> QED BY <1>2, <2>1, <2>2 DEF PhaseOK
<1>3. CASE txid'[c] = 0
  BY <1>1, <1>3 DEF Moves, PhaseOK
<1>4. CASE pc[c] = "ready" /\ txid[c] = 0 /\ txid'[c] = transaction_id + 1 /\ pc'[c] = "begin_log"
  <2>1. \A s \in Stripe : held'[c][s] = 0
    BY <1>1, <1>4, NoTxNoLocks
  <2>2. ~HasRecord(log', txid'[c], {"COMMIT", "ABORT"})
    <3>1. \A i \in DOMAIN log : log[i].tx \in Nat /\ log[i].tx <= transaction_id
      BY <1>1, LogIsSeq DEF TxnInv, LockInv, LogOK, RecordOK
    <3> QED BY <1>1, <1>4, <3>1 DEF HasRecord
  <2> QED BY <1>4, <2>1, <2>2 DEF PhaseOK, Closing
<1> QED BY <1>2, <1>3, <1>4 DEF Moves

LEMMA SerialInvInit == Init => SerialInv
<1> SUFFICES ASSUME Init PROVE SerialInv
  OBVIOUS
<1>1. DOMAIN log = {}
  BY EmptySeq DEF Init
<1>2. BeginsHaveIds /\ \A c \in Client : PhaseOK(c)
  BY <1>1 DEF Init, BeginsHaveIds, PhaseOK, NoThread
<1> QED BY <1>2, ValueInvInit DEF SerialInv

\* What is appended to the log: records of the client that moves, or of nobody.
LEMMA BeginsKeepIds ==
  ASSUME SerialInv, \/ log' = log
                    \/ \E r \in Record : log' = Append(log, r) /\ (r.type = "BEGIN" => r.tx # 0)
  PROVE  BeginsHaveIds'
<1>1. TypeOK /\ BeginsHaveIds
  BY DEF SerialInv, ValueInv, TxnInv, LockInv
<1>2. CASE log' = log
  BY <1>1, <1>2 DEF BeginsHaveIds
<1>3. CASE log' # log
  <2>1. PICK r \in Record : log' = Append(log, r) /\ (r.type = "BEGIN" => r.tx # 0)
    BY <1>3
  <2>3. PICK n \in Nat : n = Len(log) + 1
    BY <1>1, LogIsSeq
  <2>4. /\ DOMAIN log' = 1 .. n /\ DOMAIN log = 1 .. n - 1 /\ n - 1 \in Nat
        /\ \A i \in 1 .. n - 1 : log'[i] = log[i]
        /\ log'[n] = r
    <3>1. /\ DOMAIN log' = 1 .. Len(log) + 1 /\ DOMAIN log = 1 .. Len(log) /\ Len(log) \in Nat
          /\ \A i \in 1 .. Len(log) : log'[i] = log[i]
          /\ log'[Len(log) + 1] = r
      BY <1>1, <2>1, Appended, LogIsSeq
    <3>2. n - 1 = Len(log)
      BY <2>3, <3>1
    <3> QED BY <2>3, <3>1, <3>2
  <2> QED BY <1>1, <2>1, <2>4 DEF BeginsHaveIds
<1> QED BY <1>2, <1>3

\* The record of a checkpoint.
LEMMA CheckpointRecord ==
  ASSUME TypeOK, CkptLog
  PROVE  \E r \in Record : log' = Append(log, r) /\ r.tx = 0 /\ r.type = "CHECK"
<1>1. PICK tail \in Uninitialised :
        log' = Append(log, CheckRecord(lsn + 1, OngoingList \o tail))
  BY DEF CkptLog
<1>2. lsn + 1 \in Nat /\ OngoingList \o tail \in Seq(Ongoing)
  BY <1>1, OngoingListType DEF TypeOK
<1>3. CheckRecord(lsn + 1, OngoingList \o tail) \in Record
  BY <1>2, CheckRecordType
<1> QED BY <1>1, <1>3 DEF CheckRecord

LEMMA SerialInvNext == SerialInv /\ [Next]_vars => SerialInv'
<1> SUFFICES ASSUME SerialInv, [Next]_vars PROVE SerialInv'
  OBVIOUS
<1>1. ValueInv' /\ TxnInv /\ LockInv /\ TypeOK /\ ThreadOK
  BY ValueInvNext DEF SerialInv, ValueInv, TxnInv, LockInv
<1>2. ASSUME NEW d \in Client
      PROVE  PhaseOK(d) /\ (pc[d] = "begin_log" => txid[d] # 0)
  BY <1>1 DEF SerialInv, ThreadOK
<1>3. ASSUME NEW c \in Client, Receiving(c) \/ Executing(c) PROVE SerialInv'
  <2>1. \A d \in Client : d # c => Frame(d) /\ held'[d] = held[d]
    BY <1>1, <1>3, FrameStep, HeldIs
  <2>2. CASE Logging(c)
    <3>1. PICK r \in Record : LogStep(c, r)
      BY <1>1, <2>2, LoggingIs
    <3>2. log' = Append(log, r) /\ r.tx = txid[c] /\ txid[c] # 0
      BY <3>1 DEF LogStep
    <3>3. ASSUME NEW d \in Client, d # c PROVE PhaseOK(d)'
      <4>1. txid[d] # 0 => r.tx # txid[d]
        BY <1>1, <3>2, <3>3 DEF TxnInv, TxIds
      <4>2. txid[d] # 0 => Without(log, log', txid[d])
        BY <1>1, <3>2, <4>1, StepWithout
      <4> QED BY <1>2, <2>1, <3>3, <4>2, PhaseKept DEF Frame
    <3> QED BY <1>1, <3>1, <3>2, <3>3, PhaseLogged, BeginsKeepIds DEF SerialInv
  <2>3. CASE ~Logging(c)
    <3>1. Moves(c) /\ UNCHANGED <<log, lsn>>
      BY <1>1, <1>3, <2>3, MovesIs
    <3>2. ASSUME NEW d \in Client, d # c PROVE PhaseOK(d)'
      <4>1. txid[d] # 0 => Without(log, log', txid[d])
        BY <1>1, <3>1, StepWithout
      <4> QED BY <1>2, <2>1, <3>2, <4>1, PhaseKept DEF Frame
    <3>3. PhaseOK(c)'
      BY <1>1, <1>3, <3>1, HeldIs, PhaseMoved
    <3> QED BY <1>1, <3>1, <3>2, <3>3, BeginsKeepIds DEF SerialInv
  <2> QED BY <2>2, <2>3
<1>4. CASE CkptBegin \/ CkptLog \/ UNCHANGED vars
  <2>1. UNCHANGED <<pc, txid, held>>
    BY <1>4 DEF CkptBegin, CkptLog
  <2>2. log' = log \/ \E r \in Record : log' = Append(log, r) /\ r.tx = 0 /\ r.type = "CHECK"
    BY <1>1, <1>4, CheckpointRecord DEF CkptBegin
  <2>3. ASSUME NEW d \in Client PROVE PhaseOK(d)'
    <3>1. txid[d] # 0 => Without(log, log', txid[d])
      BY <1>1, <2>2, StepWithout
    <3> QED BY <1>2, <2>1, <3>1, PhaseKept
  <2> QED BY <1>1, <2>2, <2>3, BeginsKeepIds DEF SerialInv
<1> QED BY <1>3, <1>4 DEF Next

LEMMA SerialInvAlways == Spec => []SerialInv
BY SerialInvInit, SerialInvNext, PTL DEF Spec

(***************************************************************************)
(* The state of KVSerial, client by client.                                *)
(***************************************************************************)
Seen(c) == [k \in Reached(c) |-> Committed(log)[k]]

Wrote(c) == [k \in Written(c) |-> FromLog(log[Max(Own(c, k))].new)]

Answer(c) == IF At(c, "reply") /\ cmd[c].op = "get" THEN old[c] ELSE NoReply

seenBy == [c \in Client |-> Seen(c)]
wroteBy == [c \in Client |-> Wrote(c)]
answers == [c \in Client |-> Answer(c)]

\* A step that KVSerial does not see client c take.
Same(c) ==
  /\ c \in Active' <=> c \in Active
  /\ Seen(c)' = Seen(c) /\ Wrote(c)' = Wrote(c) /\ Answer(c)' = Answer(c)

\* Transaction tx has begun and is not ending, in log l.
Runs(l, tx) == HasRecord(l, tx, {"BEGIN"}) /\ ~HasRecord(l, tx, {"COMMIT", "ABORT"})

LEMMA ActiveIs ==
  ASSUME NEW c \in Client
  PROVE  /\ c \in Active <=> Runs(log, txid[c])
         /\ c \in Active' <=> Runs(log', txid'[c])
<1>1. c \in Active <=> Runs(log, txid[c])
  BY DEF Active, Logged, Runs, HasRecord
<1>2. c \in Active' <=> Runs(log', txid'[c])
  BY DEF Active, Logged, Runs, HasRecord
<1> QED BY <1>1, <1>2

\* A transaction runs between its BEGIN record and its end.
LEMMA RunsIs ==
  ASSUME SerialInv, NEW c \in Client
  PROVE  c \in Active <=> txid[c] # 0 /\ pc[c] # "begin_log" /\ pc[c] \notin Closing
<1>1. PhaseOK(c) /\ BeginsHaveIds /\ TypeOK /\ LastKnown(c)
  BY DEF SerialInv, ValueInv, TxnInv, LockInv, ClientOK
<1>2. CASE txid[c] = 0
  <2>1. ~HasRecord(log, txid[c], {"BEGIN"})
    BY <1>1, <1>2 DEF BeginsHaveIds, HasRecord
  <2> QED BY <1>2, <2>1, ActiveIs DEF Runs
<1>3. CASE txid[c] # 0 /\ pc[c] = "begin_log"
  <2>1. IsLast(log, 0, txid[c])
    BY <1>1, <1>3 DEF LastKnown, Setting
  <2>2. ~HasRecord(log, txid[c], {"BEGIN"})
    BY <1>1, <2>1, LogIsSeq DEF IsLast, HasRecord
  <2> QED BY <1>3, <2>2, ActiveIs DEF Runs
<1>4. CASE txid[c] # 0 /\ pc[c] # "begin_log"
  BY <1>1, <1>4, ActiveIs DEF PhaseOK, Runs
<1> QED BY <1>2, <1>3, <1>4

\* The last update of a key that a transaction has logged.
LEMMA OwnLargest ==
  ASSUME TypeOK, NEW c \in Client, NEW k, Own(c, k) # {}
  PROVE  /\ Max(Own(c, k)) \in Own(c, k) /\ Max(Own(c, k)) \in DOMAIN log
         /\ IsLargest(Own(c, k), Max(Own(c, k)))
<1>1. Own(c, k) \in SUBSET (0 .. Len(log)) /\ Own(c, k) \in SUBSET Nat /\ Len(log) \in Nat
  BY LogIsSeq DEF Own, UpdatesOf
<1>2. PICK m \in Own(c, k) : IsLargest(Own(c, k), m)
  BY <1>1, LargestExists
<1>3. Max(Own(c, k)) = m
  BY <1>1, <1>2, LargestIs
<1> QED BY <1>2, <1>3 DEF Own, UpdatesOf

\* A client that takes no part in a step has no step of KVSerial in it.
LEMMA OthersSame ==
  ASSUME SerialInv, BeginsHaveIds', NEW d \in Client,
         UNCHANGED <<pc[d], cmd[d], txid[d], old[d], held[d]>>,
         txid[d] # 0 => Without(log, log', txid[d]),
         \A k \in Key : owner[StripeOf[k]] = d => Committed(log')[k] = Committed(log)[k]
  PROVE  Same(d)
<1>1. TypeOK /\ LocksMatchList /\ BeginsHaveIds
  BY DEF SerialInv, ValueInv, TxnInv, LockInv
<1>2. d \in Active' <=> d \in Active
  <2>1. CASE txid[d] = 0
    <3>1. ~HasRecord(log, txid[d], {"BEGIN"}) /\ ~HasRecord(log', txid'[d], {"BEGIN"})
      BY <1>1, <2>1 DEF BeginsHaveIds, HasRecord
    <3> QED BY <3>1, ActiveIs DEF Runs
  <2>2. CASE txid[d] # 0
    <3>1. \A types : HasRecord(log', txid[d], types) <=> HasRecord(log, txid[d], types)
      BY <2>2, RecordsKept
    <3> QED BY <3>1, ActiveIs DEF Runs
  <2> QED BY <2>1, <2>2
<1>3. Reached(d)' = Reached(d)
  BY <1>2 DEF Reached
<1>4. ASSUME NEW k \in Reached(d) PROVE Committed(log')[k] = Committed(log)[k]
  <2>1. StripeOf[k] \in Stripe /\ held[d][StripeOf[k]] > 0 /\ k \in Key
    BY <1>4, TxnConstants DEF Reached
  <2>2. owner[StripeOf[k]] = d
    BY <1>1, <2>1 DEF LocksMatchList
  <2> QED BY <2>1, <2>2
<1>5. Seen(d)' = Seen(d)
  BY <1>3, <1>4 DEF Seen
<1>6. ASSUME d \in Active, NEW k PROVE Own(d, k)' = Own(d, k)
  <2>1. txid[d] # 0
    BY <1>6, RunsIs
  <2>2. /\ \A i \in DOMAIN log : i \in DOMAIN log' /\ log'[i] = log[i]
        /\ \A i \in DOMAIN log' : log'[i].tx = txid[d] => i \in DOMAIN log /\ log'[i] = log[i]
    BY <2>1 DEF Without
  <2> QED BY <2>2 DEF Own, UpdatesOf
<1>7. Written(d)' = Written(d)
  <2>1. Written(d) = {k \in Key : d \in Active /\ Own(d, k) # {}}
    BY DEF Written, Own
  <2>2. Written(d)' = {k \in Key : d \in Active' /\ Own(d, k)' # {}}
    BY DEF Written, Own
  <2> QED BY <1>2, <1>6, <2>1, <2>2
<1>8. ASSUME NEW k \in Written(d)
      PROVE  FromLog(log'[Max(Own(d, k)')].new) = FromLog(log[Max(Own(d, k))].new)
  <2>1. d \in Active /\ Own(d, k) # {}
    BY <1>8 DEF Written, Own
  <2>2. Max(Own(d, k)) \in DOMAIN log
    BY <1>1, <2>1, OwnLargest
  <2>3. log'[Max(Own(d, k))] = log[Max(Own(d, k))]
    BY <2>1, <2>2, RunsIs DEF Without
  <2> QED BY <1>6, <2>1, <2>3
<1>9. Wrote(d)' = Wrote(d)
  BY <1>7, <1>8 DEF Wrote
<1>10. Answer(d)' = Answer(d)
  BY DEF Answer, At
<1> QED BY <1>2, <1>5, <1>9, <1>10 DEF Same

\* What KVSerial sees of a step in which only client c may take part.
LEMMA OneMoves ==
  ASSUME NEW c \in Client, \A d \in Client : d # c => Same(d)
  PROVE  /\ \A d \in Client : d # c => (d \in Active' <=> d \in Active)
         /\ Active \subseteq Client /\ Active' \subseteq Client
         /\ seenBy' = [seenBy EXCEPT ![c] = Seen(c)']
         /\ wroteBy' = [wroteBy EXCEPT ![c] = Wrote(c)']
         /\ answers' = [answers EXCEPT ![c] = Answer(c)']
<1>1. \A d \in Client : d # c => (d \in Active' <=> d \in Active)
  BY DEF Same
<1>2. Active \subseteq Client /\ Active' \subseteq Client
  BY DEF Active
<1>3. \A d \in Client : d # c => Seen(d)' = Seen(d) /\ Wrote(d)' = Wrote(d) /\ Answer(d)' = Answer(d)
  BY DEF Same
<1>4. seenBy' = [seenBy EXCEPT ![c] = Seen(c)']
  BY <1>3 DEF seenBy
<1>5. wroteBy' = [wroteBy EXCEPT ![c] = Wrote(c)']
  BY <1>3 DEF wroteBy
<1>6. answers' = [answers EXCEPT ![c] = Answer(c)']
  BY <1>3 DEF answers
<1> QED BY <1>1, <1>2, <1>4, <1>5, <1>6

\* A step that KVSerial does not see.
LEMMA NoneMoves ==
  ASSUME Committed(log') = Committed(log), \A d \in Client : Same(d)
  PROVE  UNCHANGED Serial!serialVars
<1>1. Active' = Active
  BY DEF Same, Active
<1>2. seenBy' = seenBy /\ wroteBy' = wroteBy /\ answers' = answers
  BY DEF Same, seenBy, wroteBy, answers
<1> QED BY <1>1, <1>2
        DEF Serial!serialVars, seenBy, wroteBy, answers, Seen, Wrote, Answer, Own

\* A client whose transaction does not run has reached and written nothing.
LEMMA IdleIs ==
  ASSUME NEW c \in Client
  PROVE  /\ c \notin Active => Seen(c) = [k \in {} |-> None] /\ Wrote(c) = [k \in {} |-> None]
         /\ c \notin Active' => Seen(c)' = [k \in {} |-> None] /\ Wrote(c)' = [k \in {} |-> None]
<1>1. ASSUME c \notin Active
      PROVE  Seen(c) = [k \in {} |-> None] /\ Wrote(c) = [k \in {} |-> None]
  <2>1. Reached(c) = {} /\ Written(c) = {}
    BY <1>1 DEF Reached, Written
  <2> QED BY <2>1 DEF Seen, Wrote
<1>2. ASSUME c \notin Active'
      PROVE  Seen(c)' = [k \in {} |-> None] /\ Wrote(c)' = [k \in {} |-> None]
  <2>1. Reached(c)' = {} /\ Written(c)' = {}
    BY <1>2 DEF Reached, Written
  <2> QED BY <2>1 DEF Seen, Wrote
<1> QED BY <1>1, <1>2

(***************************************************************************)
(* Steps that log nothing.                                                 *)
(***************************************************************************)

\* Client c neither answers nor takes a lock.
Still(c) ==
  /\ pc[c] # "reply" /\ pc'[c] # "reply"
  /\ \/ txid'[c] = txid[c] /\ (held'[c] = held[c] \/ pc[c] = "unlock")
     \/ txid[c] = 0 /\ pc'[c] = "begin_log"
     \/ pc[c] = "unlock" /\ txid'[c] = 0

LEMMA StillIs ==
  ASSUME TxnInv, NEW c \in Client, Receiving(c) \/ Executing(c),
         ~Logging(c), ~Lock(c), ~Reply(c)
  PROVE  Still(c)
<1> USE DEF Goto, At
<1>0. /\ pc \in [Client -> PC] /\ held \in [Client -> [Stripe -> Nat]] /\ txid \in [Client -> Nat]
  BY DEF TxnInv, LockInv, TypeOK
<1>1. CASE Receiving(c)
  BY <1>0, <1>1 DEF Receiving, Begin, Get, Set, Del, Receive, StartTx, Disconnect, Still
<1>2. CASE SetLast(c)
  <2>1. pc'[c] = AfterSet(c) /\ pc[c] \in Setting /\ txid' = txid /\ held' = held
    BY <1>0, <1>2 DEF SetLast
  <2>2. AfterSet(c) # "reply"
    BY <2>1 DEF AfterSet, AfterClr, Setting
  <2> QED BY <2>1, <2>2 DEF Still, Setting
<1>3. CASE Apply(c)
  BY <1>0, <1>3 DEF Apply, Finish, Still
<1>4. CASE SkipRecord(c) \/ UndoApply(c) \/ Unlock(c) \/ Leave(c)
  BY <1>0, <1>4 DEF SkipRecord, UndoApply, Unlock, Leave, Still
<1> QED BY <1>1, <1>2, <1>3, <1>4 DEF Executing

\* KVSerial does not see such a step.
LEMMA StillSame ==
  ASSUME SerialInv, SerialInv', NEW c \in Client, Still(c), log' = log
  PROVE  Same(c)
<1>1. c \in Active <=> txid[c] # 0 /\ pc[c] # "begin_log" /\ pc[c] \notin Closing
  BY RunsIs
<1>2. Answer(c)' = Answer(c)
  BY DEF Still, Answer, At
<1>3. CASE txid'[c] = txid[c]
  <2>1. c \in Active' <=> c \in Active
    BY <1>3, ActiveIs
  <2>2. CASE c \notin Active
    BY <1>2, <2>1, <2>2, IdleIs DEF Same
  <2>3. CASE c \in Active
    <3>1. held'[c] = held[c]
      BY <1>1, <1>3, <2>3, RunsIs DEF Still, Closing
    <3>2. Reached(c)' = Reached(c) /\ Written(c)' = Written(c)
      BY <1>3, <2>1, <3>1 DEF Reached, Written
    <3>3. \A k : Own(c, k)' = Own(c, k)
      BY <1>3 DEF Own
    <3>4. Seen(c)' = Seen(c)
      BY <3>2 DEF Seen
    <3>5. Wrote(c)' = Wrote(c)
      BY <3>2, <3>3 DEF Wrote
    <3> QED BY <1>2, <2>1, <3>4, <3>5 DEF Same
  <2> QED BY <2>2, <2>3
<1>4. CASE txid'[c] # txid[c]
  <2>1. c \notin Active
    BY <1>1, <1>4 DEF Still, Closing
  <2>2. ~Runs(log', txid'[c])
    <3>1. CASE txid'[c] = 0
      BY <3>1 DEF SerialInv, BeginsHaveIds, Runs, HasRecord
    <3>2. CASE txid'[c] # 0 /\ pc'[c] = "begin_log"
      <4>1. IsLast(log', 0, txid'[c])
        BY <3>2 DEF SerialInv, ValueInv, TxnInv, ClientOK, LastKnown, Setting
      <4>2. DOMAIN log' \subseteq Nat \ {0}
        <5>1. log' \in Seq(Record)
          BY DEF SerialInv, ValueInv, TxnInv, LockInv, TypeOK
        <5> QED BY <5>1, LenProperties
      <4> QED BY <4>1, <4>2 DEF IsLast, Runs, HasRecord
    <3> QED BY <1>4, <2>1, <3>1, <3>2 DEF Still
  <2>3. c \notin Active'
    BY <2>2, ActiveIs
  <2> QED BY <1>2, <2>1, <2>3, IdleIs DEF Same
<1> QED BY <1>3, <1>4

\* What is to be shown for a step that reaches keys.
LEMMA ReachIs ==
  ASSUME NEW c \in Active, NEW K \in SUBSET Key, UNCHANGED <<log, Active, wroteBy>>,
         seenBy' = [seenBy EXCEPT ![c] =
           [k \in DOMAIN seenBy[c] \cup K |->
              IF k \in DOMAIN seenBy[c] THEN seenBy[c][k] ELSE Committed(log)[k]]],
         \/ answers' = answers
         \/ \E k \in K : answers' = [answers EXCEPT ![c] = Serial!Visible(c, k)]
  PROVE  Serial!Reach(c, K)
BY DEF Serial!Reach, seenBy, wroteBy, answers, Seen, Wrote, Answer, Own

\* A client that has taken the lock of its key reaches the keys under it, and
\* reads what its transaction has made of its key or the committed value.
LEMMA LockReaches ==
  ASSUME SerialInv, NEW c \in Client, Lock(c), \A d \in Client : d # c => Same(d),
         Empty \notin Value
  PROVE  \E K \in SUBSET Key : Serial!Reach(c, K)
<1>1. /\ TypeOK /\ TxnInv /\ ThreadOK /\ WriteAhead /\ CleanCommitted /\ PhaseOK(c)
      /\ pc \in [Client -> PC] /\ held \in [Client -> [Stripe -> Nat]] /\ old \in [Client -> HtValue]
      /\ ht \in [Key -> HtValue]
  BY DEF SerialInv, ValueInv, TxnInv, LockInv, TypeOK
<1>2. PICK key \in Key : key = cmd[c].key
  BY <1>1 DEF Lock, At, ThreadOK
<1>3. PICK K \in SUBSET Key : K = {k \in Key : StripeOf[k] = StripeOf[key]}
  OBVIOUS
<1> DEFINE s == StripeOf[key]
<1>4. /\ pc[c] = "lock" /\ txid[c] # 0 /\ key = cmd[c].key /\ s \in Stripe
      /\ owner[s] \in {NoOwner, c} /\ K = {k \in Key : StripeOf[k] = s}
  BY <1>1, <1>2, <1>3, TxnConstants DEF Lock, At, ThreadOK, CanLock
<1>5. c \in Active /\ c \in Active'
  <2>1. c \in Active
    BY <1>4, RunsIs DEF Closing
  <2>2. txid' = txid /\ log' = log
    BY DEF Lock
  <2> QED BY <2>1, <2>2, ActiveIs
<1>6. /\ UNCHANGED <<log, ht, txid, cmd>>
      /\ held' = [held EXCEPT ![c][s] = @ + 1]
      /\ old'[c] = ht[key]
      /\ pc'[c] = IF cmd[c].op = "get" \/ (cmd[c].op = "del" /\ ht[key] = None)
                  THEN "reply" ELSE "log"
  BY <1>1, <1>4 DEF Lock, Goto
<1> HIDE DEF s
<1>7. Reached(c)' = Reached(c) \cup K
  <2>1. \A r \in Stripe : held'[c][r] > 0 <=> held[c][r] > 0 \/ r = s
    BY <1>1, <1>4, <1>6
  <2>2. \A k \in Key : StripeOf[k] \in Stripe
    BY TxnConstants
  <2> QED BY <1>5, <1>4, <2>1, <2>2 DEF Reached
<1>8. Seen(c)' = [k \in Reached(c) \cup K |-> Committed(log)[k]]
  BY <1>6, <1>7 DEF Seen
<1>9. Written(c)' = Written(c) /\ Wrote(c)' = Wrote(c)
  BY <1>5, <1>6 DEF Wrote, Written, Own
<1>10. Active' = Active
  BY <1>5, OneMoves
<1>11. Seen(c)' = [k \in DOMAIN Seen(c) \cup K |->
                    IF k \in DOMAIN Seen(c) THEN Seen(c)[k] ELSE Committed(log)[k]]
  BY <1>8 DEF Seen
<1>12. Answer(c) = NoReply
  BY <1>4 DEF Answer, At
<1>13. /\ wroteBy' = wroteBy
       /\ seenBy' = [seenBy EXCEPT ![c] =
            [k \in DOMAIN seenBy[c] \cup K |->
               IF k \in DOMAIN seenBy[c] THEN seenBy[c][k] ELSE Committed(log)[k]]]
  <2>1. seenBy[c] = Seen(c) /\ wroteBy = [wroteBy EXCEPT ![c] = Wrote(c)]
    BY DEF seenBy, wroteBy
  <2> QED BY <1>9, <1>11, <2>1, OneMoves
<1>14. CASE ~(cmd[c].op = "get")
  <2>1. Answer(c)' = NoReply
    BY <1>6, <1>14 DEF Answer, At
  <2>2. answers' = answers
    BY <1>12, <2>1, OneMoves DEF answers
  <2>3. Serial!Reach(c, K)
    BY <1>5, <1>6, <1>10, <1>13, <2>2, ReachIs
  <2> QED BY <2>3
<1>15. CASE cmd[c].op = "get"
  <2>1. Answer(c)' = ht[key]
    BY <1>6, <1>15 DEF Answer, At
  <2>2. ht[key] = IF key \in Written(c) THEN Wrote(c)[key] ELSE Committed(log)[key]
    <3>1. \A d \in Client : owner[s] = d => d = c
      BY <1>4, TxnConstants
    <3>2. \A d \in Client : ~Pending(d, key)
      BY <1>1, <1>4, <3>1, OwnsLock DEF Pending, s
    <3>3. ToLog(ht[key]) = Now(key)
      BY <1>1, <1>4, <3>2 DEF WriteAhead, Now
    <3>4. ht[key] \in HtValue
      BY <1>1, <1>4
    <3>5. CASE Own(c, key) = {}
      <4>1. \A d \in Client : Dirty(d) => Own(d, key) = {}
        BY <1>1, <1>4, <3>1, <3>5, OwnsLock DEF Dirty, s
      <4>2. ToLog(Committed(log)[key]) = ToLog(ht[key])
        BY <1>1, <1>4, <3>3, <4>1 DEF CleanCommitted
      <4>3. Committed(log)[key] \in HtValue
        BY <1>1, <1>4, CommittedType
      <4>4. Committed(log)[key] = ht[key]
        BY <3>4, <4>2, <4>3, BackAndThere
      <4> QED BY <3>5, <4>4 DEF Written, Own
    <3>6. CASE Own(c, key) # {}
      <4>1. key \in Written(c)
        BY <1>4, <1>5, <3>6 DEF Written, Own
      <4>2. IsLargest(Own(c, key), Max(Own(c, key)))
        BY <1>1, <3>6, OwnLargest
      <4>3. Now(key) = log[Max(Own(c, key))].new
        BY <1>4, <4>2, OwnIsLast DEF SerialInv, Undoes
      <4>4. FromLog(Now(key)) = ht[key]
        BY <3>3, <3>4, BackAndThere
      <4> QED BY <4>1, <4>3, <4>4 DEF Wrote
    <3> QED BY <3>5, <3>6
  <2>3. answers' = [answers EXCEPT ![c] =
                      IF key \in Written(c) THEN Wrote(c)[key] ELSE Committed(log)[key]]
    BY <2>1, <2>2, OneMoves
  <2>4. key \in K
    BY <1>4 DEF s
  <2>5. Serial!Reach(c, K)
    <3>1. Serial!Visible(c, key) = IF key \in Written(c) THEN Wrote(c)[key] ELSE Committed(log)[key]
      BY DEF Serial!Visible, Wrote, Own
    <3>2. answers' = [answers EXCEPT ![c] = Serial!Visible(c, key)]
      BY <2>3, <3>1
    <3>3. \E k \in K : answers' = [answers EXCEPT ![c] = Serial!Visible(c, k)]
      BY <2>4, <3>2
    <3> QED BY <1>5, <1>6, <1>10, <1>13, <3>3, ReachIs
  <2> QED BY <2>5
<1> QED BY <1>14, <1>15

\* The end of an answer.
LEMMA ReplyAnswers ==
  ASSUME SerialInv, NEW c \in Client, Reply(c), \A d \in Client : d # c => Same(d)
  PROVE  Serial!Answered(c)
<1>1. /\ UNCHANGED <<log, txid, held>> /\ pc'[c] # "reply"
  BY DEF Reply, Finish, Goto, SerialInv, ValueInv, TxnInv, LockInv, TypeOK
<1>2. Answer(c)' = NoReply
  BY <1>1 DEF Answer, At
<1>3. answers' = [answers EXCEPT ![c] = NoReply]
  BY <1>2, OneMoves
<1>4. Active' = Active
  BY <1>1 DEF Active, Logged
<1>5. seenBy' = seenBy /\ wroteBy' = wroteBy
  BY <1>1, <1>4 DEF seenBy, wroteBy, Seen, Wrote, Reached, Written, Own
<1> QED BY <1>1, <1>3, <1>4, <1>5 DEF Serial!Answered, seenBy, wroteBy, answers, Seen, Wrote, Answer, Own

(***************************************************************************)
(* Steps that log a record.                                                *)
(***************************************************************************)

\* A transaction that has logged neither COMMIT nor ABORT has won nothing.
LEMMA NoWinner ==
  ASSUME NEW l, NEW tx, ~HasRecord(l, tx, {"COMMIT", "ABORT"})
  PROVE  tx \notin Winners(l)
BY DEF HasRecord, Winners

\* What every record of a client's transaction leaves as it is.
LEMMA LogStepIs ==
  ASSUME SerialInv, NEW c \in Client, NEW r \in Record, LogStep(c, r),
         \A d \in Client : d # c => Same(d)
  PROVE  /\ TypeOK /\ TxnInv /\ PhaseOK(c) /\ PhaseOK(c)' /\ log' = Append(log, r)
         /\ r.tx = txid[c] /\ txid[c] # 0 /\ txid'[c] = txid[c]
         /\ held' = held /\ cmd' = cmd /\ pc'[c] \notin {"begin_log", "unlock"}
         /\ answers' = answers
         /\ c \in Active <=> pc[c] # "begin_log" /\ pc[c] \notin Closing
         /\ c \in Active' <=> r.type = "BEGIN" \/ (c \in Active /\ r.type \notin {"COMMIT", "ABORT"})
<1>1. /\ TypeOK /\ TxnInv /\ PhaseOK(c) /\ log' = Append(log, r)
      /\ r.tx = txid[c] /\ txid[c] # 0 /\ txid'[c] = txid[c]
      /\ held' = held /\ cmd' = cmd /\ old' = old
  BY DEF SerialInv, ValueInv, TxnInv, LockInv, LogStep
<1>2. pc[c] # "reply" /\ pc'[c] \in Setting
  BY DEF LogStep, Appends
<1>3. Answer(c)' = Answer(c)
  BY <1>2 DEF Answer, At, Setting
<1>4. answers' = answers
  BY <1>3, OneMoves DEF answers
<1>5. c \in Active <=> pc[c] # "begin_log" /\ pc[c] \notin Closing
  BY <1>1, RunsIs
<1>6. \A types : HasRecord(log', txid[c], types) <=> HasRecord(log, txid[c], types) \/ r.type \in types
  BY <1>1, RecordsGrow
<1>7. r.type = "BEGIN" <=> pc[c] = "begin_log"
  BY DEF LogStep, Appends
<1>8. pc[c] = "begin_log" => ~HasRecord(log, txid[c], {"COMMIT", "ABORT"})
  BY <1>1 DEF PhaseOK, Closing
<1>9. c \in Active' <=> r.type = "BEGIN" \/ (c \in Active /\ r.type \notin {"COMMIT", "ABORT"})
  BY <1>1, <1>5, <1>6, <1>7, <1>8, ActiveIs DEF Runs, PhaseOK
<1> QED BY <1>1, <1>2, <1>4, <1>5, <1>9, PhaseLogged DEF Setting

\* Of the committed values, only COMMIT changes one.
LEMMA StoreKept ==
  ASSUME TypeOK, NEW r \in Record, log' = Append(log, r), r.type # "COMMIT",
         r.type = "UPDATE" => r.tx \notin Winners(log)
  PROVE  Committed(log') = Committed(log)
<1>1. \A k \in Key : Committed(log')[k] = Committed(log)[k]
  BY CommittedKept
<1> QED BY <1>1 DEF Committed

LEMMA BeginStarts ==
  ASSUME SerialInv, NEW c \in Client, NEW r \in Record, LogStep(c, r), r.type = "BEGIN",
         \A d \in Client : d # c => Same(d)
  PROVE  Serial!Start(c)
<1>1. /\ TypeOK /\ TxnInv /\ PhaseOK(c) /\ log' = Append(log, r) /\ r.tx = txid[c] /\ txid'[c] = txid[c]
      /\ held' = held /\ answers' = answers /\ c \in Active' /\ txid[c] # 0
  BY LogStepIs
<1>2. pc[c] = "begin_log" /\ c \notin Active
  BY LogStepIs DEF LogStep, Appends
<1>3. Committed(log') = Committed(log)
  BY <1>1, StoreKept
<1>4. Active' = Active \cup {c}
  BY <1>1, OneMoves
<1>5. Reached(c)' = {}
  <2>1. \A k \in Key : StripeOf[k] \in Stripe
    BY TxnConstants
  <2> QED BY <1>1, <1>2, <2>1 DEF Reached, PhaseOK
<1>6. Written(c)' = {}
  <2>1. IsLast(log, 0, txid[c])
    BY <1>1, <1>2 DEF TxnInv, ClientOK, LastKnown, Setting
  <2>2. \A k : Own(c, k) = {}
    BY <1>1, <2>1, LogIsSeq DEF IsLast, Own, UpdatesOf
  <2>3. ASSUME NEW k PROVE UpdatesOf(log', {txid[c]}, k) = UpdatesOf(log, {txid[c]}, k)
    <3>1. \A tx : UpdatesOf(log', {tx}, k) = UpdatesOf(log, {tx}, k) \cup
            (IF r.type = "UPDATE" /\ r.key = k /\ r.tx = tx THEN {Len(log) + 1} ELSE {})
      BY <1>1, AppendedChanges
    <3> QED BY <3>1
  <2> QED BY <1>1, <2>2, <2>3 DEF Written, Own
<1>7. Seen(c)' = Seen(c) /\ Wrote(c)' = Wrote(c)
  BY <1>2, <1>5, <1>6, IdleIs DEF Seen, Wrote
<1>8. seenBy' = seenBy /\ wroteBy' = wroteBy
  BY <1>7, OneMoves DEF seenBy, wroteBy
<1> QED BY <1>1, <1>2, <1>3, <1>4, <1>8
        DEF Serial!Start, seenBy, wroteBy, answers, Seen, Wrote, Answer, Own

\* A transaction ends, whatever that does to the committed values.
LEMMA FinishIs ==
  ASSUME SerialInv, NEW c \in Client, NEW r \in Record, LogStep(c, r),
         r.type \in {"COMMIT", "ABORT"}, \A d \in Client : d # c => Same(d)
  PROVE  c \in Active /\ Serial!Finish(c)
<1>1. c \in Active /\ c \notin Active' /\ answers' = answers
  <2>1. pc[c] # "begin_log" /\ pc[c] \notin Closing
    BY DEF LogStep, Appends, Closing
  <2>2. c \in Active
    BY <2>1, LogStepIs
  <2> QED BY <2>2, LogStepIs
<1>2. Active' = Active \ {c}
  BY <1>1, OneMoves
<1>3. seenBy' = [seenBy EXCEPT ![c] = [k \in {} |-> None]]
  BY <1>1, OneMoves, IdleIs
<1>4. wroteBy' = [wroteBy EXCEPT ![c] = [k \in {} |-> None]]
  BY <1>1, OneMoves, IdleIs
<1> QED BY <1>1, <1>2, <1>3, <1>4
        DEF Serial!Finish, Serial!Nothing, seenBy, wroteBy, answers, Seen, Wrote, Answer, Own

LEMMA AbortAborts ==
  ASSUME SerialInv, NEW c \in Client, NEW r \in Record, LogStep(c, r), r.type = "ABORT",
         \A d \in Client : d # c => Same(d)
  PROVE  Serial!Abort(c)
<1>1. c \in Active /\ Serial!Finish(c)
  BY FinishIs
<1>2. Committed(log') = Committed(log)
  BY LogStepIs, StoreKept
<1> QED BY <1>1, <1>2 DEF Serial!Abort

\* What a transaction commits is the last value it has logged of each key: no
\* update of another transaction, committed before, is behind it in the log.
LEMMA CommitCommits ==
  ASSUME SerialInv, NEW c \in Client, NEW r \in Record, LogStep(c, r), r.type = "COMMIT",
         \A d \in Client : d # c => Same(d)
  PROVE  Serial!Commit(c)
<1>1. c \in Active /\ Serial!Finish(c)
  BY FinishIs
<1>2. /\ TypeOK /\ log' = Append(log, r) /\ r.tx = txid[c] /\ txid[c] # 0
      /\ pc[c] \in {"commit_log", "ready"} /\ log \in Seq(Record) /\ log' \in Seq(Record)
  BY LogStepIs, AppendKeeps DEF TypeOK, LogStep, Appends
<1>3. ASSUME NEW k \in Key
      PROVE  Committed(log')[k] = IF k \in Written(c) THEN Wrote(c)[k] ELSE Committed(log)[k]
  <2>1. CASE Own(c, k) = {}
    <3>1. Committed(log')[k] = Committed(log)[k]
      BY <1>2, <2>1, CommittedKept DEF Own
    <3> QED BY <2>1, <3>1 DEF Written, Own
  <2>2. CASE Own(c, k) # {}
    <3>1. PICK u \in Nat : u = Max(Own(c, k)) /\ u \in Own(c, k) /\ u \in DOMAIN log /\ IsLargest(Own(c, k), u)
      <4>1. DOMAIN log \subseteq Nat
        BY <1>2, LogIsSeq
      <4> QED BY <1>2, <2>2, <4>1, OwnLargest
    <3>2. IsLargest(Changes(k), u)
      BY <1>2, <3>1, OwnIsLast DEF SerialInv, Undoes
    <3>3. Winners(log') = Winners(log) \cup {txid[c]}
      BY <1>2, WinnersGrow
    <3> DEFINE wins == UpdatesOf(log', Winners(log'), k)
    <3>4. wins \subseteq Changes(k) /\ u \in wins /\ log'[u] = log[u]
      <4>1. PICK n \in Nat : n = Len(log) + 1
        BY <1>2, LogIsSeq
      <4>2. /\ DOMAIN log' = 1 .. n /\ DOMAIN log = 1 .. n - 1 /\ n - 1 \in Nat
            /\ \A i \in 1 .. n - 1 : log'[i] = log[i]
            /\ log'[n] = r
        BY <1>2, <4>1, Appended, LogIsSeq
      <4>3. \A i \in DOMAIN log' : log'[i].type = "UPDATE" => i \in DOMAIN log /\ log'[i] = log[i]
        BY <4>2
      <4>4. log'[u] = log[u] /\ u \in DOMAIN log'
        BY <3>1, <4>2
      <4> QED BY <3>1, <3>3, <4>3, <4>4 DEF UpdatesOf, Changes, Own
    <3>5. IsLargest(wins, u)
      BY <3>2, <3>4 DEF IsLargest
    <3>6. Committed(log')[k] = FromLog(log'[u].new)
      BY <1>2, <3>5, CommittedIs
    <3>7. k \in Written(c) /\ Wrote(c)[k] = FromLog(log[u].new)
      BY <1>1, <2>2, <3>1 DEF Written, Wrote, Own
    <3> QED BY <3>4, <3>6, <3>7
  <2> QED BY <2>1, <2>2
<1>4. Committed(log') = [k \in Key |-> Serial!Visible(c, k)]
  <2>1. \A k : Serial!Visible(c, k) = IF k \in Written(c) THEN Wrote(c)[k] ELSE Committed(log)[k]
    BY DEF Serial!Visible, Wrote, Own
  <2> QED BY <1>3, <2>1 DEF Committed
<1> QED BY <1>1, <1>4 DEF Serial!Commit

\* An update that is logged is a write of a key that the transaction has reached.
LEMMA UpdateWrites ==
  ASSUME SerialInv, NEW c \in Client, NEW r \in Record, LogStep(c, r), r.type = "UPDATE",
         \A d \in Client : d # c => Same(d)
  PROVE  \E k \in Key, v \in Value \cup {None} : Serial!Write(c, k, v)
<1>1. /\ TypeOK /\ TxnInv /\ LocksMatchList /\ ThreadOK /\ WritesOwned(c) /\ log' = Append(log, r)
      /\ r.tx = txid[c] /\ txid'[c] = txid[c] /\ txid[c] # 0
      /\ held' = held /\ answers' = answers
  BY LogStepIs DEF TxnInv, LockInv, ClientOK
<1>2. pc[c] = "log" /\ r.key = cmd[c].key
  BY DEF LogStep, Appends
<1>3. c \in Active /\ c \in Active'
  <2>1. c \in Active
    BY <1>2, LogStepIs DEF Closing
  <2> QED BY <2>1, LogStepIs
<1>4. PICK k \in Key : k = r.key
  BY <1>1, <1>2 DEF ThreadOK
<1>5. PICK v \in Value \cup {None} : v = FromLog(r.new)
  BY LogValues DEF Record, HtValue
<1>6. Committed(log') = Committed(log)
  <2>1. ~HasRecord(log, txid[c], {"COMMIT", "ABORT"})
    BY <1>3, ActiveIs DEF Runs
  <2>2. txid[c] \notin Winners(log)
    BY <2>1, NoWinner
  <2> QED BY <1>1, <2>2, StoreKept
<1>7. Active' = Active
  BY <1>3, OneMoves
<1>8. Reached(c)' = Reached(c)
  BY <1>1, <1>3 DEF Reached
<1>9. k \in Reached(c)
  <2>1. owner[StripeOf[k]] = c /\ StripeOf[k] \in Stripe
    BY <1>1, <1>2, <1>4, TxnConstants DEF WritesOwned
  <2>2. owner[StripeOf[k]] # NoOwner
    BY <2>1, TxnConstants
  <2>3. held[c][StripeOf[k]] > 0
    BY <1>1, <2>1, <2>2 DEF LocksMatchList, TypeOK
  <2> QED BY <1>3, <2>3 DEF Reached
<1>10. Seen(c)' = Seen(c)
  BY <1>6, <1>8 DEF Seen
<1>11. PICK n \in Nat : n = Len(log) + 1
  BY <1>1, LogIsSeq
<1>12. /\ DOMAIN log = 1 .. n - 1 /\ n - 1 \in Nat
       /\ \A i \in 1 .. n - 1 : log'[i] = log[i]
       /\ log'[n] = r
  BY <1>1, <1>11, Appended, LogIsSeq
<1>13. \A x : Own(c, x)' = Own(c, x) \cup (IF x = k THEN {n} ELSE {})
  <2>1. ASSUME NEW x
        PROVE  UpdatesOf(log', {txid[c]}, x) = UpdatesOf(log, {txid[c]}, x) \cup
                 (IF r.key = x THEN {Len(log) + 1} ELSE {})
    <3>1. \A tx : UpdatesOf(log', {tx}, x) = UpdatesOf(log, {tx}, x) \cup
            (IF r.type = "UPDATE" /\ r.key = x /\ r.tx = tx THEN {Len(log) + 1} ELSE {})
      BY <1>1, AppendedChanges
    <3> QED BY <1>1, <3>1
  <2> QED BY <1>1, <1>4, <1>11, <2>1 DEF Own
<1>14. Written(c)' = Written(c) \cup {k}
  BY <1>3, <1>13 DEF Written, Own
<1>15. Max(Own(c, k)') = n
  <2>1. Own(c, k)' \in SUBSET Nat /\ IsLargest(Own(c, k)', n)
    <3>1. Own(c, k) \subseteq 1 .. n - 1
      BY <1>12 DEF Own, UpdatesOf
    <3> QED BY <1>13, <3>1 DEF IsLargest
  <2> QED BY <2>1, LargestIs
<1>16. ASSUME NEW x \in Written(c), x # k
       PROVE  log'[Max(Own(c, x)')] = log[Max(Own(c, x))]
  <2>1. Own(c, x)' = Own(c, x) /\ Own(c, x) # {}
    BY <1>13, <1>16 DEF Written, Own
  <2>2. Max(Own(c, x)) \in DOMAIN log
    BY <1>1, <2>1, OwnLargest
  <2> QED BY <1>12, <2>1, <2>2
<1>17. Wrote(c)' = [x \in DOMAIN Wrote(c) \cup {k} |-> IF x = k THEN v ELSE Wrote(c)[x]]
  <2>1. Wrote(c)' = [x \in Written(c) \cup {k} |-> FromLog(log'[Max(Own(c, x)')].new)]
    BY <1>14 DEF Wrote
  <2>2. FromLog(log'[Max(Own(c, k)')].new) = v
    BY <1>5, <1>12, <1>15
  <2> QED BY <1>16, <2>1, <2>2 DEF Wrote
<1>18. seenBy' = seenBy
  BY <1>10, OneMoves DEF seenBy
<1>19. wroteBy' = [wroteBy EXCEPT ![c] =
         [x \in DOMAIN wroteBy[c] \cup {k} |-> IF x = k THEN v ELSE wroteBy[c][x]]]
  BY <1>17, OneMoves DEF wroteBy
<1>20. k \in DOMAIN seenBy[c]
  BY <1>9 DEF seenBy, Seen
<1>21. Serial!Write(c, k, v)
  BY <1>1, <1>3, <1>6, <1>7, <1>18, <1>19, <1>20
     DEF Serial!Write, seenBy, wroteBy, answers, Seen, Wrote, Answer, Own
<1> QED BY <1>21

\* A record of a rollback is of a transaction that KVSerial has aborted.
LEMMA RollbackStutters ==
  ASSUME SerialInv, NEW c \in Client, NEW r \in Record, LogStep(c, r), r.type \in {"CLR", "END"},
         \A d \in Client : d # c => Same(d)
  PROVE  UNCHANGED Serial!serialVars
<1>1. pc[c] \in Closing
  BY DEF LogStep, Appends, Closing
<1>2. /\ TypeOK /\ log' = Append(log, r) /\ c \notin Active /\ c \notin Active' /\ answers' = answers
  BY <1>1, LogStepIs
<1>3. Committed(log') = Committed(log)
  BY <1>2, StoreKept
<1>4. Answer(c)' = Answer(c)
  BY <1>2 DEF answers
<1>5. Same(c)
  BY <1>2, <1>4, IdleIs DEF Same
<1> QED BY <1>3, <1>5, NoneMoves

(***************************************************************************)
(* The theorem.                                                            *)
(***************************************************************************)

\* Whoever takes no part in a step does not see it: the keys it has reached
\* are locked, and nobody else can commit an update of them.
LEMMA OthersAreSame ==
  ASSUME SerialInv, SerialInv', NEW c \in Client, Receiving(c) \/ Executing(c),
         \/ log' = log
         \/ \E r \in Record : LogStep(c, r)
  PROVE  \A d \in Client : d # c => Same(d)
<1> SUFFICES ASSUME NEW d \in Client, d # c PROVE Same(d)
  OBVIOUS
<1>1. /\ TxnInv /\ TypeOK /\ LockInv /\ BeginsHaveIds' /\ PhaseOK(c)
  BY DEF SerialInv, ValueInv, TxnInv, LockInv
<1>2. Frame(d) /\ held'[d] = held[d]
  BY <1>1, FrameStep, HeldIs
<1>3. CASE log' = log
  <2>1. old'[d] = old[d]
    <3>1. CASE Logging(c)
      <4>1. PICK r \in Record : LogStep(c, r)
        BY <1>1, <3>1, LoggingIs
      <4> QED BY <4>1 DEF LogStep
    <3>2. CASE ~Logging(c)
      BY <1>1, <3>2, MovesIs
    <3> QED BY <3>1, <3>2
  <2>2. Without(log, log', txid[d])
    BY <1>1, <1>3, StepWithout
  <2> QED BY <1>1, <1>2, <1>3, <2>1, <2>2, OthersSame DEF Frame
<1>4. ASSUME NEW r \in Record, LogStep(c, r) PROVE Same(d)
  <2>1. log' = Append(log, r) /\ r.tx = txid[c] /\ txid[c] # 0 /\ old'[d] = old[d]
    BY <1>4 DEF LogStep
  <2>2. txid[d] # 0 => r.tx # txid[d]
    BY <1>1, <2>1 DEF TxnInv, TxIds
  <2>3. txid[d] # 0 => Without(log, log', txid[d])
    BY <1>1, <2>1, <2>2, StepWithout
  <2>4. ASSUME NEW k \in Key, owner[StripeOf[k]] = d PROVE Committed(log')[k] = Committed(log)[k]
    <3>1. r.type = "UPDATE" => r.tx \notin Winners(log)
      <4>1. r.type = "UPDATE" => ~HasRecord(log, txid[c], {"COMMIT", "ABORT"})
        BY <1>1, <1>4, <2>1 DEF LogStep, Appends, PhaseOK, Closing
      <4> QED BY <2>1, <4>1, NoWinner
    <3>2. r.type = "COMMIT" => UpdatesOf(log, {r.tx}, k) = {}
      <4>1. r.type = "COMMIT" => pc[c] # "unlock"
        BY <1>4 DEF LogStep, Appends
      <4> QED BY <1>1, <2>1, <2>4, <4>1, OwnsLock DEF Own
    <3> QED BY <1>1, <2>1, <3>1, <3>2, CommittedKept
  <2> QED BY <1>1, <1>2, <2>1, <2>3, <2>4, OthersSame DEF Frame
<1> QED BY <1>3, <1>4

\* A step of the server is one of KVSerial, or none.
LEMMA StepOfSerial ==
  ASSUME SerialInv, SerialInv', [Next]_vars, Empty \notin Value
  PROVE  [Serial!Next]_(Serial!serialVars)
<1>1. TxnInv /\ TypeOK /\ LockInv
  BY DEF SerialInv, ValueInv, TxnInv, LockInv
<1>2. ASSUME NEW c \in Client, Receiving(c) \/ Executing(c)
      PROVE  [Serial!Next]_(Serial!serialVars)
  <2>1. CASE Logging(c)
    <3>1. PICK r \in Record : LogStep(c, r)
      BY <1>1, <2>1, LoggingIs
    <3>2. \A d \in Client : d # c => Same(d)
      BY <1>2, <3>1, OthersAreSame
    <3>3. r.type \in {"BEGIN", "UPDATE", "COMMIT", "ABORT", "CLR", "END"}
      BY <3>1 DEF LogStep, Appends
    <3>4. CASE r.type = "BEGIN"
      BY <3>1, <3>2, <3>4, BeginStarts DEF Serial!Next
    <3>5. CASE r.type = "UPDATE"
      BY <3>1, <3>2, <3>5, UpdateWrites DEF Serial!Next
    <3>6. CASE r.type = "COMMIT"
      BY <3>1, <3>2, <3>6, CommitCommits DEF Serial!Next
    <3>7. CASE r.type = "ABORT"
      BY <3>1, <3>2, <3>7, AbortAborts DEF Serial!Next
    <3>8. CASE r.type \in {"CLR", "END"}
      BY <3>1, <3>2, <3>8, RollbackStutters
    <3> QED BY <3>3, <3>4, <3>5, <3>6, <3>7, <3>8
  <2>2. CASE ~Logging(c)
    <3>1. Moves(c) /\ log' = log
      BY <1>1, <1>2, <2>2, MovesIs
    <3>2. \A d \in Client : d # c => Same(d)
      BY <1>2, <3>1, OthersAreSame
    <3>3. CASE Lock(c)
      BY <3>2, <3>3, LockReaches DEF Serial!Next
    <3>4. CASE Reply(c)
      BY <3>2, <3>4, ReplyAnswers DEF Serial!Next
    <3>5. CASE ~Lock(c) /\ ~Reply(c)
      <4>1. Still(c)
        BY <1>1, <1>2, <2>2, <3>5, StillIs
      <4>2. Same(c)
        BY <3>1, <4>1, StillSame
      <4> QED BY <3>1, <3>2, <4>2, NoneMoves
    <3> QED BY <3>3, <3>4, <3>5
  <2> QED BY <2>1, <2>2
<1>3. CASE CkptBegin \/ CkptLog \/ UNCHANGED vars
  <2>1. UNCHANGED <<pc, cmd, txid, old, held>>
    BY <1>3 DEF CkptBegin, CkptLog
  <2>2. log' = log \/ \E r \in Record : log' = Append(log, r) /\ r.tx = 0 /\ r.type = "CHECK"
    BY <1>1, <1>3, CheckpointRecord DEF CkptBegin
  <2>3. Committed(log') = Committed(log)
    BY <1>1, <2>2, StoreKept
  <2>4. ASSUME NEW d \in Client PROVE Same(d)
    <3>1. txid[d] # 0 => Without(log, log', txid[d])
      BY <1>1, <2>2, StepWithout
    <3> QED BY <2>1, <2>3, <3>1, OthersSame DEF SerialInv
  <2> QED BY <2>3, <2>4, NoneMoves
<1> QED BY <1>2, <1>3 DEF Next

\* Every behaviour of the server is one of serializable transactions: a read
\* returns the transaction's own write or a committed value, what a transaction
\* has read is still committed when it commits, and an aborted one leaves no
\* trace.  Nobody may store the zero-length value, whose before-image a
\* rollback takes for an absent key.
THEOREM SerialImplemented ==
  ASSUME Empty \notin Value
  PROVE  Spec => Serializable
<1>1. Init => Serial!Init
  <2> SUFFICES ASSUME Init PROVE Serial!Init
    OBVIOUS
  <2>1. DOMAIN log = {}
    BY EmptySeq DEF Init
  <2>2. Active = {}
    BY <2>1 DEF Active, Logged
  <2>3. Committed(log) = [k \in Key |-> None]
    <3>1. \A k : UpdatesOf(log, Winners(log), k) = {}
      BY <2>1 DEF UpdatesOf
    <3> QED BY <3>1 DEF Committed
  <2>4. seenBy = [c \in Client |-> [k \in {} |-> None]] /\ wroteBy = [c \in Client |-> [k \in {} |-> None]]
    BY <2>2, IdleIs DEF seenBy, wroteBy
  <2>5. answers = [c \in Client |-> NoReply]
    BY DEF Init, answers, Answer, At
  <2> QED BY <2>2, <2>3, <2>4, <2>5
          DEF Serial!Init, Serial!Nothing, seenBy, wroteBy, answers, Seen, Wrote, Answer, Own
<1>2. SerialInv /\ SerialInv' /\ [Next]_vars => [Serial!Next]_(Serial!serialVars)
  BY StepOfSerial
<1> QED BY <1>1, <1>2, SerialInvAlways, PTL DEF Spec, Serializable, Serial!Spec
=============================================================================
