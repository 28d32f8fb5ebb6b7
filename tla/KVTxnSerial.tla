---------------------------- MODULE KVTxnSerial ----------------------------
(***************************************************************************)
(* The running server implements KVSerial: README.md, "2PL(2 Phase Lock)   *)
(* 구현으로 직렬성 보장. (Rigorous 2PL)".                                  *)
(***************************************************************************)
EXTENDS KVTxn

CONSTANT NoReply

\* The ids of the transactions whose BEGIN is logged, and of those that have
\* logged COMMIT or ABORT.
Logged(types) == {log[i].tx : i \in {j \in DOMAIN log : log[j].type \in types}}

Active == {c \in Client : txid[c] \in Logged({"BEGIN"}) \ Logged({"COMMIT", "ABORT"})}

\* A transaction has reached the keys whose locks it holds.
Reached(c) == {k \in Key : c \in Active /\ held[c][StripeOf[k]] > 0}

Written(c) == {k \in Key : c \in Active /\ UpdatesOf(log, {txid[c]}, k) # {}}

\* A committed value is the store's; what an active transaction has written
\* is in the log, and what it has reached is as the log's committed updates
\* leave it: the abstract transaction keeps the value it saw, so that nobody
\* may commit another while the key is reached.
Serial == INSTANCE KVSerial WITH
  store  <- Committed(log),
  active <- Active,
  seen   <- [c \in Client |-> [k \in Reached(c) |-> Committed(log)[k]]],
  wrote  <- [c \in Client |-> [k \in Written(c) |->
               FromLog(log[Max(UpdatesOf(log, {txid[c]}, k))].new)]],
  reply  <- [c \in Client |->
               IF At(c, "reply") /\ cmd[c].op = "get" THEN old[c] ELSE NoReply]

\* Every behaviour of the server is one of serializable transactions: each
\* read returns the transaction's own write or a committed value, what a
\* transaction has read is still committed when it commits, and an aborted one
\* leaves no trace.
Serializable == Serial!Spec
=============================================================================
