----------------------------- MODULE KVSerial -----------------------------
(***************************************************************************)
(* What the server promises its clients: transactions are atomic and       *)
(* serializable in the order they commit, and read committed values only.  *)
(*                                                                         *)
(* A transaction sees the store as it is when it first reaches a key,      *)
(* keeps its writes to itself, and may commit only while everything it saw *)
(* is still so: it could then have run alone, at its commit.  How that is  *)
(* achieved - by locks, and by undoing writes - is not said here.          *)
(***************************************************************************)
CONSTANTS Client, Key, Value, None, NoReply

VARIABLES
  store,    \* the committed value of each key, None when it has none
  active,   \* the clients whose transaction is neither committed nor aborted
  seen,     \* the keys each of these has reached, with the value of the store
  wrote,    \* its writes so far, None for a deletion
  reply     \* what a client's read has just returned

serialVars == <<store, active, seen, wrote, reply>>

Nothing == [k \in {} |-> None]

Init ==
  /\ store = [k \in Key |-> None]
  /\ active = {}
  /\ seen = [c \in Client |-> Nothing]
  /\ wrote = [c \in Client |-> Nothing]
  /\ reply = [c \in Client |-> NoReply]

\* The value of key k to client c: its own write, or the store's.
Visible(c, k) == IF k \in DOMAIN wrote[c] THEN wrote[c][k] ELSE store[k]

Start(c) ==
  /\ c \notin active
  /\ active' = active \cup {c}
  /\ UNCHANGED <<store, seen, wrote, reply>>

\* The transaction of c reaches the keys of K, and reads one of them or none.
Reach(c, K) ==
  /\ c \in active
  /\ seen' = [seen EXCEPT ![c] =
       [k \in DOMAIN seen[c] \cup K |-> IF k \in DOMAIN seen[c] THEN seen[c][k] ELSE store[k]]]
  /\ \/ reply' = reply
     \/ \E k \in K : reply' = [reply EXCEPT ![c] = Visible(c, k)]
  /\ UNCHANGED <<store, active, wrote>>

Answered(c) ==
  /\ reply' = [reply EXCEPT ![c] = NoReply]
  /\ UNCHANGED <<store, active, seen, wrote>>

Write(c, k, v) ==
  /\ c \in active /\ k \in DOMAIN seen[c]
  /\ wrote' = [wrote EXCEPT ![c] =
       [x \in DOMAIN wrote[c] \cup {k} |-> IF x = k THEN v ELSE wrote[c][x]]]
  /\ UNCHANGED <<store, active, seen, reply>>

Finish(c) ==
  /\ active' = active \ {c}
  /\ seen' = [seen EXCEPT ![c] = Nothing]
  /\ wrote' = [wrote EXCEPT ![c] = Nothing]
  /\ UNCHANGED reply

Commit(c) ==
  /\ c \in active
  /\ \A k \in DOMAIN seen[c] : seen[c][k] = store[k]
  /\ store' = [k \in Key |-> Visible(c, k)]
  /\ Finish(c)

Abort(c) ==
  /\ c \in active
  /\ Finish(c)
  /\ UNCHANGED store

Next ==
  \E c \in Client :
    \/ Start(c) \/ Commit(c) \/ Abort(c) \/ Answered(c)
    \/ \E K \in SUBSET Key : Reach(c, K)
    \/ \E k \in Key, v \in Value \cup {None} : Write(c, k, v)

Spec == Init /\ [][Next]_serialVars
=============================================================================
