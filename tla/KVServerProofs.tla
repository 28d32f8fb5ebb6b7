--------------------------- MODULE KVServerProofs ---------------------------
(***************************************************************************)
(* The server process: what the snapshot thread's file names, what the     *)
(* stop waits for, whose connection a thread reads, and the list of        *)
(* transactions while they end in the order in which they began.  For      *)
(* every number of connections, descriptors, elements and checkpoints.     *)
(***************************************************************************)
EXTENDS KVServer, FiniteSetTheorems, SequenceTheorems, WellFoundedInduction, TLAPS

USE DEF vars, listVars, mainVars, snapVars, threadVars, history

(***************************************************************************)
(* The snapshot thread and the stop.                                       *)
(***************************************************************************)

\* The server's thread makes no checkpoint as long as pid is 0, and takes
\* itself for the snapshot process only then.
SnapInv ==
  /\ pid = 0 => checks = 0
  /\ snap \in {"own_files", "own_exit"} => pid = 0
  /\ named = "garbage" => pid = 0 /\ snap \in {"own_exit", "done"}

\* Where the main thread is once it has made its broadcast.
Stopped == main \in {"destroy_locks", "destroy_txs", "destroy_log", "return"}

SnapAt ==
  {"start", "test", "wait", "woken", "timed", "check", "reap", "own_files", "own_exit", "done"}

\* There is a snapshot process only while the snapshot thread waits for it,
\* and behind a broadcast that came in time the thread makes no checkpoint: it
\* is not waiting, and its next test of is_running fails.
StopInv ==
  /\ is_running \in BOOLEAN /\ snap \in SnapAt
  /\ child # "none" => snap = "reap"
  /\ fault = "checkpoint" => late = TRUE
  /\ late # TRUE /\ Stopped =>
       /\ is_running = FALSE
       /\ snap \in {"start", "woken", "test", "own_files", "own_exit", "done"}

LEMMA SnapInvInit == Init => SnapInv
BY DEF Init, SnapInv

LEMMA SnapInvNext == SnapInv /\ [Next]_vars => SnapInv'
<1> SUFFICES ASSUME SnapInv, [Next]_vars PROVE SnapInv'
  OBVIOUS
<1> USE DEF SnapInv
<1>1. CASE Serving \/ Accept \/ AcceptFails \/ SpawnFails
  BY <1>1 DEF Serving, Loop, CallAccept, Greet, Spawn, Accept, AcceptFails, SpawnFails
<1>11. CASE Sigint \/ SigintAgain \/ AnswerKills
  BY <1>11 DEF Sigint, SigintAgain, AnswerKills, Killed
<1>2. CASE Broadcast
  BY <1>2 DEF Broadcast
<1>3. CASE Destroy \/ DestroyTx
  BY <1>3 DEF Destroy, DestroyTx
<1>4. CASE Wait
  BY <1>4 DEF Wait, SnapMoves
<1>5. CASE Checkpoint
  BY <1>5 DEF Checkpoint, SnapMoves
<1>6. CASE Reap
  BY <1>6 DEF Reap, SnapMoves
<1>7. CASE OwnFiles
  BY <1>7 DEF OwnFiles, SnapMoves
<1>8. ASSUME NEW t \in Thread, Commands(t) PROVE SnapInv'
  BY <1>8 DEF Commands, Begin, BeginLog, Work, EndLog, Unlock, Leave, Disconnect
<1>9. CASE ChildWrites
  BY <1>9 DEF ChildWrites
<1>10. CASE UNCHANGED vars
  BY <1>10
<1> QED BY <1>1, <1>2, <1>3, <1>4, <1>5, <1>6, <1>7, <1>8, <1>9, <1>10, <1>11
        DEF Next, Ending, Snapshotting

LEMMA StopInvInit == Init => StopInv
BY DEF Init, ListInit, StopInv, Stopped, SnapAt

\* What a command leaves of the stop.
LEMMA CommandStops ==
  ASSUME NEW t \in Thread, Commands(t)
  PROVE  /\ UNCHANGED <<is_running, mainVars, snapVars, history>>
         /\ fault' = "checkpoint" => fault = "checkpoint"
<1> USE DEF Reaches, Strays, Add, AddFirst, AddBehind, Delete
<1>1. CASE Begin(t)
  BY <1>1 DEF Begin
<1>2. CASE BeginLog(t) \/ Work(t) \/ EndLog(t) \/ Unlock(t)
  BY <1>2 DEF BeginLog, Work, EndLog, Unlock
<1>3. CASE Leave(t)
  BY <1>3 DEF Leave
<1>4. CASE Disconnect(t)
  BY <1>4 DEF Disconnect
<1> QED BY <1>1, <1>2, <1>3, <1>4 DEF Commands

LEMMA StopInvNext == StopInv /\ [Next]_vars => StopInv'
<1> SUFFICES ASSUME StopInv, [Next]_vars PROVE StopInv'
  OBVIOUS
<1> USE DEF StopInv, Stopped, SnapAt
<1>1. CASE Serving \/ Accept \/ AcceptFails \/ SpawnFails
  BY <1>1 DEF Serving, Loop, CallAccept, Greet, Spawn, Accept, AcceptFails, SpawnFails, Moves
<1>2. CASE Sigint \/ SigintAgain \/ AnswerKills
  BY <1>2 DEF Sigint, SigintAgain, AnswerKills, Killed
<1>3. CASE Up /\ Broadcast
  <2>1. /\ fault = "none" /\ late' = (is_running \/ snap = "timed") /\ snap \notin {"test", "check", "reap"}
        /\ snap' = (IF snap = "wait" THEN "woken" ELSE snap)
        /\ main = "broadcast" /\ fault' = fault /\ child' = child /\ is_running' = is_running
    BY <1>3 DEF Up, Broadcast, TerminateLockFree, Moves
  <2>2. late' # TRUE => is_running = FALSE /\ snap # "timed"
    BY <2>1
  <2> QED BY <2>1, <2>2
<1>4. CASE Destroy
  BY <1>4 DEF Destroy, Moves
<1>5. CASE DestroyTx
  BY <1>5 DEF DestroyTx, DeleteTail, Reaches
<1>6. CASE Wait
  BY <1>6 DEF Wait, SnapMoves
<1>7. CASE Checkpoint
  BY <1>7 DEF Checkpoint, SnapMoves, Reaches, Destroyed
<1>8. CASE Reap
  BY <1>8 DEF Reap, SnapMoves
<1>9. CASE OwnFiles
  BY <1>9 DEF OwnFiles, SnapMoves
<1>10. ASSUME NEW t \in Thread, Commands(t) PROVE StopInv'
  BY <1>10, CommandStops
<1>11. CASE ChildWrites
  BY <1>11 DEF ChildWrites
<1>12. CASE UNCHANGED vars
  BY <1>12
<1> QED BY <1>1, <1>2, <1>3, <1>4, <1>5, <1>6, <1>7, <1>8, <1>9, <1>10, <1>11, <1>12
        DEF Next, Ending, Snapshotting

(***************************************************************************)
(* Connections.                                                            *)
(***************************************************************************)
Live(t) == thread[t].at \notin {"none", "gone"}

ThreadAt == {"none", "ready", "log", "unlock", "leave", "gone"}

ThreadState == [fd : Nat, at : ThreadAt, tx : Nat]

ServerTypes ==
  /\ conns \in 0 .. MaxConn
  /\ open \in [Fd -> 0 .. MaxConn]
  /\ thread \in [Thread -> ThreadState]

\* A connection is accepted, greeted and given its thread before the next; as
\* long as no greeting has failed, the descriptor of a thread that lives is its
\* own connection's.
ConnInv ==
  /\ ServerTypes
  /\ \A t \in Thread : t > conns => thread[t].at = "none"
  /\ main \in {"greet", "spawn"} => conns \in Thread /\ client_fd \in Fd /\ thread[conns].at = "none"
  /\ failed # TRUE =>
       /\ main \in {"greet", "spawn"} => open[client_fd] = conns
       /\ \A t \in Thread : Live(t) => thread[t].fd \in Fd /\ open[thread[t].fd] = t

LEMMA ConnInvInit == Init => ConnInv
<1> SUFFICES ASSUME Init PROVE ConnInv
  OBVIOUS
<1>1. conns = 0 /\ 0 \in 0 .. MaxConn /\ open = [f \in Fd |-> 0] /\ main = "test"
  BY ServerConstants DEF Init
<1>2. NoThread \in ThreadState /\ NoThread.at = "none"
  BY DEF NoThread, ThreadState, ThreadAt
<1>3. thread = [t \in Thread |-> NoThread]
  BY DEF Init
<1>4. ServerTypes
  BY <1>1, <1>2, <1>3 DEF ServerTypes
<1> QED BY <1>1, <1>2, <1>3, <1>4 DEF ConnInv, Live

\* A nonempty set of natural numbers has a smallest element.
LEMMA MinOf ==
  ASSUME NEW S \in SUBSET Nat, S # {}
  PROVE  Min(S) \in S /\ \A n \in S : Min(S) <= n
<1> DEFINE less == {p \in Nat \X Nat : p[1] < p[2]}
<1>1. IsWellFoundedOn(less, Nat)
  BY NatLessThanWellFounded DEF OpToRel
<1>2. PICK m \in S : \A n \in S : ~ (<<n, m>> \in less)
  <2> HIDE DEF less
  <2> QED BY <1>1, WFMin
<1>3. ASSUME NEW n \in S PROVE m <= n
  <2>1. n \in Nat /\ m \in Nat
    OBVIOUS
  <2>2. ~ (<<n, m>>[1] < <<n, m>>[2])
    BY <1>2, <2>1
  <2> QED BY <2>1, <2>2
<1> QED BY <1>3 DEF Min

\* A thread that is given a descriptor, a place or a transaction.
LEMMA Moved ==
  ASSUME thread \in [Thread -> ThreadState], NEW t \in Thread,
         NEW s \in ThreadState, thread' = [thread EXCEPT ![t] = s]
  PROVE  /\ thread' \in [Thread -> ThreadState] /\ thread'[t] = s
         /\ \A u \in Thread : u # t => thread'[u] = thread[u]
OBVIOUS

\* A place and a transaction, or a descriptor and a place, put into a record.
LEMMA StateFields ==
  ASSUME NEW s \in ThreadState, NEW f \in Nat, NEW at \in ThreadAt, NEW tx \in Nat
  PROVE  /\ [[s EXCEPT !.at = at] EXCEPT !.tx = tx] = [fd |-> s.fd, at |-> at, tx |-> tx]
         /\ [[s EXCEPT !.fd = f] EXCEPT !.at = at] = [fd |-> f, at |-> at, tx |-> s.tx]
<1>1. PICK g \in Nat, a \in ThreadAt, x \in Nat : s = [fd |-> g, at |-> a, tx |-> x]
  BY Z3 DEF ThreadState
<1>2. [s EXCEPT !.at = at] = [fd |-> g, at |-> at, tx |-> x]
  BY <1>1
<1>3. [s EXCEPT !.fd = f] = [fd |-> f, at |-> a, tx |-> x]
  BY <1>1
<1>4. [[fd |-> g, at |-> at, tx |-> x] EXCEPT !.tx = tx] = [fd |-> g, at |-> at, tx |-> tx]
  OBVIOUS
<1>5. [[fd |-> f, at |-> a, tx |-> x] EXCEPT !.at = at] = [fd |-> f, at |-> at, tx |-> x]
  OBVIOUS
<1>6. s.fd = g /\ s.tx = x
  BY <1>1
<1> QED BY <1>2, <1>3, <1>4, <1>5, <1>6

\* What Goes leaves of a thread.
LEMMA GoesTo ==
  ASSUME thread \in [Thread -> ThreadState], NEW t \in Thread,
         NEW at \in ThreadAt, NEW tx \in Nat, Goes(t, at, tx)
  PROVE  /\ thread' \in [Thread -> ThreadState]
         /\ thread'[t].fd = thread[t].fd /\ thread'[t].at = at /\ thread'[t].tx = tx
         /\ \A u \in Thread : u # t => thread'[u] = thread[u]
<1>1. thread[t] \in ThreadState /\ thread[t].fd \in Nat
  BY DEF ThreadState
<1>2. thread' = [thread EXCEPT ![t] = [[thread[t] EXCEPT !.at = at] EXCEPT !.tx = tx]]
  BY DEF Goes
<1>3. PICK s \in ThreadState : s = thread[t]
  BY <1>1
<1>5. [[s EXCEPT !.at = at] EXCEPT !.tx = tx] = [fd |-> s.fd, at |-> at, tx |-> tx]
  BY StateFields
<1>4. [fd |-> thread[t].fd, at |-> at, tx |-> tx] \in ThreadState
  BY <1>1 DEF ThreadState
<1> QED BY <1>2, <1>3, <1>4, <1>5, Moved

\* The elements of the list are the numbers of the transactions.
LEMMA NodesAreNumbers ==
  /\ Cardinality(Node) \in Nat /\ Node \subseteq Nat \ {0}
  /\ \A n : n \in Node <=> n \in Nat /\ 1 <= n /\ n <= Cardinality(Node)
<1>1. Cardinality(Node) \in Nat
  BY ListConstants, FS_CardinalityType
<1>2. PICK m \in Nat : m = Cardinality(Node)
  BY <1>1
<1>3. Node = 1 .. m
  BY <1>2, ServerConstants
<1>4. Node \subseteq Nat \ {0}
  BY <1>3
<1>5. \A n : n \in 1 .. m <=> n \in Nat /\ 1 <= n /\ n <= m
  OBVIOUS
<1>6. \A n : n \in Node <=> n \in Nat /\ 1 <= n /\ n <= Cardinality(Node)
  BY <1>2, <1>3, <1>5
<1> QED BY <1>1, <1>4, <1>6

\* Of a thread, a command changes where it is and its transaction.
LEMMA CommandConns ==
  ASSUME ConnInv, NEW t \in Thread, Commands(t)
  PROVE  ConnInv'
<1> USE DEF ConnInv, Live
<1>1. UNCHANGED <<main, client_fd, conns, failed>> /\ ServerTypes
  BY CommandStops
<1>2. CASE thread' = thread /\ open' = open
  BY <1>1, <1>2 DEF ServerTypes
<1>3. ASSUME NEW at \in {"ready", "log", "unlock", "leave"}, NEW tx \in Nat,
             Goes(t, at, tx), Live(t), open' = open
      PROVE  ConnInv'
  <2>1. /\ \A u \in Thread : thread'[u].fd = thread[u].fd
        /\ \A u \in Thread : u # t => thread'[u] = thread[u]
        /\ thread'[t].at = at
        /\ thread' \in [Thread -> ThreadState]
    <3>1. thread \in [Thread -> ThreadState] /\ at \in ThreadAt
      BY <1>1 DEF ServerTypes, ThreadAt
    <3> QED BY <1>3, <3>1, GoesTo
  <2> QED BY <1>1, <1>3, <2>1 DEF ServerTypes
<1>4. CASE Begin(t)
  <2>1. CASE Strays(t, {"txs"}) /\ open' = open
    BY <1>2, <2>1 DEF Strays
  <2>2. CASE Goes(t, "log", txs + 1) /\ txs + 1 \in Node /\ open' = open
    <3>1. PICK n \in Nat : n = txs + 1
      BY <2>2, NodesAreNumbers
    <3>2. Live(t)
      BY <1>4 DEF Begin, Reading
    <3> QED BY <1>3, <2>2, <3>1, <3>2
  <2> QED BY <1>4, <2>1, <2>2 DEF Begin
<1>5. CASE BeginLog(t) \/ EndLog(t) \/ Unlock(t) \/ Work(t)
  <2>1. thread[t].tx \in Nat /\ Live(t) /\ open' = open
    <3>1. thread[t].tx \in Nat
      BY <1>1 DEF ServerTypes, ThreadState
    <3>2. Live(t)
      BY <1>5 DEF BeginLog, EndLog, Unlock, Work, Reading
    <3>3. open' = open
      BY <1>5 DEF BeginLog, EndLog, Unlock, Work
    <3> QED BY <3>1, <3>2, <3>3
  <2>2. \/ thread' = thread
        \/ \E at \in {"ready", "unlock", "leave"} : Goes(t, at, thread[t].tx)
    BY <1>5 DEF BeginLog, EndLog, Unlock, Work, Strays
  <2> QED BY <1>2, <1>3, <2>1, <2>2
<1>6. CASE Leave(t)
  <2>1. Live(t) /\ open' = open /\ (thread' = thread \/ Goes(t, "ready", 0))
    BY <1>6 DEF Leave, Strays
  <2> QED BY <1>2, <1>3, <2>1
<1>7. CASE Disconnect(t)
  <2>1. /\ thread[t].at = "ready" /\ open' = [open EXCEPT ![thread[t].fd] = 0]
        /\ \A u \in Thread : u # t => thread'[u] = thread[u]
        /\ thread'[t].at = "gone"
        /\ thread' \in [Thread -> ThreadState]
    <3>1. thread \in [Thread -> ThreadState] /\ "gone" \in ThreadAt
      BY <1>1 DEF ServerTypes, ThreadAt
    <3>2. PICK tx \in Nat : tx = thread[t].tx
      BY <3>1 DEF ThreadState
    <3>3. Goes(t, "gone", tx)
      BY <1>7, <3>2 DEF Disconnect
    <3> QED BY <1>7, <3>1, <3>3, GoesTo DEF Disconnect
  <2>2. ServerTypes'
    <3>1. 0 \in 0 .. MaxConn
      BY ServerConstants
    <3>2. open' \in [Fd -> 0 .. MaxConn]
      BY <1>1, <2>1, <3>1 DEF ServerTypes
    <3> QED BY <1>1, <2>1, <3>2 DEF ServerTypes
  <2>3. ASSUME failed # TRUE, NEW u \in Thread, u # t, Live(u)
        PROVE  thread[u].fd # thread[t].fd
    BY <2>1, <2>3
  <2>4. main \in {"greet", "spawn"} /\ failed # TRUE => client_fd # thread[t].fd
    <3>1. main \in {"greet", "spawn"} => conns # t
      BY <2>1
    <3> QED BY <2>1, <3>1
  <2>5. main \in {"greet", "spawn"} => thread'[conns].at = "none"
    BY <2>1
  <2>6. \A u \in Thread : u > conns => thread'[u].at = "none"
    BY <2>1
  <2>7. failed # TRUE => \A u \in Thread : Live(u)' =>
          u # t /\ thread'[u].fd \in Fd /\ open'[thread'[u].fd] = u
    BY <1>1, <2>1, <2>3 DEF ServerTypes
  <2>8. main \in {"greet", "spawn"} /\ failed # TRUE => open'[client_fd] = conns
    BY <1>1, <2>1, <2>4 DEF ServerTypes
  <2> QED BY <1>1, <2>2, <2>5, <2>6, <2>7, <2>8
<1> QED BY <1>4, <1>5, <1>6, <1>7 DEF Commands

LEMMA ConnInvNext == ConnInv /\ [Next]_vars => ConnInv'
<1> SUFFICES ASSUME ConnInv, [Next]_vars PROVE ConnInv'
  OBVIOUS
<1> USE DEF ConnInv, Live, Moves
<1>0. /\ ServerTypes /\ conns \in 0 .. MaxConn /\ MaxConn \in Nat /\ Thread = 1 .. MaxConn
  BY ServerConstants DEF ServerTypes, Thread
<1>1. CASE Loop \/ CallAccept \/ AcceptFails
  BY <1>1 DEF Loop, CallAccept, AcceptFails, ServerTypes
<1>11. CASE Sigint \/ SigintAgain \/ AnswerKills
  BY <1>11 DEF Sigint, SigintAgain, AnswerKills, Killed, ServerTypes
<1>2. CASE Accept
  <2>1. PICK f \in Fd : f = Min(Free) /\ open[f] = 0
    <3>1. Free \in SUBSET Nat /\ Free # {}
      BY <1>2, ServerConstants DEF Accept, Free
    <3>2. Min(Free) \in Free
      BY <3>1, MinOf
    <3> QED BY <3>2 DEF Free
  <2>2. /\ conns' = conns + 1 /\ conns + 1 \in Thread /\ main' = "greet" /\ client_fd' = f
        /\ open' = [open EXCEPT ![f] = conns + 1] /\ UNCHANGED <<thread, failed>>
    BY <1>0, <1>2, <2>1 DEF Accept
  <2>3. ServerTypes'
    BY <1>0, <2>2 DEF ServerTypes
  <2>4. \A t \in Thread : t > conns + 1 => thread[t].at = "none"
    BY <1>0
  <2>5. thread[conns + 1].at = "none"
    BY <1>0, <2>2
  <2>6. open'[f] = conns + 1
    BY <1>0, <2>2 DEF ServerTypes
  <2>7. failed # TRUE => \A t \in Thread : Live(t) => thread[t].fd \in Fd /\ open'[thread[t].fd] = t
    BY <1>0, <2>1, <2>2 DEF ServerTypes
  <2> QED BY <2>2, <2>3, <2>4, <2>5, <2>6, <2>7
<1>3. CASE Greet
  <2>1. 0 \in 0 .. MaxConn
    BY <1>0
  <2>2. open' = open \/ open' = [open EXCEPT ![client_fd] = 0]
    BY <1>3 DEF Greet
  <2>3. open' \in [Fd -> 0 .. MaxConn] /\ UNCHANGED <<conns, thread>>
    BY <1>0, <1>3, <2>1, <2>2 DEF Greet, ServerTypes
  <2>4. ServerTypes'
    BY <1>0, <2>3 DEF ServerTypes
  <2> QED BY <1>3, <2>4 DEF Greet
<1>4. CASE Spawn
  <2>1. /\ conns \in Thread /\ client_fd \in Fd /\ main' = "test"
        /\ thread' = [thread EXCEPT ![conns].fd = client_fd, ![conns].at = "ready"]
        /\ UNCHANGED <<client_fd, conns, open, failed>>
        /\ failed # TRUE => open[client_fd] = conns
    BY <1>4 DEF Spawn
  <2>2. client_fd \in Nat
    BY <2>1, ServerConstants
  <2>3. /\ thread'[conns].fd = client_fd /\ thread'[conns].at = "ready"
        /\ \A t \in Thread : t # conns => thread'[t] = thread[t]
        /\ thread' \in [Thread -> ThreadState]
    <3>1. thread \in [Thread -> ThreadState] /\ thread[conns] \in ThreadState
      BY <1>0, <2>1 DEF ServerTypes
    <3>2. thread' = [thread EXCEPT ![conns] =
                       [[thread[conns] EXCEPT !.fd = client_fd] EXCEPT !.at = "ready"]]
      BY <2>1
    <3>3. PICK s \in ThreadState : s = thread[conns]
      BY <3>1
    <3>4. PICK f \in Nat : f = client_fd
      BY <2>2
    <3>5. [[s EXCEPT !.fd = f] EXCEPT !.at = "ready"] = [fd |-> f, at |-> "ready", tx |-> s.tx]
      BY StateFields DEF ThreadAt
    <3>6. [fd |-> f, at |-> "ready", tx |-> s.tx] \in ThreadState
      BY DEF ThreadState, ThreadAt
    <3>7. PICK c \in Thread : c = conns
      BY <2>1
    <3>8. thread' = [thread EXCEPT ![c] = [fd |-> f, at |-> "ready", tx |-> s.tx]]
      BY <3>2, <3>3, <3>4, <3>5, <3>7
    <3>9. /\ thread' \in [Thread -> ThreadState] /\ thread'[c] = [fd |-> f, at |-> "ready", tx |-> s.tx]
          /\ \A t \in Thread : t # c => thread'[t] = thread[t]
      BY <3>1, <3>6, <3>8, Moved
    <3> QED BY <3>4, <3>7, <3>9
  <2>4. ServerTypes'
    BY <1>0, <2>1, <2>3 DEF ServerTypes
  <2>5. \A t \in Thread : t > conns => thread'[t].at = "none"
    <3>1. \A t \in Thread : t > conns => t # conns
      BY <1>0
    <3> QED BY <2>3, <3>1
  <2>6. failed # TRUE => \A t \in Thread : Live(t)' => thread'[t].fd \in Fd /\ open'[thread'[t].fd] = t
    BY <2>1, <2>3
  <2> QED BY <2>1, <2>4, <2>5, <2>6
<1>5. CASE SpawnFails
  <2>1. /\ conns \in Thread /\ client_fd \in Fd /\ main' = "test" /\ thread[conns].at = "none"
        /\ open' = [open EXCEPT ![client_fd] = 0]
        /\ UNCHANGED <<client_fd, conns, thread, failed>>
        /\ failed # TRUE => open[client_fd] = conns
    BY <1>5 DEF SpawnFails
  <2>2. ServerTypes'
    <3>1. 0 \in 0 .. MaxConn
      BY <1>0
    <3> QED BY <1>0, <2>1, <3>1 DEF ServerTypes
  <2>3. failed # TRUE => \A t \in Thread : Live(t) =>
          thread[t].fd \in Fd /\ thread[t].fd # client_fd /\ open'[thread[t].fd] = t
    BY <1>0, <2>1 DEF ServerTypes
  <2> QED BY <2>1, <2>2, <2>3
<1>6. CASE Broadcast \/ Destroy \/ DestroyTx
  BY <1>6 DEF Broadcast, Destroy, DestroyTx, ServerTypes
<1>7. CASE Wait \/ Checkpoint \/ Reap \/ OwnFiles
  BY <1>7 DEF Wait, Checkpoint, Reap, OwnFiles, ServerTypes
<1>8. ASSUME NEW t \in Thread, Commands(t) PROVE ConnInv'
  BY <1>8, CommandConns
<1>9. CASE ChildWrites
  BY <1>9 DEF ChildWrites, ServerTypes
<1>10. CASE UNCHANGED vars
  BY <1>10 DEF ServerTypes
<1> QED BY <1>1, <1>2, <1>3, <1>4, <1>5, <1>6, <1>7, <1>8, <1>9, <1>10, <1>11
        DEF Next, Serving, Ending, Snapshotting

(***************************************************************************)
(* The theorems about the process.                                         *)
(***************************************************************************)

\* last_checked_lsn.kvdb names garbage only when a server stops before its
\* first checkpoint, and takes itself for the snapshot process.
THEOREM NamedAreChecks == Spec => []NamesCheckpoint
<1>1. Spec => []SnapInv
  BY SnapInvInit, SnapInvNext, PTL DEF Spec
<1>2. SnapInv => NamesCheckpoint
  BY DEF SnapInv, NamesCheckpoint
<1> QED BY <1>1, <1>2, PTL

\* A stop waits for the checkpoint under way and its process, and none begins
\* behind the broadcast, unless is_running was still set at the broadcast or
\* the timer had fired.
THEOREM StopWaits == Spec => []StopAfterCheckpoint
<1>1. Spec => []StopInv
  BY StopInvInit, StopInvNext, PTL DEF Spec
<1>2. StopInv => StopAfterCheckpoint
  BY DEF StopInv, StopAfterCheckpoint, Stopped
<1> QED BY <1>1, <1>2, PTL

\* A thread reads the connection it was started for, though descriptors are
\* used again, as long as no greeting has failed.
THEOREM ConnectionsAreOwn == Spec => []OwnConnection
<1>1. Spec => []ConnInv
  BY ConnInvInit, ConnInvNext, PTL DEF Spec
<1>2. ConnInv => OwnConnection
  BY DEF ConnInv, OwnConnection, Live
<1> QED BY <1>1, <1>2, PTL

(***************************************************************************)
(* The list of transactions, as long as only its first element has been    *)
(* deleted.                                                                *)
(***************************************************************************)

\* The pointers follow the order in which the elements were added.
Linked ==
  /\ order \in Seq(Node)
  /\ \A i, j \in 1 .. Len(order) : order[i] = order[j] => i = j
  /\ DOMAIN cell = {order[i] : i \in 1 .. Len(order)}
  /\ \A n \in DOMAIN cell : cell[n] \in [next : Pointer, prev : Pointer]
  /\ \A i \in 1 .. Len(order) :
       cell[order[i]].next = IF i = Len(order) THEN Null ELSE order[i + 1]
  /\ head = IF order = <<>> THEN Null ELSE order[1]
  /\ tail = IF order = <<>> THEN Null ELSE order[Len(order)]
  /\ size = Len(order)

\* Each element is the transaction of a thread.
Owned == \A i \in 1 .. Len(order) : \E t \in Thread : thread[t].tx = order[i]

ListInv ==
  /\ behind \in BOOLEAN
  /\ behind # TRUE => Linked /\ Owned /\ fault # "list"


\* No more elements than there are numbers for.
LEMMA OrderIsShort ==
  ASSUME Linked
  PROVE  Len(order) \in Nat /\ Len(order) <= Cardinality(Node)
<1>1. PICK s \in Seq(Node) : s = order
  BY DEF Linked
<1>2. Len(s) \in Nat /\ s \in [1 .. Len(s) -> Node]
  BY LenProperties
<1>3. s \in Injection(1 .. Len(s), Node)
  BY <1>1, <1>2 DEF Linked, Injection, IsInjective
<1>4. Cardinality(1 .. Len(s)) <= Cardinality(Node)
  BY <1>3, FS_Injection, ListConstants
<1>5. Cardinality(1 .. Len(s)) = Len(s)
  BY <1>2, FS_Interval
<1> QED BY <1>1, <1>2, <1>4, <1>5

\* The walk goes through the elements in their order, and stops behind the last.
LEMMA WalkIs ==
  ASSUME Linked
  PROVE  \A i \in 0 .. Cardinality(Node) :
           Walk[i] = IF i < Len(order) THEN order[i + 1] ELSE Null
<1>1. PICK N \in Nat : N = Cardinality(Node)
  BY ListConstants, FS_CardinalityType
<1>2. PICK len \in Nat : len = Len(order) /\ len <= N
  BY <1>1, OrderIsShort
<1> DEFINE Ends == [i \in 0 .. N |-> IF i < len THEN order[i + 1] ELSE Null]
<1>3. Null \notin DOMAIN cell
  BY <1>2, ListConstants, ElementOfSeq DEF Linked
<1>4. Ends = [i \in 0 .. N |->
               IF i = 0 THEN head
               ELSE IF Allocated(Ends[i - 1]) THEN cell[Ends[i - 1]].next ELSE Ends[i - 1]]
  <2> SUFFICES ASSUME NEW i \in 0 .. N
               PROVE  Ends[i] = IF i = 0 THEN head
                                ELSE IF Allocated(Ends[i - 1]) THEN cell[Ends[i - 1]].next
                                     ELSE Ends[i - 1]
    OBVIOUS
  <2>1. CASE i = 0
    <3>1. order = <<>> <=> len = 0
      BY <1>2, EmptySeq DEF Linked
    <3> QED BY <1>2, <2>1, <3>1 DEF Linked
  <2>2. CASE i # 0 /\ i - 1 < len
    <3>1. i \in 1 .. len /\ Ends[i - 1] = order[i] /\ Allocated(order[i])
      BY <1>2, <2>2 DEF Linked, Allocated
    <3>2. cell[order[i]].next = IF i = len THEN Null ELSE order[i + 1]
      BY <1>2, <3>1 DEF Linked
    <3> QED BY <2>2, <3>1, <3>2
  <2>3. CASE i # 0 /\ ~(i - 1 < len)
    <3>1. Ends[i - 1] = Null /\ Ends[i] = Null /\ ~Allocated(Null)
      BY <1>2, <1>3, <2>3 DEF Allocated
    <3> QED BY <2>3, <3>1
  <2> QED BY <2>1, <2>2, <2>3
<1>5. Walk = [i \in 0 .. N |->
               IF i = 0 THEN head
               ELSE IF Allocated(Walk[i - 1]) THEN cell[Walk[i - 1]].next ELSE Walk[i - 1]]
  <2> HIDE DEF Ends
  <2> QED BY <1>1, <1>4 DEF Walk
<1>6. ASSUME NEW i \in 0 .. N, Walk[i] # Ends[i] PROVE FALSE
  <2> DEFINE Wrong == {j \in 0 .. N : Walk[j] # Ends[j]}
  <2>1. Wrong \in SUBSET Nat /\ Wrong # {}
    BY <1>6
  <2>2. PICK m \in Wrong : \A j \in Wrong : m <= j
    <3> HIDE DEF Wrong
    <3> QED BY <2>1, MinOf
  <2>3. m # 0
    <3>1. 0 \in 0 .. N
      OBVIOUS
    <3>2. Walk[0] = head
      BY <1>5, <3>1
    <3>3. Ends[0] = head
      <4> HIDE DEF Ends
      <4> QED BY <1>4, <3>1
    <3> QED BY <2>2, <3>2, <3>3
  <2>4. m - 1 \in 0 .. N /\ m - 1 \notin Wrong
    BY <2>2, <2>3
  <2>5. Walk[m - 1] = Ends[m - 1]
    BY <2>4
  <2>6. Walk[m] = IF Allocated(Walk[m - 1]) THEN cell[Walk[m - 1]].next ELSE Walk[m - 1]
    BY <1>5, <2>3
  <2>7. Ends[m] = IF Allocated(Ends[m - 1]) THEN cell[Ends[m - 1]].next ELSE Ends[m - 1]
    <3> HIDE DEF Ends
    <3> QED BY <1>4, <2>3
  <2> QED BY <2>2, <2>5, <2>6, <2>7
<1> QED BY <1>1, <1>2, <1>6

\* What kv_ll_foreach hands to its caller is the order.
LEMMA ListingIs ==
  ASSUME Linked
  PROVE  Listing = order /\ ~Dangles
<1>1. PICK N \in Nat : N = Cardinality(Node)
  BY ListConstants, FS_CardinalityType
<1>2. PICK len \in Nat : len = Len(order) /\ len <= N
  BY <1>1, OrderIsShort
<1>3. \A i \in 0 .. N : Walk[i] = IF i < len THEN order[i + 1] ELSE Null
  BY <1>1, <1>2, WalkIs
<1>4. Null \notin DOMAIN cell
  BY <1>2, ListConstants, ElementOfSeq DEF Linked
<1>5. Visits = 0 .. len - 1
  <2>1. \A i \in 0 .. N - 1 : Allocated(Walk[i]) <=> i < len
    <3> SUFFICES ASSUME NEW i \in 0 .. N - 1 PROVE Allocated(Walk[i]) <=> i < len
      OBVIOUS
    <3>1. CASE i < len
      <4>1. i + 1 \in 1 .. len /\ Walk[i] = order[i + 1]
        BY <1>3, <3>1
      <4> QED BY <1>2, <3>1, <4>1 DEF Linked, Allocated
    <3>2. CASE ~(i < len)
      BY <1>3, <1>4, <3>2 DEF Allocated
    <3> QED BY <3>1, <3>2
  <2> QED BY <1>1, <1>2, <2>1 DEF Visits
<1>6. Cardinality(Visits) = len
  <2>1. Cardinality(0 .. len - 1) = IF 0 > len - 1 THEN 0 ELSE len - 1 - 0 + 1
    BY FS_Interval
  <2> QED BY <1>5, <2>1
<1>7. order = [i \in 1 .. len |-> order[i]]
  BY <1>2, LenProperties DEF Linked
<1>8. Listing = [i \in 1 .. len |-> Walk[i - 1]]
  BY <1>6 DEF Listing
<1>9. \A i \in 1 .. len : Walk[i - 1] = order[i]
  BY <1>2, <1>3
<1>10. Walk[N] = Null
  BY <1>2, <1>3
<1> QED BY <1>1, <1>7, <1>8, <1>9, <1>10 DEF Dangles

(***************************************************************************)
(* What the operations of the list leave of it.                            *)
(***************************************************************************)

\* Where no element is linked, and where one is.
LEMMA LinkedEnds ==
  ASSUME Linked
  PROVE  /\ Len(order) \in Nat /\ (order = <<>> <=> Len(order) = 0)
         /\ \A i \in 1 .. Len(order) : order[i] \in Node /\ Allocated(order[i])
         /\ head = Null <=> order = <<>>
         /\ order # <<>> => Allocated(tail) /\ Allocated(head)
<1>1. Len(order) \in Nat /\ (order = <<>> <=> Len(order) = 0)
  BY EmptySeq, LenProperties DEF Linked
<1>2. \A i \in 1 .. Len(order) : order[i] \in Node /\ Allocated(order[i])
  BY <1>1, ElementOfSeq DEF Linked, Allocated
<1>3. order # <<>> => 1 \in 1 .. Len(order) /\ Len(order) \in 1 .. Len(order)
  BY <1>1
<1> QED BY <1>1, <1>2, <1>3, ListConstants DEF Linked

\* kv_ll_add, to an empty list and behind others.
LEMMA AddedLinks ==
  ASSUME Linked, NEW n \in Node, Add(n)
  PROVE  Linked' /\ order' = Append(order, n) /\ fault' = fault
<1>1. ~Allocated(n) /\ order' = Append(order, n) /\ size' = size + 1
      /\ (AddFirst(n) \/ AddBehind(n))
  BY LinkedEnds DEF Add
<1>2. PICK len \in Nat : len = Len(order)
  BY LinkedEnds
<1>3. /\ Append(order, n) \in Seq(Node) /\ Len(Append(order, n)) = len + 1
      /\ \A i \in 1 .. len : Append(order, n)[i] = order[i]
      /\ Append(order, n)[len + 1] = n
  BY <1>2 DEF Linked
<1>4. \A i \in 1 .. len : order[i] # n
  BY <1>1, <1>2, LinkedEnds
<1>5. /\ order' \in Seq(Node) /\ Len(order') = len + 1
      /\ \A i \in 1 .. len : order'[i] = order[i]
      /\ order'[len + 1] = n
  BY <1>1, <1>3
<1>6. \A i, j \in 1 .. len + 1 : order'[i] = order'[j] => i = j
  BY <1>2, <1>4, <1>5 DEF Linked
<1>7. {order'[i] : i \in 1 .. len + 1} = {order[i] : i \in 1 .. len} \cup {n}
  BY <1>2, <1>5
<1>8. PICK p \in Pointer, last \in Pointer :
        cell' = With(n, p, last) /\ last = IF order = <<>> THEN Null ELSE order[len]
  <2>1. CASE AddFirst(n)
    BY <2>1, LinkedEnds DEF AddFirst, Pointer
  <2>2. CASE AddBehind(n)
    <3>1. order # <<>> /\ tail = order[len] /\ tail \in Pointer
      BY <1>2, <2>2, LinkedEnds DEF AddBehind, Linked, Pointer
    <3>2. {Null, Wild} \cup DOMAIN cell \subseteq Pointer
      <4>1. DOMAIN cell \subseteq Node
        BY <1>2 DEF Linked
      <4> QED BY <4>1 DEF Pointer
    <3> QED BY <2>2, <3>1, <3>2 DEF AddBehind
  <2> QED BY <1>1, <2>1, <2>2
<1>9. /\ DOMAIN cell' = DOMAIN cell \cup {n}
      /\ cell'[n] = [next |-> Null, prev |-> p]
      /\ \A m \in DOMAIN cell : m # n =>
           cell'[m] = [next |-> IF m = last THEN n ELSE cell[m].next, prev |-> cell[m].prev]
  BY <1>8 DEF With
<1>10. n \notin DOMAIN cell /\ \A m \in DOMAIN cell : m # n
  BY <1>1 DEF Allocated
<1>11. \A m \in DOMAIN cell' : cell'[m] \in [next : Pointer, prev : Pointer]
  <2>1. cell'[n] \in [next : Pointer, prev : Pointer]
    BY <1>9 DEF Pointer
  <2>2. ASSUME NEW m \in DOMAIN cell PROVE cell'[m] \in [next : Pointer, prev : Pointer]
    <3>1. cell[m].next \in Pointer /\ cell[m].prev \in Pointer
      BY <2>2 DEF Linked
    <3>2. n \in Pointer
      BY DEF Pointer
    <3> QED BY <1>9, <1>10, <3>1, <3>2
  <2> QED BY <1>9, <2>1, <2>2
<1>12. ASSUME NEW i \in 1 .. len + 1
       PROVE  cell'[order'[i]].next = IF i = len + 1 THEN Null ELSE order'[i + 1]
  <2>1. CASE i = len + 1
    BY <1>5, <1>9, <2>1
  <2>2. CASE i \in 1 .. len
    <3>1. order'[i] = order[i] /\ order[i] \in DOMAIN cell
      BY <1>2, <1>5, <2>2, LinkedEnds DEF Allocated
    <3>2. cell'[order[i]].next = IF order[i] = last THEN n ELSE cell[order[i]].next
      BY <1>9, <1>10, <3>1
    <3>3. order # <<>> /\ last = order[len] /\ len \in 1 .. len
      BY <1>2, <1>8, <2>2, LinkedEnds
    <3>4. order[i] = last <=> i = len
      BY <1>2, <2>2, <3>3 DEF Linked
    <3>5. i # len => cell[order[i]].next = order[i + 1] /\ i + 1 \in 1 .. len
      BY <1>2, <2>2 DEF Linked
    <3> QED BY <1>5, <2>2, <3>1, <3>2, <3>4, <3>5
  <2> QED BY <2>1, <2>2
<1>13. DOMAIN cell' = {order'[i] : i \in 1 .. len + 1}
  BY <1>2, <1>7, <1>9 DEF Linked
<1>14. /\ head' = order'[1] /\ tail' = order'[len + 1] /\ order' # <<>> /\ size' = len + 1
       /\ fault' = fault
  <2>1. CASE AddFirst(n)
    <3>1. len = 0
      BY <1>2, <2>1, LinkedEnds DEF AddFirst
    <3> QED BY <1>1, <1>2, <1>5, <2>1, <3>1, EmptySeq DEF AddFirst, Linked
  <2>2. CASE AddBehind(n)
    <3>1. order # <<>> /\ len # 0
      BY <1>2, <2>2, LinkedEnds DEF AddBehind
    <3> QED BY <1>1, <1>2, <1>5, <2>2, <3>1, EmptySeq DEF AddBehind, Linked
  <2> QED BY <1>1, <2>1, <2>2
<1>15. Linked'
  BY <1>2, <1>5, <1>6, <1>11, <1>12, <1>13, <1>14 DEF Linked
<1> QED BY <1>1, <1>14, <1>15

\* An element of a sequence that is its first is removed from its front.
LEMMA FirstRemoved ==
  ASSUME NEW S, NEW s \in Seq(S), s # <<>>
  PROVE  /\ RemoveFirst(s, s[1]) \in Seq(S)
         /\ Len(RemoveFirst(s, s[1])) = Len(s) - 1
         /\ \A i \in 1 .. Len(s) - 1 : RemoveFirst(s, s[1])[i] = s[i + 1]
<1> DEFINE I == {i \in 1 .. Len(s) : s[i] = s[1]}
<1>1. Len(s) \in Nat \ {0} /\ 1 \in I /\ I \in SUBSET Nat
  BY EmptySeq
<1>2. Min(I) = 1
  <2>1. Min(I) \in I /\ Min(I) <= 1
    <3> HIDE DEF I
    <3> QED BY <1>1, MinOf
  <2> QED BY <1>1, <2>1
<1>3. SelectInSeq(s, LAMBDA v : v = s[1]) = 1
  BY <1>1, <1>2 DEF SelectInSeq
<1>4. RemoveFirst(s, s[1]) = RemoveAt(s, 1)
  BY <1>1, <1>3 DEF RemoveFirst
<1>5. SubSeq(s, 1, 0) = <<>>
  BY SubSeqEmpty
<1>6. /\ SubSeq(s, 2, Len(s)) \in Seq(S) /\ Len(SubSeq(s, 2, Len(s))) = Len(s) - 1
      /\ \A i \in 1 .. Len(s) - 1 : SubSeq(s, 2, Len(s))[i] = s[i + 1]
  <2>1. \A i \in 2 .. Len(s) : s[i] \in S
    BY <1>1, ElementOfSeq
  <2>2. /\ SubSeq(s, 2, Len(s)) \in Seq(S)
        /\ Len(SubSeq(s, 2, Len(s))) = IF 2 <= Len(s) THEN Len(s) - 2 + 1 ELSE 0
        /\ \A i \in 1 .. Len(s) - 2 + 1 : SubSeq(s, 2, Len(s))[i] = s[2 + i - 1]
    BY <1>1, <2>1, SubSeqProperties
  <2>3. PICK len \in Nat \ {0} : len = Len(s)
    BY <1>1
  <2>4. Len(SubSeq(s, 2, Len(s))) = len - 1
    BY <2>2, <2>3
  <2>5. ASSUME NEW i \in 1 .. len - 1 PROVE SubSeq(s, 2, Len(s))[i] = s[i + 1]
    <3>1. i \in 1 .. len - 2 + 1 /\ 2 + i - 1 = i + 1
      BY <2>3
    <3> QED BY <2>2, <2>3, <3>1
  <2> QED BY <2>2, <2>3, <2>4, <2>5
<1>7. <<>> \o SubSeq(s, 2, Len(s)) = SubSeq(s, 2, Len(s))
  BY <1>6, ConcatEmptySeq
<1>8. RemoveAt(s, 1) = SubSeq(s, 2, Len(s))
  BY <1>5, <1>7 DEF RemoveAt
<1> QED BY <1>4, <1>6, <1>8

\* kv_ll_del of the first element, or of none.
LEMMA DeletedLinks ==
  ASSUME Linked, NEW n, n = head, Delete(n)
  PROVE  /\ Linked' /\ fault' = fault
         /\ \A i \in 1 .. Len(order') : i + 1 \in 1 .. Len(order) /\ order'[i] = order[i + 1]
         /\ order # <<>> => n = order[1]
<1>0. Listing = order /\ ~Dangles
  BY ListingIs
<1>1. PICK len \in Nat : len = Len(order) /\ (order = <<>> <=> len = 0)
  BY LinkedEnds
<1>2. CASE order = <<>>
  <2>1. ~Found(n)
    BY <1>0, <1>1, <1>2 DEF Found, Contains
  <2>2. UNCHANGED <<head, tail, size, cell, fault, order>>
    BY <1>0, <2>1 DEF Delete
  <2> QED BY <1>1, <1>2, <2>2 DEF Linked
<1>3. CASE order # <<>>
  <2>1. /\ len >= 1 /\ 1 \in 1 .. len /\ len \in 1 .. len
        /\ head = order[1] /\ tail = order[len] /\ n \in Node
    BY <1>1, <1>3, LinkedEnds DEF Linked
  <2>2. n = tail <=> len = 1
    BY <1>1, <2>1 DEF Linked
  <2>3. /\ PrevOf(n) = Null
        /\ NextOf(n) = IF len = 1 THEN Null ELSE order[2]
    BY <1>1, <2>1, <2>2 DEF Linked, PrevOf, NextOf
  <2>4. len # 1 => 2 \in 1 .. len /\ order[2] \in DOMAIN cell
    BY <1>1, <2>1, LinkedEnds DEF Allocated
  <2>5. Found(n) /\ Followed(n) \subseteq DOMAIN cell
    BY <1>0, <1>1, <2>1, <2>3, <2>4 DEF Found, Contains, Followed
  <2>6. /\ head' = (IF len = 1 THEN Null ELSE order[2])
        /\ tail' = (IF len = 1 THEN Null ELSE tail)
        /\ cell' = Without(n) /\ size' = size - 1 /\ order' = RemoveFirst(order, n)
        /\ fault' = fault
    BY <2>1, <2>2, <2>3, <2>5 DEF Delete
  <2>7. PICK s \in Seq(Node) : s = order
    BY DEF Linked
  <2>8. /\ order' \in Seq(Node) /\ Len(order') = len - 1
        /\ \A i \in 1 .. len - 1 : order'[i] = order[i + 1]
    BY <1>1, <1>3, <2>1, <2>6, <2>7, FirstRemoved
  <2>9. \A i, j \in 1 .. len - 1 : order'[i] = order'[j] => i = j
    BY <1>1, <2>8 DEF Linked
  <2>10. DOMAIN cell' = DOMAIN cell \ {n}
    BY <2>6 DEF Without
  <2>21. PICK second : second = NextOf(n)
    OBVIOUS
  <2>11. \A m \in DOMAIN cell \ {n} :
           cell'[m] = [next |-> cell[m].next,
                       prev |-> IF m = second THEN Null ELSE cell[m].prev]
    <3>1. \A m \in DOMAIN cell : m # Null
      BY ListConstants, LinkedEnds DEF Linked
    <3> QED BY <2>3, <2>6, <2>21, <3>1 DEF Without
  <2>12. \A m \in DOMAIN cell' : cell'[m] \in [next : Pointer, prev : Pointer]
    <3> SUFFICES ASSUME NEW m \in DOMAIN cell \ {n}
                 PROVE  cell'[m] \in [next : Pointer, prev : Pointer]
      BY <2>10
    <3>1. cell[m].next \in Pointer /\ cell[m].prev \in Pointer
      BY DEF Linked
    <3>2. Null \in Pointer
      BY DEF Pointer
    <3>3. PICK prev \in Pointer : prev = IF m = second THEN Null ELSE cell[m].prev
      BY <3>1, <3>2
    <3>4. PICK next \in Pointer : next = cell[m].next
      BY <3>1
    <3>5. cell'[m] = [next |-> cell[m].next, prev |-> IF m = second THEN Null ELSE cell[m].prev]
      BY <2>11
    <3> QED BY <3>3, <3>4, <3>5
  <2>13. DOMAIN cell' = {order'[i] : i \in 1 .. len - 1}
    <3>1. \A i \in 1 .. len : order[i] # n <=> i # 1
      BY <1>1, <2>1 DEF Linked
    <3>2. \A i \in 1 .. len - 1 : order'[i] \in DOMAIN cell'
      BY <1>1, <2>1, <2>8, <2>10, <3>1 DEF Linked
    <3>3. ASSUME NEW m \in DOMAIN cell' PROVE \E i \in 1 .. len - 1 : m = order'[i]
      <4>1. PICK i \in 1 .. len : m = order[i] /\ i # 1
        BY <1>1, <2>10, <3>1, <3>3 DEF Linked
      <4>2. i - 1 \in 1 .. len - 1 /\ i - 1 + 1 = i
        BY <4>1
      <4>3. order'[i - 1] = order[i]
        BY <2>8, <4>2
      <4> QED BY <4>1, <4>2, <4>3
    <3> QED BY <3>2, <3>3
  <2>14. ASSUME NEW i \in 1 .. len - 1
         PROVE  cell'[order'[i]].next = IF i = len - 1 THEN Null ELSE order'[i + 1]
    <3>1. PICK m : m = order[i + 1]
      OBVIOUS
    <3>4. order'[i] = m /\ i + 1 \in 1 .. len
      BY <2>8, <3>1
    <3>5. m \in DOMAIN cell
      BY <1>1, <3>1, <3>4, LinkedEnds DEF Allocated
    <3>6. m # n
      BY <1>1, <2>1, <3>1, <3>4 DEF Linked
    <3>9. cell'[m] = [next |-> cell[m].next, prev |-> IF m = second THEN Null ELSE cell[m].prev]
      BY <2>11, <3>5, <3>6
    <3>2. cell'[order'[i]].next = cell[order[i + 1]].next
      BY <3>1, <3>4, <3>9
    <3>3. cell[order[i + 1]].next = IF i + 1 = len THEN Null ELSE order[i + 1 + 1]
      BY <1>1, <3>4 DEF Linked
    <3>7. i = len - 1 <=> i + 1 = len
      OBVIOUS
    <3>8. i # len - 1 => i + 1 \in 1 .. len - 1 /\ order'[i + 1] = order[i + 1 + 1]
      BY <2>8
    <3> QED BY <3>2, <3>3, <3>7, <3>8
  <2>15. order' = <<>> <=> len = 1
    BY <2>8, EmptySeq
  <2>17. head' = IF order' = <<>> THEN Null ELSE order'[1]
    BY <2>1, <2>6, <2>8, <2>15
  <2>18. tail' = IF order' = <<>> THEN Null ELSE order'[Len(order')]
    <3>1. len # 1 => len - 1 \in 1 .. len - 1 /\ order'[len - 1] = order[len]
      BY <2>1, <2>8
    <3> QED BY <2>1, <2>6, <2>8, <2>15, <3>1
  <2>19. size' = Len(order')
    BY <1>1, <2>6, <2>8 DEF Linked
  <2>20. /\ \A i, j \in 1 .. Len(order') : order'[i] = order'[j] => i = j
         /\ DOMAIN cell' = {order'[i] : i \in 1 .. Len(order')}
         /\ \A i \in 1 .. Len(order') :
              cell'[order'[i]].next = IF i = Len(order') THEN Null ELSE order'[i + 1]
    BY <2>8, <2>9, <2>13, <2>14
  <2>16. Linked'
    BY <2>8, <2>12, <2>17, <2>18, <2>19, <2>20 DEF Linked
  <2> QED BY <1>1, <2>1, <2>6, <2>8, <2>16
<1> QED BY <1>2, <1>3

\* kv_ll_del_tail of the only element, and of several, which fails or leaves
\* tail behind.
LEMMA TailDeletedLinks ==
  ASSUME Linked, DeleteTail, behind' # TRUE, behind \in BOOLEAN
  PROVE  \/ Linked' /\ order' = <<>> /\ fault' = fault /\ behind' = behind
         \/ UNCHANGED <<head, tail, size, cell, order, behind>> /\ fault' = "destroy" /\ 1 < Len(order)
<1>1. PICK len \in Nat : len = Len(order) /\ (order = <<>> <=> len = 0)
  BY LinkedEnds
<1>2. CASE head # Null /\ head = tail
  <2>1. len = 1 /\ head = order[1] /\ order # <<>>
    BY <1>1, <1>2, LinkedEnds DEF Linked
  <2>2. /\ head' = Null /\ tail' = Null /\ cell' = Without(tail) /\ size' = size - 1
        /\ order' = RemoveFirst(order, order[1]) /\ fault' = fault /\ behind' = behind
    BY <1>2, <2>1 DEF DeleteTail, IsEmpty
  <2>3. PICK s \in Seq(Node) : s = order
    BY DEF Linked
  <2>7. order' = RemoveFirst(s, s[1]) /\ s # <<>> /\ Len(s) = 1
    BY <1>1, <2>1, <2>2, <2>3
  <2>4. order' \in Seq(Node) /\ Len(order') = 0
    BY <2>7, FirstRemoved
  <2>5. order' = <<>>
    BY <2>4, EmptySeq
  <2>6. DOMAIN cell' = {}
    <3>1. DOMAIN cell' = DOMAIN cell \ {order[1]}
      BY <1>2, <2>1, <2>2 DEF Without
    <3>2. DOMAIN cell = {order[i] : i \in 1 .. 1}
      BY <1>1, <2>1 DEF Linked
    <3> QED BY <3>1, <3>2
  <2>8. size' = 0
    <3>1. size = 1
      BY <1>1, <2>1 DEF Linked
    <3> QED BY <2>2, <3>1
  <2>10. \A i : i \notin 1 .. Len(order')
    BY <2>4
  <2>9. Linked'
    <3>1. /\ \A i, j \in 1 .. Len(order') : order'[i] = order'[j] => i = j
          /\ DOMAIN cell' = {order'[i] : i \in 1 .. Len(order')}
          /\ \A m \in DOMAIN cell' : cell'[m] \in [next : Pointer, prev : Pointer]
          /\ \A i \in 1 .. Len(order') :
               cell'[order'[i]].next = IF i = Len(order') THEN Null ELSE order'[i + 1]
      BY <2>6, <2>10
    <3> QED BY <2>2, <2>4, <2>5, <2>8, <3>1 DEF Linked
  <2> QED BY <2>2, <2>5, <2>9
<1>3. CASE head # Null /\ head # tail
  <2>1. 1 < Len(order)
    BY <1>1, <1>3, LinkedEnds DEF Linked
  <2> QED BY <1>3, <2>1 DEF DeleteTail, IsEmpty, Reaches
<1>4. CASE head = Null
  <2>1. tail = Null
    BY <1>4, LinkedEnds DEF Linked
  <2> QED BY <1>4, <2>1 DEF DeleteTail, IsEmpty
<1> QED BY <1>2, <1>3, <1>4

(***************************************************************************)
(* The list and the threads whose transactions are in it.                  *)
(***************************************************************************)

LEMMA ListInvInit == Init => ListInv
<1> SUFFICES ASSUME Init PROVE ListInv
  OBVIOUS
<1>1. /\ head = Null /\ tail = Null /\ size = 0 /\ order = <<>> /\ behind = FALSE
      /\ cell = [n \in {} |-> [next |-> Null, prev |-> Null]] /\ fault = "none"
  BY DEF Init, ListInit
<1>2. order \in Seq(Node) /\ Len(order) = 0 /\ DOMAIN cell = {}
  BY <1>1, EmptySeq
<1>3. \A i : i \notin 1 .. Len(order)
  BY <1>2
<1>4. Linked
  BY <1>1, <1>2, <1>3 DEF Linked
<1>5. Owned
  BY <1>3 DEF Owned
<1> QED BY <1>1, <1>4, <1>5 DEF ListInv

\* A step that leaves the list and the threads' transactions as they are.
LEMMA ListStays ==
  ASSUME ListInv, UNCHANGED <<head, tail, size, cell, order, behind>>,
         fault' = fault \/ fault' # "list",
         \A t \in Thread : thread'[t].tx = thread[t].tx
  PROVE  ListInv'
<1>1. Linked => Linked'
  BY DEF Linked
<1>2. Owned => Owned'
  BY DEF Owned
<1> QED BY <1>1, <1>2 DEF ListInv

\* A step that follows a pointer of the list to an element that was freed.
LEMMA NotDangling == ASSUME ListInv, behind # TRUE PROVE ~Dangles
BY ListingIs DEF ListInv

LEMMA ListInvCommand ==
  ASSUME ConnInv, ListInv, NEW t \in Thread, Commands(t)
  PROVE  ListInv'
<1>1. thread \in [Thread -> ThreadState] /\ thread[t].tx \in Nat
  BY DEF ConnInv, ServerTypes, ThreadState
<1>2. ASSUME Strays(t, {"txs"}) \/ Strays(t, {"log"}) \/ Strays(t, {"locks"}) \/ Strays(t, {"locks", "log"})
      PROVE  ListInv'
  BY <1>2, ListStays DEF Strays, Reaches
<1>3. ASSUME NEW at \in ThreadAt, Goes(t, at, thread[t].tx), UNCHANGED listVars
      PROVE  ListInv'
  <2>1. PICK tx \in Nat : tx = thread[t].tx
    BY <1>1
  <2>2. thread'[t].tx = tx /\ \A u \in Thread : u # t => thread'[u] = thread[u]
    BY <1>1, <1>3, <2>1, GoesTo
  <2> QED BY <1>3, <2>1, <2>2, ListStays
<1>4. ASSUME NEW n \in Node, Add(n), Goes(t, "log", n), thread[t].tx = 0
      PROVE  ListInv'
  <2>1. behind' = behind
    BY <1>4 DEF Add
  <2>2. /\ thread'[t].tx = n /\ \A u \in Thread : u # t => thread'[u] = thread[u]
    BY <1>1, <1>4, NodesAreNumbers, GoesTo DEF ThreadAt
  <2>3. CASE behind # TRUE
    <3>1. Linked /\ Owned /\ fault # "list"
      BY <2>3 DEF ListInv
    <3>2. Linked' /\ order' = Append(order, n) /\ fault' = fault
      BY <1>4, <3>1, AddedLinks
    <3>3. ASSUME NEW i \in 1 .. Len(order') PROVE \E u \in Thread : thread'[u].tx = order'[i]
      <4>1. PICK len \in Nat : len = Len(order)
        BY <3>1, LinkedEnds
      <4>2. /\ Len(order') = len + 1 /\ order'[len + 1] = n
            /\ i \in 1 .. len => order'[i] = order[i]
        BY <3>1, <3>2, <4>1 DEF Linked
      <4>3. CASE i = len + 1
        BY <2>2, <4>2, <4>3
      <4>4. CASE i \in 1 .. len
        <5>1. PICK u \in Thread : thread[u].tx = order[i]
          BY <3>1, <4>1, <4>4 DEF Owned
        <5>2. order[i] # 0
          BY <3>1, <4>1, <4>4, LinkedEnds, NodesAreNumbers
        <5> QED BY <1>4, <2>2, <4>2, <4>4, <5>1, <5>2
      <4> QED BY <4>1, <4>2, <4>3, <4>4
    <3> QED BY <2>1, <3>1, <3>2, <3>3 DEF ListInv, Owned
  <2> QED BY <2>1, <2>3 DEF ListInv
<1>5. ASSUME NEW n \in Nat, n = thread[t].tx, Delete(n), Goes(t, "ready", 0)
      PROVE  ListInv'
  <2>1. behind' = (behind \/ n # head)
    BY <1>5 DEF Delete
  <2>2. /\ \A u \in Thread : u # t => thread'[u] = thread[u]
    BY <1>1, <1>5, GoesTo DEF ThreadAt
  <2>3. CASE behind # TRUE /\ n = head
    <3>1. Linked /\ Owned /\ fault # "list"
      BY <2>3 DEF ListInv
    <3>2. /\ Linked' /\ fault' = fault
          /\ \A i \in 1 .. Len(order') : i + 1 \in 1 .. Len(order) /\ order'[i] = order[i + 1]
          /\ order # <<>> => n = order[1]
      BY <1>5, <2>3, <3>1, DeletedLinks
    <3>3. ASSUME NEW i \in 1 .. Len(order') PROVE \E u \in Thread : thread'[u].tx = order'[i]
      <4>1. Len(order) \in Nat /\ (order = <<>> <=> Len(order) = 0)
        BY <3>1, LinkedEnds
      <4>2. i \in Nat /\ i >= 1 /\ i + 1 \in 1 .. Len(order) /\ order'[i] = order[i + 1]
        <5>1. Len(order') \in Nat
          BY <3>2 DEF Linked
        <5> QED BY <3>2, <5>1
      <4>3. PICK u \in Thread : thread[u].tx = order[i + 1]
        BY <3>1, <4>2 DEF Owned
      <4>4. order[i + 1] # order[1] /\ n = order[1]
        <5>1. 1 \in 1 .. Len(order) /\ i + 1 # 1 /\ order # <<>>
          BY <4>1, <4>2
        <5> QED BY <3>1, <3>2, <4>2, <5>1 DEF Linked
      <4>5. u # t
        BY <1>5, <4>3, <4>4
      <4> QED BY <2>2, <4>2, <4>3, <4>5
    <3> QED BY <2>1, <2>3, <3>1, <3>2, <3>3 DEF ListInv, Owned
  <2>4. CASE behind = TRUE \/ n # head
    BY <2>1, <2>4 DEF ListInv
  <2> QED BY <2>3, <2>4 DEF ListInv
<1>6. CASE Begin(t)
  <2>1. CASE Strays(t, {"txs"})
    BY <1>2, <2>1
  <2>2. CASE ~Strays(t, {"txs"})
    <3>1. PICK n \in Node : n = txs + 1
      BY <1>6, <2>2 DEF Begin
    <3>2. Add(n) /\ Goes(t, "log", n) /\ thread[t].tx = 0
      BY <1>6, <2>2, <3>1 DEF Begin
    <3> QED BY <1>4, <3>2
  <2> QED BY <2>1, <2>2
<1>7. CASE BeginLog(t)
  BY <1>2, <1>3, <1>7 DEF BeginLog, ThreadAt
<1>8. CASE EndLog(t)
  BY <1>2, <1>3, <1>8 DEF EndLog, ThreadAt
<1>9. CASE Unlock(t)
  BY <1>2, <1>3, <1>9 DEF Unlock, ThreadAt
<1>10. CASE Work(t)
  BY <1>2, <1>10 DEF Work
<1>11. CASE Leave(t)
  <2>1. CASE Strays(t, {"txs"})
    BY <1>2, <2>1
  <2>2. CASE ~Strays(t, {"txs"})
    <3>1. PICK n \in Nat : n = thread[t].tx
      BY <1>1
    <3>2. Delete(n) /\ Goes(t, "ready", 0)
      BY <1>11, <2>2, <3>1 DEF Leave
    <3> QED BY <1>5, <3>1, <3>2
  <2> QED BY <2>1, <2>2
<1>12. CASE Disconnect(t)
  BY <1>3, <1>12 DEF Disconnect, ThreadAt
<1> QED BY <1>6, <1>7, <1>8, <1>9, <1>10, <1>11, <1>12 DEF Commands

\* Where kv_txm_destroy goes astray with the list in order, two transactions
\* are open.
LEMMA DestroyTxStep ==
  ASSUME ListInv, DestroyTx, DestroysOne, fault = "none"
  PROVE  ListInv' /\ DestroysOne'
<1>1. DeleteTail /\ thread' = thread
  BY DEF DestroyTx
<1>2. behind' = behind \/ (behind' = TRUE /\ fault' = fault)
  BY <1>1 DEF DeleteTail, Reaches
<1>3. CASE behind' = TRUE
  BY <1>1, <1>3 DEF ListInv, DestroysOne
<1>4. CASE behind' # TRUE
  <2>1. behind # TRUE /\ behind' = behind
    BY <1>2, <1>4
  <2>2. Linked /\ Owned /\ fault # "list" /\ behind \in BOOLEAN
    BY <2>1 DEF ListInv
  <2>3. CASE Linked' /\ order' = <<>> /\ fault' = fault
    <3>1. Owned'
      BY <2>3, EmptySeq DEF Owned
    <3> QED BY <2>1, <2>2, <2>3, <3>1 DEF ListInv, DestroysOne
  <2>4. CASE UNCHANGED <<head, tail, size, cell, order, behind>> /\ fault' = "destroy" /\ 1 < Len(order)
    <3>1. ListInv'
      BY <1>1, <2>4, ListStays
    <3>2. 1 \in 1 .. Len(order) /\ 2 \in 1 .. Len(order)
      BY <2>2, <2>4, LinkedEnds
    <3>3. order[1] # order[2] /\ order[1] # 0 /\ order[2] # 0
      BY <2>2, <3>2, LinkedEnds, NodesAreNumbers DEF Linked
    <3>4. PICK t \in Thread : thread[t].tx = order[1]
      BY <2>2, <3>2 DEF Owned
    <3>5. PICK u \in Thread : thread[u].tx = order[2]
      BY <2>2, <3>2 DEF Owned
    <3>6. t # u /\ thread'[t].tx # 0 /\ thread'[u].tx # 0
      BY <1>1, <3>3, <3>4, <3>5
    <3>7. DestroysOne'
      BY <3>6 DEF DestroysOne
    <3> QED BY <3>1, <3>7
  <2> QED BY <1>1, <1>4, <2>2, <2>3, <2>4, TailDeletedLinks
<1> QED BY <1>3, <1>4

\* Only DestroyTx reaches "destroy".
LEMMA CommandDestroys ==
  ASSUME NEW t \in Thread, Commands(t)
  PROVE  fault' = "destroy" => fault = "destroy"
<1> USE DEF Reaches, Strays, Add, AddFirst, AddBehind, Delete
<1>1. CASE Begin(t)
  BY <1>1 DEF Begin
<1>2. CASE BeginLog(t) \/ Work(t) \/ EndLog(t) \/ Unlock(t)
  BY <1>2 DEF BeginLog, Work, EndLog, Unlock
<1>3. CASE Leave(t)
  BY <1>3 DEF Leave
<1>4. CASE Disconnect(t)
  BY <1>4 DEF Disconnect
<1> QED BY <1>1, <1>2, <1>3, <1>4 DEF Commands

LEMMA ListInvNext ==
  ASSUME ConnInv, ListInv, DestroysOne, [Next]_vars
  PROVE  ListInv' /\ DestroysOne'
<1>1. ASSUME UNCHANGED listVars, \A t \in Thread : thread'[t].tx = thread[t].tx
      PROVE  ListInv' /\ DestroysOne'
  <2>1. ListInv'
    BY <1>1, ListStays
  <2>2. DestroysOne'
    BY <1>1 DEF DestroysOne
  <2> QED BY <2>1, <2>2
<1>2. CASE Loop \/ CallAccept \/ Greet \/ Accept \/ AcceptFails \/ SpawnFails \/ Sigint \/ SigintAgain \/ AnswerKills
  <2>1. UNCHANGED <<listVars, thread>>
    BY <1>2 DEF Loop, CallAccept, Greet, Accept, AcceptFails, SpawnFails, Sigint, SigintAgain, AnswerKills, Killed
  <2> QED BY <1>1, <2>1
<1>3. CASE Spawn
  <2>1. thread \in [Thread -> ThreadState] /\ conns \in Thread
    BY <1>3 DEF ConnInv, ServerTypes, Spawn, Moves
  <2>2. thread' = [thread EXCEPT ![conns] =
                     [[thread[conns] EXCEPT !.fd = client_fd] EXCEPT !.at = "ready"]]
    BY <1>3 DEF Spawn
  <2>3. PICK c \in Thread, s \in ThreadState : c = conns /\ s = thread[conns]
    BY <2>1
  <2>4. PICK f : f = client_fd
    OBVIOUS
  <2>5. [[s EXCEPT !.fd = f] EXCEPT !.at = "ready"].tx = s.tx
    OBVIOUS
  <2>6. \A t \in Thread : thread'[t].tx = thread[t].tx
    BY <2>1, <2>2, <2>3, <2>4, <2>5
  <2> QED BY <1>1, <1>3, <2>6 DEF Spawn
<1>4. CASE Broadcast \/ Destroy \/ Wait \/ Reap \/ OwnFiles \/ ChildWrites \/ UNCHANGED vars
  <2>1. UNCHANGED <<listVars, thread>>
    BY <1>4 DEF Broadcast, Destroy, Wait, Reap, OwnFiles, ChildWrites
  <2> QED BY <1>1, <2>1
<1>5. CASE Up /\ DestroyTx
  BY <1>5, DestroyTxStep DEF Up
<1>6. CASE Up /\ Checkpoint
  <2>1. CASE UNCHANGED <<listVars, thread>>
    BY <1>1, <2>1
  <2>2. CASE Reaches("checkpoint") /\ UNCHANGED <<behind, thread>>
    BY <2>2, ListStays DEF Reaches, DestroysOne
  <2>3. CASE Dangles /\ Reaches("list") /\ UNCHANGED <<behind, thread>>
    <3>1. behind = TRUE
      BY <2>3, NotDangling DEF ListInv
    <3> QED BY <2>3, <3>1 DEF ListInv, DestroysOne
  <2> QED BY <1>6, <2>1, <2>2, <2>3 DEF Checkpoint
<1>7. ASSUME NEW t \in Thread, Up, Commands(t)
      PROVE  ListInv' /\ DestroysOne'
  <2>1. ListInv'
    BY <1>7, ListInvCommand
  <2>2. fault' # "destroy"
    BY <1>7, CommandDestroys DEF Up
  <2> QED BY <2>1, <2>2 DEF DestroysOne
<1> QED BY <1>2, <1>3, <1>4, <1>5, <1>6, <1>7 DEF Next, Serving, Ending, Snapshotting

\* What the proofs know of the list and the threads.
ServerInv == ConnInv /\ ListInv /\ DestroysOne

LEMMA ServerInvHolds == Spec => []ServerInv
<1>1. Init => ServerInv
  BY ConnInvInit, ListInvInit DEF ServerInv, DestroysOne, Init, ListInit
<1>2. ServerInv /\ [Next]_vars => ServerInv'
  BY ConnInvNext, ListInvNext DEF ServerInv
<1> QED BY <1>1, <1>2, PTL DEF Spec

\* As long as transactions end in the order in which they began, the walk over
\* the list meets them all in that order, its tail is the last and its size
\* their number, and no pointer of it is followed to an element that was freed.
THEOREM ListInOrder == Spec => []FollowsOrder
<1>1. ASSUME ServerInv PROVE FollowsOrder
  <2>1. CASE behind # TRUE
    <3>1. Linked /\ fault # "list"
      BY <1>1, <2>1 DEF ServerInv, ListInv
    <3>2. Listing = order /\ ~Dangles
      BY <3>1, ListingIs
    <3>3. size = Len(order) /\ (order # <<>> => tail = order[Len(order)])
      BY <3>1 DEF Linked
    <3> QED BY <3>1, <3>2, <3>3 DEF FollowsOrder, Last
  <2>2. CASE behind = TRUE
    BY <2>2 DEF FollowsOrder
  <2> QED BY <2>1, <2>2
<1> QED BY <1>1, ServerInvHolds, PTL

\* kv_txm_destroy frees what it should when at most one transaction is open:
\* where it follows a pointer to an element that was freed, two threads have
\* transactions, or an element behind the first was deleted before.
THEOREM DestroysAtMostOne == Spec => []DestroysOne
BY ServerInvHolds, PTL DEF ServerInv
=============================================================================
