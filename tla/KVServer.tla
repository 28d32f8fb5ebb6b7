------------------------------ MODULE KVServer ------------------------------
(***************************************************************************)
(* The server process as a whole: kv_run_server accepts connections and    *)
(* starts a thread for each, SIGINT ends its loop, and it destroys what    *)
(* the threads use while they may still run; the snapshot thread and the   *)
(* process it forks; and the list of transactions the threads share.       *)
(*                                                                         *)
(* Of a command it is kept which of the shared parts it uses: the lock     *)
(* manager, the transactions, the log.  KVTxn says what it does to them.   *)
(* SIGINT is served by the main thread.  As signal() is the System V one   *)
(* in this build, it ends an accept that waits, and is handled once.       *)
(***************************************************************************)
EXTENDS KVList

CONSTANTS
  MaxConn,    \* bound on the connections accepted
  Fd,         \* the descriptors a connection may get
  MaxCheck    \* bound on the checkpoints

ASSUME ServerConstants ==
  /\ MaxConn \in Nat /\ MaxCheck \in Nat
  /\ Fd \subseteq Nat /\ IsFiniteSet(Fd)
  /\ Node = 1 .. Cardinality(Node)

Thread == 1 .. MaxConn     \* the n-th connection and the thread started for it

VARIABLES
  is_running,
  main,         \* where kv_run_server is
  client_fd,    \* its local
  conns,        \* connections accepted
  open,         \* the connection behind each descriptor, 0 when it is closed
  thread,       \* each handler thread: its descriptor, where it is, its transaction
  txs,          \* transactions begun
  snap,         \* where the snapshot thread is
  pid,          \* its local: what the last fork returned, 0 before the first
  child,        \* the snapshot process
  named,        \* what last_checked_lsn.kvdb names: nothing, a check, garbage
  checks,       \* checkpoints made
  failed,       \* history: a greeting has failed
  raced,        \* history: SIGINT came between the test of is_running and accept
  late          \* history: is_running was set, or the timer had fired, at the broadcast

mainVars == <<main, client_fd, conns>>
snapVars == <<snap, pid, child, named, checks>>
threadVars == <<thread, txs>>
history == <<failed, raced, late>>
vars == <<listVars, is_running, mainVars, open, threadVars, snapVars, history>>

NoThread == [fd |-> 0, at |-> "none", tx |-> 0]

Init ==
  /\ ListInit
  /\ is_running = TRUE /\ main = "test" /\ client_fd = 0 /\ conns = 0
  /\ open = [f \in Fd |-> 0]
  /\ thread = [t \in Thread |-> NoThread] /\ txs = 0
  /\ snap = "start" /\ pid = 0 /\ child = "none" /\ named = "nothing" /\ checks = 0
  /\ failed = FALSE /\ raced = FALSE /\ late = FALSE

(***************************************************************************)
(* The loop of kv_run_server.                                              *)
(***************************************************************************)
Moves(from, to) == main = from /\ main' = to

Loop ==
  /\ Moves("test", IF is_running THEN "call_accept" ELSE "broadcast")
  /\ UNCHANGED <<listVars, is_running, client_fd, conns, open, threadVars, snapVars, history>>

\* accept waits from here on, for a connection or a signal.
CallAccept ==
  /\ Moves("call_accept", "accept")
  /\ UNCHANGED <<listVars, is_running, client_fd, conns, open, threadVars, snapVars, history>>

Free == {f \in Fd : open[f] = 0}

\* A connection gets the lowest descriptor that is free.
Accept ==
  /\ conns < MaxConn /\ Free # {}
  /\ Moves("accept", "greet")
  /\ client_fd' = Min(Free) /\ open' = [open EXCEPT ![Min(Free)] = conns + 1]
  /\ conns' = conns + 1
  /\ UNCHANGED <<listVars, is_running, threadVars, snapVars, history>>

\* accept returns an error, as when no descriptor is free: the loop ends, though
\* the server is to run.
AcceptFails ==
  /\ Moves("accept", "broadcast")
  /\ UNCHANGED <<listVars, is_running, client_fd, conns, open, threadVars, snapVars, history>>

\* A greeting that fails closes the connection, and its thread is started all
\* the same; or SIGPIPE ends the process.
Greet ==
  /\ \/ Moves("greet", "spawn") /\ UNCHANGED <<open, failed>>
     \/ Moves("greet", "spawn") /\ open' = [open EXCEPT ![client_fd] = 0] /\ failed' = TRUE
     \/ Moves("greet", "exited") /\ UNCHANGED <<open, failed>>
  /\ UNCHANGED <<listVars, is_running, client_fd, conns, threadVars, snapVars, raced, late>>

Spawn ==
  /\ Moves("spawn", "test")
  /\ thread' = [thread EXCEPT ![conns].fd = client_fd, ![conns].at = "ready"]
  /\ UNCHANGED <<listVars, is_running, client_fd, conns, open, txs, snapVars, history>>

\* pthread_create returns an error.
SpawnFails ==
  /\ Moves("spawn", "test")
  /\ open' = [open EXCEPT ![client_fd] = 0]
  /\ UNCHANGED <<listVars, is_running, client_fd, conns, threadVars, snapVars, history>>

SigintRestarts ==   \* mutant: accept waits on, as with SA_RESTART
  /\ is_running /\ main # "exited"
  /\ is_running' = FALSE /\ raced' = (main = "call_accept")
  /\ UNCHANGED <<listVars, mainVars, open, threadVars, snapVars, failed, late>>

\* handle_sigint, in the main thread: an accept that waits returns EINTR.
Sigint ==
  /\ is_running /\ main # "exited"
  /\ is_running' = FALSE /\ raced' = (main = "call_accept")
  /\ main' = IF main = "accept" THEN "broadcast" ELSE main
  /\ UNCHANGED <<listVars, client_fd, conns, open, threadVars, snapVars, failed, late>>

\* The process is ended by a signal that nothing handles.
Killed ==
  /\ main # "exited" /\ main' = "exited"
  /\ UNCHANGED <<listVars, is_running, client_fd, conns, open, threadVars, snapVars, history>>

\* A second SIGINT: the first one has reset its handler.
SigintAgain == ~is_running /\ Killed

(***************************************************************************)
(* Behind the loop: the broadcast, and what is destroyed in turn.          *)
(***************************************************************************)

\* server_terminate_lock is the snapshot thread's from before its test of
\* is_running to its wait, and over a checkpoint and the wait for its process.
TerminateLockFree == snap \notin {"test", "check", "reap"}

BroadcastUnlocked ==   \* mutant: without server_terminate_lock
  /\ Moves("broadcast", "destroy_locks")
  /\ snap' = IF snap = "wait" THEN "woken" ELSE snap
  /\ late' = (is_running \/ snap = "timed")
  /\ UNCHANGED <<listVars, is_running, client_fd, conns, open, threadVars, pid, child,
                 named, checks, failed, raced>>

Broadcast ==
  /\ TerminateLockFree
  /\ Moves("broadcast", "destroy_locks")
  /\ snap' = IF snap = "wait" THEN "woken" ELSE snap
  /\ late' = (is_running \/ snap = "timed")
  /\ UNCHANGED <<listVars, is_running, client_fd, conns, open, threadVars, pid, child,
                 named, checks, failed, raced>>

Destroyed(part) ==
  CASE part = "locks" -> main \in {"destroy_txs", "destroy_log", "return"}
    [] part = "txs"   -> main \in {"destroy_log", "return"}
    [] part = "log"   -> main = "return"

\* kv_lm_destroy, the end of kv_txm_destroy, kv_recovery_destroy, and the return
\* from main.
Destroy ==
  /\ \/ Moves("destroy_locks", "destroy_txs")
     \/ IsEmpty /\ Moves("destroy_txs", "destroy_log")
     \/ Moves("destroy_log", "return")
     \/ Moves("return", "exited")
  /\ UNCHANGED <<listVars, is_running, client_fd, conns, open, threadVars, snapVars, history>>

\* One turn of kv_txm_destroy, which frees the transaction.
DestroyTx ==
  /\ main = "destroy_txs"
  /\ DeleteTail
  /\ UNCHANGED <<is_running, mainVars, open, threadVars, snapVars, history>>

(***************************************************************************)
(* A handler thread.                                                       *)
(***************************************************************************)

\* A step that uses parts that are gone, or its transaction when it is freed.
Gone(t, parts) ==
  \/ \E part \in parts : Destroyed(part)
  \/ thread[t].tx # 0 /\ ~Allocated(thread[t].tx)

Strays(t, parts) == Gone(t, parts) /\ Reaches("command") /\ UNCHANGED <<behind, threadVars>>

Goes(t, at, tx) == thread' = [thread EXCEPT ![t].at = at, ![t].tx = tx]

\* A thread waits for a command, and its descriptor is a connection's.
Reading(t) == thread[t].at = "ready" /\ open[thread[t].fd] # 0

\* kv_txm_start_new_transaction.
Begin(t) ==
  /\ Reading(t) /\ thread[t].tx = 0
  /\ \/ Strays(t, {"txs"})
     \/ /\ ~Gone(t, {"txs"}) /\ txs + 1 \in Node
        /\ Add(txs + 1) /\ txs' = txs + 1 /\ Goes(t, "log", txs + 1)
  /\ UNCHANGED <<is_running, mainVars, open, snapVars, history>>

\* The BEGIN record; the record that ends a transaction; kv_tx_unlock_all.
BeginLog(t) ==
  /\ thread[t].at = "log"
  /\ \/ Strays(t, {"log"})
     \/ ~Gone(t, {"log"}) /\ Goes(t, "ready", thread[t].tx) /\ UNCHANGED <<listVars, txs>>
  /\ UNCHANGED <<is_running, mainVars, open, snapVars, history>>

EndLog(t) ==
  /\ Reading(t) /\ thread[t].tx # 0
  /\ \/ Strays(t, {"log"})
     \/ ~Gone(t, {"log"}) /\ Goes(t, "unlock", thread[t].tx) /\ UNCHANGED <<listVars, txs>>
  /\ UNCHANGED <<is_running, mainVars, open, snapVars, history>>

Unlock(t) ==
  /\ thread[t].at = "unlock"
  /\ \/ Strays(t, {"locks"})
     \/ ~Gone(t, {"locks"}) /\ Goes(t, "leave", thread[t].tx) /\ UNCHANGED <<listVars, txs>>
  /\ UNCHANGED <<is_running, mainVars, open, snapVars, history>>

\* A data command changes nothing here as long as its parts are there.
Work(t) ==
  /\ Reading(t) /\ thread[t].tx # 0
  /\ Strays(t, {"locks", "log"})
  /\ UNCHANGED <<is_running, mainVars, open, snapVars, history>>

\* kv_ll_del and kv_tx_destroy.
Leave(t) ==
  /\ thread[t].at = "leave"
  /\ \/ Strays(t, {"txs"})
     \/ ~Gone(t, {"txs"}) /\ Delete(thread[t].tx) /\ Goes(t, "ready", 0) /\ UNCHANGED txs
  /\ UNCHANGED <<is_running, mainVars, open, snapVars, history>>

DisconnectStays(t) ==   \* mutant: the loop is not left
  /\ thread[t].at = "ready"
  /\ open' = [open EXCEPT ![thread[t].fd] = 0]
  /\ UNCHANGED <<listVars, is_running, mainVars, threadVars, snapVars, history>>

\* read returns 0 or an error, or an answer is not written: the thread closes
\* its descriptor and ends, whatever its transaction is.
Disconnect(t) ==
  /\ thread[t].at = "ready"
  /\ open' = [open EXCEPT ![thread[t].fd] = 0]
  /\ Goes(t, "gone", thread[t].tx)
  /\ UNCHANGED <<listVars, is_running, mainVars, txs, snapVars, history>>

\* SIGPIPE, when an answer is written to a peer that is gone.
AnswerKills == (\E t \in Thread : Reading(t)) /\ Killed

(***************************************************************************)
(* The snapshot thread and its process.                                    *)
(***************************************************************************)
SnapMoves(from, to) == snap = from /\ snap' = to

\* The wait releases the lock and takes it again when it ends: at a broadcast,
\* for no reason, or when the timer fires.
Wait ==
  /\ \/ SnapMoves("start", "test")
     \/ is_running /\ SnapMoves("test", "wait")
     \/ ~is_running /\ SnapMoves("test", IF pid = 0 THEN "own_files" ELSE "done")
     \/ SnapMoves("wait", "woken")
     \/ SnapMoves("wait", "timed")
     \/ SnapMoves("woken", "test")
     \/ checks < MaxCheck /\ SnapMoves("timed", "check")
  /\ UNCHANGED <<listVars, is_running, mainVars, open, threadVars, pid, child, named,
                 checks, history>>

CheckpointForgets ==   \* mutant: what fork returned is not kept
  /\ SnapMoves("check", "reap")
  /\ checks' = checks + 1 /\ child' \in {"running", "none"}
  /\ UNCHANGED <<listVars, is_running, mainVars, open, threadVars, pid, named, history>>

\* The list of transactions, the CHECK record, and fork, which may fail.
Checkpoint ==
  /\ SnapMoves("check", "reap")
  /\ \/ /\ ~Destroyed("txs") /\ ~Destroyed("log") /\ ~Dangles
        /\ pid' = 1 /\ checks' = checks + 1 /\ child' \in {"running", "none"}
        /\ UNCHANGED listVars
     \/ /\ Destroyed("txs") \/ Destroyed("log")
        /\ Reaches("checkpoint") /\ UNCHANGED <<behind, pid, checks, child>>
     \/ /\ ~Destroyed("txs") /\ Dangles
        /\ Reaches("list") /\ UNCHANGED <<behind, pid, checks, child>>
  /\ UNCHANGED <<is_running, mainVars, open, threadVars, named, history>>

\* wait (&child_status)
Reap ==
  /\ child # "running" /\ SnapMoves("reap", "test")
  /\ child' = "none"
  /\ UNCHANGED <<listVars, is_running, mainVars, open, threadVars, pid, named, checks, history>>

\* The process writes its files, or exits when it cannot.
ChildWrites ==
  /\ child = "running" /\ child' = "written"
  /\ named' \in {"check", named}
  /\ UNCHANGED <<listVars, is_running, mainVars, open, threadVars, snap, pid, checks, history>>

\* With pid 0 the server's own thread writes them, with the check_lsn it has
\* never set, and exits.
OwnFiles ==
  /\ \/ SnapMoves("own_files", "own_exit") /\ named' = "garbage" /\ UNCHANGED main
     \/ SnapMoves("own_exit", "done") /\ main' = "exited" /\ UNCHANGED named
  /\ UNCHANGED <<listVars, is_running, client_fd, conns, open, threadVars, pid, child,
                 checks, history>>

(***************************************************************************)
(* The specification: until the process has ended or undefined behaviour   *)
(* is reached.                                                             *)
(***************************************************************************)
Up == main # "exited" /\ fault = "none"

Commands(t) ==
  Begin(t) \/ BeginLog(t) \/ Work(t) \/ EndLog(t) \/ Unlock(t) \/ Leave(t) \/ Disconnect(t)

Serving == Loop \/ CallAccept \/ Greet \/ Spawn

Ending == Broadcast \/ Destroy \/ DestroyTx

Snapshotting == Wait \/ Checkpoint \/ Reap \/ OwnFiles

Next ==
  \/ Up /\ (Serving \/ Ending \/ Snapshotting \/ Accept \/ AcceptFails \/ SpawnFails)
  \/ Up /\ (Sigint \/ SigintAgain \/ AnswerKills)
  \/ Up /\ \E t \in Thread : Commands(t)
  \/ ChildWrites

Spec == Init /\ [][Next]_vars

\* The threads run and so does the process; nobody connects and no timer fires
\* because it must.
FairSpec ==
  /\ Spec
  /\ WF_vars(Up /\ (Serving \/ Ending))
  /\ WF_vars(Up /\ Snapshotting)
  /\ WF_vars(ChildWrites)

(***************************************************************************)
(* Properties.                                                             *)
(***************************************************************************)

\* Running threads and connections belong together, although descriptors are
\* used again: a thread reads the connection it was started for, unless a
\* greeting has failed.
OwnConnection ==
  ~failed => \A t \in Thread :
    thread[t].at \notin {"none", "gone"} => open[thread[t].fd] = t

\* last_checked_lsn.kvdb is given a number that was never a checkpoint's only
\* by a server that stops before its first one.
NamesCheckpoint == named = "garbage" => checks = 0

\* The stop waits for a checkpoint and its process: none of them meets what it
\* destroys, and none survives it, unless the timer had fired when the
\* broadcast came, or the loop ended for another reason than SIGINT.
StopAfterCheckpoint ==
  ~late =>
    /\ fault # "checkpoint"
    /\ main \in {"destroy_locks", "destroy_txs", "destroy_log", "return"} => child = "none"

\* The transactions are freed as they should be when at most one is open.
DestroysOne ==
  fault = "destroy" =>
    behind \/ \E t, u \in Thread : t # u /\ thread[t].tx # 0 /\ thread[u].tx # 0

\* A server that got SIGINT ends, or reaches undefined behaviour, unless the
\* signal came between the test of is_running and accept.
Stops == ~is_running /\ ~raced ~> ~Up
=============================================================================
