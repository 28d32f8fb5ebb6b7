----------------------------- MODULE KVHandler -----------------------------
(***************************************************************************)
(* kv_handle_client with the bytes of its connection: packets that hold a  *)
(* part of a command or several, the command buffer, the commands it       *)
(* executes one after the other, their answers and the end of the          *)
(* connection; and what a transaction's log lines give back of the lengths *)
(* of keys and values when it is rolled back, or the log redone.           *)
(*                                                                         *)
(* There is one client, so a command is one step; KVTxn has the others.    *)
(* A byte is its place in what the client sends.  Where bytes go beyond    *)
(* the memory meant for them nothing is said of what comes after.          *)
(***************************************************************************)
EXTENDS KVCodec, SequencesExt

CONSTANTS
  Name,       \* the bytes of keys and values, but for how many they are
  Scripts     \* what the client may send: sequences of commands

Word == [name : Name, len : Nat]

\* Those that run_command tells apart.
Command ==
  [op : {"set"}, key : Word, val : Word] \cup [op : {"get", "del"}, key : Word]
    \cup [op : {"begin", "commit", "abort", "empty"}]

\* No bytes that are sent are NULL.
ASSUME HandlerConstants == Nothing.name \notin Name /\ Scripts \subseteq Seq(Command)

VARIABLES
  script,        \* what it sends
  peer,          \* its end of the connection
  got,           \* how many bytes were read
  text,          \* command: the bytes before the first '\0'
  command_cur,
  at,            \* where the handler is
  done,          \* commands executed
  table,         \* the hash table
  log,           \* the lines of updates and compensations
  tx,            \* is a transaction open, and the lines of the log before it
  begun,         \* history: the table when it began
  spoiled        \* undefined behaviour was reached

connVars == <<script, peer, got, text, command_cur, at>>
dataVars == <<table, log, tx, begun>>
vars == <<connVars, done, dataVars, spoiled>>

NoTx == [open |-> FALSE, lines |-> 0]
EmptyTable == [k \in {} |-> Nothing]

\* The memory of command is zero: no thread is joined, so the stack of a new
\* one is never an old one.
Init ==
  /\ script \in Scripts /\ peer = "open"
  /\ got = 0 /\ text = <<>> /\ command_cur = 0
  /\ at = "read" /\ done = 0
  /\ table = EmptyTable /\ log = <<>> /\ tx = NoTx /\ begun = EmptyTable
  /\ spoiled = FALSE

(***************************************************************************)
(* The bytes.                                                              *)
(***************************************************************************)
LineEnds ==
  LET end[i \in 0 .. Len(script)] == IF i = 0 THEN 0 ELSE end[i - 1] + CommandLen(script[i])
  IN  end
Offset(i) == LineEnds[i]
Sent == Offset(Len(script))
Bytes(i) == LET start == Offset(i - 1) IN [n \in 1 .. CommandLen(script[i]) |-> start + n]

\* find_end_of_command: where "\r\n" ends in command.
Ends ==
  LET ends == {Offset(i) : i \in DOMAIN script}
  IN  {n \in 2 .. Len(text) : text[n] \in ends /\ text[n - 1] = text[n] - 1}

(***************************************************************************)
(* The table and the log lines.                                            *)
(***************************************************************************)
Value(k) == IF k \in DOMAIN table THEN table[k] ELSE Nothing
With(tab, k, v) == [j \in DOMAIN tab \cup {k} |-> IF j = k THEN v ELSE tab[j]]
Without(tab, k) == [j \in DOMAIN tab \ {k} |-> tab[j]]

Line(clr, k, old, new) == [clr |-> clr, key |-> k, old |-> old, new |-> new]

\* kv_recovery_redo: a line whose new value has length 0 deletes.
RedoLine(tab, line) ==
  LET r == ReadLine(line)
  IN  IF r.new.len = 0 THEN Without(tab, r.key) ELSE With(tab, r.key, r.new)

RedoneTo ==
  LET tab[n \in 0 .. Len(log)] == IF n = 0 THEN EmptyTable ELSE RedoLine(tab[n - 1], log[n])
  IN  tab

Redone == RedoneTo[Len(log)]

Empty(x) == x.len = 0

\* The compensation of a line in kv_tx_rollback, and what it does to the table:
\* an old value of length 0 is deleted, unless the new one has length 0 too.
Compensation(line) ==
  LET r == ReadLine(line)
  IN  Line(TRUE, r.key, IF Empty(r.new) THEN Nothing ELSE r.new,
                        IF Empty(r.old) THEN Nothing ELSE r.old)

Undone(tab, line) ==
  LET r == ReadLine(line)
  IN  IF ~Empty(r.old) THEN With(tab, r.key, r.old)
      ELSE IF Empty(r.new) THEN tab ELSE Without(tab, r.key)

TxLines == SubSeq(log, tx.lines + 1, Len(log))

\* The lines undone in this order.
UndoneAll(lines) ==
  LET tab[n \in 0 .. Len(lines)] == IF n = 0 THEN table ELSE Undone(tab[n - 1], lines[n])
  IN  tab[Len(lines)]

RolledBackOldestFirst == UndoneAll(TxLines)   \* mutant: in the order they were made

\* From the last update back to BEGIN.
RolledBack == UndoneAll(Reverse(TxLines))

(***************************************************************************)
(* Commands.                                                               *)
(***************************************************************************)
Logs(line) == log' = Append(log, line) /\ spoiled' = ~LineFits(line)

\* get_key_len_of_set looks for the space behind the key from the key's second
\* byte on, and behind the command when the key is empty.
SetCommand(c) ==
  /\ c.op = "set"
  /\ \/ Empty(c.key) /\ spoiled' = TRUE /\ UNCHANGED <<table, log>>
     \/ ~Empty(c.key) /\ Logs(Line(FALSE, c.key, Value(c.key), c.val))
                      /\ table' = With(table, c.key, c.val)
  /\ UNCHANGED <<tx, begun>>

DelCommand(c) ==
  /\ c.op = "del"
  /\ \/ /\ c.key \in DOMAIN table
        /\ Logs(Line(FALSE, c.key, Value(c.key), Nothing))
        /\ table' = Without(table, c.key)
     \/ c.key \notin DOMAIN table /\ UNCHANGED <<table, log, spoiled>>
  /\ UNCHANGED <<tx, begun>>

GetCommand(c) ==
  /\ c.op = "get"
  /\ spoiled' = ~AnswerFits(Value(c.key).len)
  /\ UNCHANGED dataVars

BeginCommand(c) ==
  /\ c.op = "begin" /\ ~tx.open
  /\ tx' = [open |-> TRUE, lines |-> Len(log)] /\ begun' = table
  /\ UNCHANGED <<table, log, spoiled>>

CommitCommand(c) ==
  /\ c.op = "commit" /\ tx.open
  /\ tx' = NoTx
  /\ UNCHANGED <<table, log, begun, spoiled>>

AbortCommand(c) ==
  /\ c.op = "abort" /\ tx.open
  /\ LET clrs == [n \in DOMAIN TxLines |-> Compensation(Reverse(TxLines)[n])]
     IN  log' = log \o clrs /\ spoiled' = \E n \in DOMAIN clrs : ~LineFits(clrs[n])
  /\ table' = RolledBack
  /\ tx' = NoTx
  /\ UNCHANGED begun

\* The empty command, an unknown one, and one the client's transaction does not
\* allow, are answered and change nothing.
OtherCommand(c) ==
  /\ \/ c.op \in {"empty", "invalid"}
     \/ c.op = "begin" /\ tx.open
     \/ c.op \in {"commit", "abort"} /\ ~tx.open
  /\ UNCHANGED <<dataVars, spoiled>>

RunCommand(c) ==
  \/ SetCommand(c) \/ DelCommand(c) \/ GetCommand(c)
  \/ BeginCommand(c) \/ CommitCommand(c) \/ AbortCommand(c) \/ OtherCommand(c)

\* The command that these bytes are, if they are one.
RunBytes(bytes) ==
  \/ \E i \in DOMAIN script : Bytes(i) = bytes /\ RunCommand(script[i])
  \/ (\A i \in DOMAIN script : Bytes(i) # bytes) /\ RunCommand([op |-> "invalid"])

(***************************************************************************)
(* The loop of kv_handle_client.                                           *)
(***************************************************************************)

\* memcpy (command + command_cur, ...): behind a '\0' nobody looks for it.
Stored(bytes) ==
  IF command_cur > Len(text) THEN text
  ELSE SubSeq(text, 1, command_cur) \o bytes
         \o SubSeq(text, command_cur + Len(bytes) + 1, Len(text))

\* read returns what has arrived of what the client sends, at most what buffer
\* takes; the command and a '\0' behind it must fit into command.
Read ==
  /\ at = "read"
  /\ \E n \in 1 .. Min({BUFFER_SIZE - 1, Sent - got}) :
       /\ got' = got + n
       /\ command_cur' = command_cur + n
       /\ text' = Stored([i \in 1 .. n |-> got + i])
       /\ spoiled' = (command_cur + n >= COMMAND_SIZE)
  /\ at' = "consume"
  /\ UNCHANGED <<script, peer, done, dataVars>>

ReadEndIgnored ==   \* mutant: only an error ends the loop
  /\ at = "read" /\ peer = "closed"
  /\ at' = "consume"
  /\ UNCHANGED <<script, peer, got, text, command_cur, done, dataVars, spoiled>>

\* read returns 0 or -1: the client has closed, and sent no more than was read.
ReadEnd ==
  /\ at = "read" /\ peer = "closed"
  /\ at' = "closed"
  /\ UNCHANGED <<script, peer, got, text, command_cur, done, dataVars, spoiled>>

NothingToConsume ==
  /\ at = "consume" /\ Ends = {}
  /\ at' = "read"
  /\ UNCHANGED <<script, peer, got, text, command_cur, done, dataVars, spoiled>>

ConsumeKeepsCur ==   \* mutant: command_cur is not set again
  /\ at = "consume"
  /\ \E end \in Ends :
       /\ end = Min(Ends)
       /\ text' = SubSeq(text, end + 1, Len(text))
       /\ RunBytes(SubSeq(text, 1, end))
  /\ done' = done + 1
  /\ at' = "answer"
  /\ UNCHANGED <<script, peer, got, command_cur>>

\* consume_command takes the first command from the buffer and runs it.
Consume ==
  /\ at = "consume"
  /\ \E end \in Ends :
       /\ end = Min(Ends)
       /\ text' = SubSeq(text, end + 1, Len(text))
       /\ command_cur' = Len(text) - end
       /\ RunBytes(SubSeq(text, 1, end))
  /\ done' = done + 1
  /\ at' = "answer"
  /\ UNCHANGED <<script, peer, got>>

\* The answer is written; or write returns -1, which compared as a size_t is
\* not less than any length, and the handler goes on.
Answer ==
  /\ at = "answer"
  /\ at' = "consume"
  /\ UNCHANGED <<script, peer, got, text, command_cur, done, dataVars, spoiled>>

\* A part of it is written, and the handler closes; or SIGPIPE ends the server.
AnswerFails ==
  /\ at = "answer" /\ peer = "closed"
  /\ at' \in {"closed", "killed"}
  /\ UNCHANGED <<script, peer, got, text, command_cur, done, dataVars, spoiled>>

\* The client closes, having sent all or a part.
PeerCloses ==
  /\ peer = "open" /\ at \notin {"closed", "killed"}
  /\ peer' = "closed"
  /\ UNCHANGED <<script, got, text, command_cur, at, done, dataVars, spoiled>>

Handling == Read \/ ReadEnd \/ NothingToConsume \/ Consume \/ Answer \/ AnswerFails

Next == ~spoiled /\ (Handling \/ PeerCloses)

Spec == Init /\ [][Next]_vars

\* The thread runs; bytes need not come.
FairSpec ==
  Spec /\ WF_vars(~spoiled /\ (NothingToConsume \/ Consume \/ Answer)) /\ WF_vars(~spoiled /\ ReadEnd)

(***************************************************************************)
(* Properties.                                                             *)
(***************************************************************************)

\* However the bytes arrive, command holds those that were read and belong to
\* no command executed yet, and the handler waits for more only when they are
\* no whole command: each command is executed, once and in order.
RestInBuffer ==
  ~spoiled =>
    /\ LET start == Offset(done) IN text = [n \in 1 .. got - start |-> start + n]
    /\ command_cur = Len(text)
    /\ at = "read" /\ done < Len(script) => got < Offset(done + 1)

\* Lengths a line gives back, of values that are not empty.
Short(line) ==
  /\ line.key.len < 16 /\ line.old.len < 16 /\ line.new.len < 16
  /\ \A v \in {line.old, line.new} : v.len = 0 => v = Nothing

\* A rollback gives back the table as it was at the begin, when the keys and
\* values of the transaction have at most 15 bytes and no value is empty.
RollbackRestores ==
  [][tx.open /\ ~tx'.open /\ log' # log /\ (\A n \in DOMAIN TxLines : Short(TxLines[n]))
       => table' = begun]_vars

\* So does the log, redone from its first line on, give the table, when all its
\* keys and values are like that.
RedoRestores ==
  ~spoiled /\ (\A n \in DOMAIN log : Short(log[n])) => Redone = table

\* When the client has closed, its handler ends.
HandlerEnds == peer = "closed" ~> at \in {"closed", "killed"} \/ spoiled
=============================================================================
