------------------------------- MODULE KVCodec -------------------------------
(***************************************************************************)
(* Lengths: how many bytes a command, a log line and an answer take, the   *)
(* buffers they go to, and what a log line gives back when it is read.     *)
(*                                                                         *)
(* A key or a value is its name and its length: as many bytes, all of one  *)
(* kind.  What is read from the wrong place is named Garbled.              *)
(***************************************************************************)
EXTENDS Integers

CONSTANT Garbled

BUFFER_SIZE == 128
COMMAND_SIZE == 128
RESULT_SIZE == 64
KV_RECOVERY_MAX_LINE_LEN == 128

Nothing == [name |-> "nothing", len |-> 0]     \* NULL, 0

\* The bytes of a command, its "\r\n" among them.
CommandLen(c) ==
  CASE c.op = "set"            -> 4 + c.key.len + 1 + c.val.len + 2
    [] c.op \in {"get", "del"} -> 4 + c.key.len + 2
    [] c.op = "commit"         -> 8
    [] c.op \in {"begin", "abort"} -> 7
    [] c.op = "empty"          -> 2

\* An answer goes to result with "\r\n" and a '\0' behind it.
AnswerFits(len) == len + 2 + 1 <= RESULT_SIZE

(***************************************************************************)
(* A line of an update or of its compensation: LSN, previous LSN, T and id,*)
(* the type, for a CLR the LSN to undo next, three lengths of two digits,  *)
(* the key and the two values, each with a space or line end behind it.    *)
(***************************************************************************)
LineLen(line) ==
  9 + 9 + 10 + 8 + (IF line.clr THEN 9 ELSE 0) + 3 * 3
    + (line.key.len + 1) + (line.old.len + 1) + (line.new.len + 1)

LineFits(line) == LineLen(line) + 1 <= KV_RECOVERY_MAX_LINE_LEN

\* The two digits a length is written as: of a larger one, the last two.
Digits(n) == <<(n \div 16) % 16, n % 16>>

FromDigitsSwapped(d) == d[1] + 2 * d[2]   \* mutant: the digits are swapped

\* from_2_digit_hex shifts the high digit by one bit, not by four.
FromDigits(d) == 2 * d[1] + d[2]

ReadBack(n) == FromDigits(Digits(n))

\* kv_recovery_get_log takes as many bytes as the length it read, from where
\* the lengths before it have led.
Prefix(x) == [x EXCEPT !.len = ReadBack(x.len)]
Shifted(x) == [name |-> Garbled, len |-> ReadBack(x.len)]
Exact(x) == ReadBack(x.len) = x.len

ReadLine(line) ==
  [clr |-> line.clr,
   key |-> Prefix(line.key),
   old |-> IF Exact(line.key) THEN Prefix(line.old) ELSE Shifted(line.old),
   new |-> IF Exact(line.key) /\ Exact(line.old) THEN Prefix(line.new) ELSE Shifted(line.new)]
=============================================================================
