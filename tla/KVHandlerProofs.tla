--------------------------- MODULE KVHandlerProofs ---------------------------
(***************************************************************************)
(* Theorems about KVHandler, for everything a client may send and however  *)
(* it arrives: the commands are taken out of the bytes in their order; the *)
(* log, redone, gives the table, and a rollback the table of the begin,    *)
(* as long as lengths have one digit.                                      *)
(***************************************************************************)
EXTENDS KVHandler, NaturalsInduction, WellFoundedInduction, TLAPS

(***************************************************************************)
(* Numbers and recursions over them.                                       *)
(***************************************************************************)
\* A set of numbers that is not empty has a least one.
LEMMA LeastOf ==
  ASSUME NEW S \in SUBSET Nat, S # {}
  PROVE  \E m \in S : \A n \in S : m <= n
<1> DEFINE less == {p \in Nat \X Nat : p[1] < p[2]}
<1>1. IsWellFoundedOn(less, Nat)
  BY NatLessThanWellFounded DEF OpToRel
<1>2. PICK m \in S : \A n \in S : ~ (<<n, m>> \in less)
  <2> HIDE DEF less
  <2> QED BY <1>1, WFMin
<1>3. ASSUME NEW n \in S PROVE m <= n
  <2>1. n \in Nat /\ m \in Nat
    OBVIOUS
  <2>2. ~ (<<n, m>>[1] < <<n, m>>[2])
    BY <1>2, <2>1
  <2> QED BY <2>1, <2>2
<1> QED BY <1>3

\* A set that has 0, and with each number up to N the next.
LEMMA Upward ==
  ASSUME NEW N \in Nat, NEW T, 0 \in T, \A i \in 0 .. N - 1 : i \in T => i + 1 \in T
  PROVE  \A i \in 0 .. N : i \in T
<1> DEFINE Out == (0 .. N) \ T
<1> SUFFICES ASSUME Out # {} PROVE FALSE
  OBVIOUS
<1>1. Out \in SUBSET Nat
  OBVIOUS
<1>2. PICK m \in Out : \A n \in Out : m <= n
  <2> HIDE DEF Out
  <2> QED BY <1>1, LeastOf
<1>3. m # 0 /\ m - 1 \in 0 .. N - 1
  BY <1>2
<1>4. m - 1 \in T
  BY <1>2, <1>3
<1> QED BY <1>2, <1>3, <1>4

\* f is what a recursion over the numbers up to N defines.
Recursion(f, N, b, F) == f[0] = b /\ \A i \in 1 .. N : f[i] = F[i][f[i - 1]]

\* There is such a function when each step stays in S.
LEMMA Iterated ==
  ASSUME NEW N \in Nat, NEW S, NEW b \in S, NEW F, \A i \in 1 .. N : \A x \in S : F[i][x] \in S
  PROVE  \E f : Recursion(f, N, b, F) /\ \A i \in 0 .. N : f[i] \in S
<1> DEFINE Is(f, n) == f \in [0 .. n -> S] /\ f[0] = b /\ \A i \in 1 .. n : f[i] = F[i][f[i - 1]]
           T == {n \in 0 .. N : \E f : Is(f, n)}
<1>1. 0 \in T
  <2>1. Is([i \in 0 .. 0 |-> b], 0)
    OBVIOUS
  <2> HIDE DEF Is
  <2> QED BY <2>1
<1>2. ASSUME NEW n \in 0 .. N - 1, n \in T PROVE n + 1 \in T
  <2>1. PICK f : Is(f, n)
    <3> HIDE DEF Is
    <3> QED BY <1>2
  <2>2. PICK m \in 1 .. N : m = n + 1 /\ m - 1 = n
    OBVIOUS
  <2> DEFINE g == [i \in 0 .. m |-> IF i = m THEN F[m][f[n]] ELSE f[i]]
  <2>3. F[m][f[n]] \in S
    BY <2>1
  <2>4. g \in [0 .. m -> S] /\ g[0] = b
    BY <2>1, <2>2, <2>3
  <2>5. ASSUME NEW i \in 1 .. m PROVE g[i] = F[i][g[i - 1]]
    <3>1. g[i - 1] = f[i - 1]
      BY <2>2
    <3>2. CASE i = m
      BY <2>2, <3>1, <3>2
    <3>3. CASE i # m
      BY <2>1, <2>2, <3>1, <3>3
    <3> QED BY <3>2, <3>3
  <2>6. Is(g, m)
    <3> HIDE DEF g
    <3> QED BY <2>4, <2>5
  <2> HIDE DEF Is, g
  <2> QED BY <2>2, <2>6
<1>3. N \in T
  <2>1. PICK U : U = T
    OBVIOUS
  <2> HIDE DEF T
  <2>2. \A i \in 0 .. N : i \in U
    BY <1>1, <1>2, <2>1, Upward
  <2> QED BY <2>1, <2>2
<1>4. PICK f : Is(f, N)
  <2> HIDE DEF Is
  <2> QED BY <1>3
<1> QED BY <1>4 DEF Recursion

(***************************************************************************)
(* Where the commands end.                                                 *)
(***************************************************************************)

\* A command has bytes, its line end among them.
LEMMA Lengths ==
  ASSUME NEW c \in Command
  PROVE  CommandLen(c) \in Nat /\ CommandLen(c) >= 2
<1>1. CASE c \in [op : {"set"}, key : Word, val : Word]
  <2>1. c.op = "set" /\ c.key.len \in Nat /\ c.val.len \in Nat
    BY <1>1 DEF Word
  <2>2. CommandLen(c) = 4 + c.key.len + 1 + c.val.len + 2
    BY <2>1 DEF CommandLen
  <2> QED BY <2>1, <2>2
<1>2. CASE c \in [op : {"get", "del"}, key : Word]
  <2>1. c.op \in {"get", "del"} /\ c.key.len \in Nat
    BY <1>2 DEF Word
  <2>2. CommandLen(c) = 4 + c.key.len + 2
    BY <2>1 DEF CommandLen
  <2> QED BY <2>1, <2>2
<1>3. CASE c \in [op : {"begin", "commit", "abort", "empty"}]
  BY <1>3 DEF CommandLen
<1> QED BY <1>1, <1>2, <1>3 DEF Command

\* Where each command ends, one after the other.
LEMMA Offsets ==
  ASSUME script \in Seq(Command)
  PROVE  /\ Offset(0) = 0 /\ \A i \in 0 .. Len(script) : Offset(i) \in Nat
         /\ \A i \in 1 .. Len(script) : Offset(i) = Offset(i - 1) + CommandLen(script[i])
<1>1. PICK L \in Nat : L = Len(script) /\ \A i \in 1 .. L : script[i] \in Command
  OBVIOUS
<1> DEFINE F == [i \in 1 .. L |-> [x \in Nat |-> x + CommandLen(script[i])]]
           Is(f) == f = [i \in 0 .. Len(script) |->
                          IF i = 0 THEN 0 ELSE f[i - 1] + CommandLen(script[i])]
<1>2. \A i \in 1 .. L : \A x \in Nat : F[i][x] = x + CommandLen(script[i]) /\ F[i][x] \in Nat
  BY <1>1, Lengths
<1>3. PICK h : Recursion(h, L, 0, F) /\ \A i \in 0 .. L : h[i] \in Nat
  <2>1. \A i \in 1 .. L : \A x \in Nat : F[i][x] \in Nat
    BY <1>2
  <2> HIDE DEF F
  <2> QED BY <2>1, Iterated
<1>4. \A i \in 1 .. L : h[i] = h[i - 1] + CommandLen(script[i])
  <2> SUFFICES ASSUME NEW i \in 1 .. L PROVE h[i] = h[i - 1] + CommandLen(script[i])
    OBVIOUS
  <2>1. h[i] = F[i][h[i - 1]] /\ h[i - 1] \in Nat
    <3> HIDE DEF F
    <3> QED BY <1>3 DEF Recursion
  <2> QED BY <1>2, <2>1
<1> DEFINE g == [i \in 0 .. L |-> h[i]]
<1>5. Is(g)
  <2>1. g[0] = 0
    BY <1>3 DEF Recursion
  <2>2. \A i \in 1 .. L : g[i] = g[i - 1] + CommandLen(script[i])
    BY <1>4
  <2>3. ASSUME NEW i \in 0 .. L
        PROVE  g[i] = IF i = 0 THEN 0 ELSE g[i - 1] + CommandLen(script[i])
    <3>1. CASE i = 0
      BY <2>1, <3>1
    <3>2. CASE i # 0
      <4>1. i \in 1 .. L
        BY <3>2
      <4> HIDE DEF g
      <4> QED BY <2>2, <3>2, <4>1
    <3> QED BY <3>1, <3>2
  <2>4. g = [i \in 0 .. L |-> g[i]]
    OBVIOUS
  <2> HIDE DEF g
  <2> QED BY <1>1, <2>3, <2>4
<1> DEFINE e == CHOOSE f : Is(f)
<1>6. Is(e)
  <2> HIDE DEF Is, g
  <2> QED BY <1>5
<1>7. LineEnds = e
  BY DEF LineEnds
<1> HIDE DEF e
<1>8. e[0] = 0 /\ \A i \in 1 .. L : e[i] = e[i - 1] + CommandLen(script[i])
  BY <1>1, <1>6
<1>9. \A i \in 0 .. L : e[i] \in Nat
  <2> DEFINE T == {i \in 0 .. L : e[i] \in Nat}
  <2>1. 0 \in T
    BY <1>8
  <2>2. ASSUME NEW i \in 0 .. L - 1, i \in T PROVE i + 1 \in T
    <3>1. PICK j \in 1 .. L : j = i + 1 /\ j - 1 = i
      OBVIOUS
    <3>2. CommandLen(script[j]) \in Nat
      BY <1>1, Lengths
    <3> QED BY <1>8, <2>2, <3>1, <3>2
  <2>3. \A i \in 0 .. L : i \in T
    <3> HIDE DEF T
    <3> QED BY <2>1, <2>2, Upward
  <2> QED BY <2>3
<1> QED BY <1>1, <1>7, <1>8, <1>9 DEF Offset

\* A command ends at least two bytes after those before it.
LEMMA Grow ==
  ASSUME script \in Seq(Command), NEW i \in 0 .. Len(script), NEW j \in 0 .. Len(script), i < j
  PROVE  /\ i + 1 \in 0 .. Len(script) /\ Offset(i) + 2 <= Offset(i + 1) /\ Offset(i + 1) <= Offset(j)
         /\ Offset(i + 1) \in Nat /\ Offset(i) \in Nat /\ Offset(j) \in Nat
<1>1. PICK L \in Nat : L = Len(script) /\ \A n \in 1 .. L : script[n] \in Command
  OBVIOUS
<1>2. ASSUME NEW n \in 0 .. L - 1 PROVE Offset(n) + 2 <= Offset(n + 1) /\ Offset(n + 1) \in Nat /\ Offset(n) \in Nat
  <2>1. PICK m \in 1 .. L : m = n + 1 /\ m - 1 = n /\ m \in 0 .. L /\ n \in 0 .. L
    OBVIOUS
  <2>2. /\ Offset(m) = Offset(m - 1) + CommandLen(script[m])
        /\ Offset(m) \in Nat /\ Offset(n) \in Nat
    BY <1>1, <2>1, Offsets
  <2>3. CommandLen(script[m]) \in Nat /\ CommandLen(script[m]) >= 2
    BY <1>1, Lengths
  <2> QED BY <2>1, <2>2, <2>3
<1>3. PICK k \in 1 .. L : k = i + 1 /\ k <= j /\ i \in 0 .. L - 1 /\ j \in 0 .. L
  BY <1>1
<1> DEFINE T == {m \in 0 .. L - k : Offset(k) <= Offset(k + m)}
<1>4. Offset(k) \in Nat /\ Offset(i) \in Nat /\ Offset(j) \in Nat
  BY <1>1, <1>3, Offsets
<1>5. 0 \in T
  BY <1>3, <1>4
<1>6. ASSUME NEW m \in 0 .. L - k - 1, m \in T PROVE m + 1 \in T
  <2>1. PICK n \in 0 .. L - 1 : n = k + m /\ n + 1 = k + (m + 1)
    OBVIOUS
  <2>2. Offset(n) + 2 <= Offset(n + 1) /\ Offset(n + 1) \in Nat /\ Offset(n) \in Nat
    BY <1>2, <2>1
  <2>3. Offset(k) <= Offset(k + m)
    BY <1>6
  <2>4. Offset(k) <= Offset(n + 1)
    BY <1>4, <2>1, <2>2, <2>3
  <2> QED BY <2>1, <2>4
<1>7. \A m \in 0 .. L - k : m \in T
  <2>1. PICK N \in Nat : N = L - k
    OBVIOUS
  <2> HIDE DEF T
  <2>2. PICK U : U = T
    OBVIOUS
  <2>3. \A m \in 0 .. N - 1 : m \in U => m + 1 \in U
    BY <1>6, <2>1, <2>2
  <2>4. \A m \in 0 .. N : m \in U
    BY <1>5, <2>1, <2>2, <2>3, Upward
  <2> QED BY <2>1, <2>2, <2>4
<1>8. PICK m \in 0 .. L - k : k + m = j
  BY <1>3
<1>9. Offset(k) <= Offset(j)
  BY <1>7, <1>8
<1> QED BY <1>1, <1>2, <1>3, <1>4, <1>9

\* The bytes of the buffer that come after the commands executed.
Rest == LET start == Offset(done) IN [n \in 1 .. got - start |-> start + n]

FrameType ==
  /\ script \in Seq(Command) /\ done \in 0 .. Len(script)
  /\ got \in Nat /\ got <= Sent
  /\ at \in {"read", "consume", "answer", "closed", "killed"}

Frame ==
  /\ Offset(done) <= got /\ text = Rest /\ command_cur = got - Offset(done)
  /\ at = "read" /\ done < Len(script) => got < Offset(done + 1)

FrameInv == FrameType /\ (~spoiled => Frame)

\* The buffer, as a sequence.
LEMMA RestIs ==
  ASSUME FrameType, Offset(done) <= got, text = Rest
  PROVE  /\ Offset(done) \in Nat /\ got - Offset(done) \in Nat
         /\ text \in Seq(Nat) /\ Len(text) = got - Offset(done)
         /\ \A n \in 1 .. got - Offset(done) : text[n] = Offset(done) + n
<1>1. PICK o \in Nat : o = Offset(done)
  BY Offsets DEF FrameType
<1>2. PICK m \in Nat : m = got - o
  BY <1>1 DEF FrameType
<1>3. text = [n \in 1 .. m |-> o + n]
  BY <1>1, <1>2 DEF Rest
<1>4. text \in Seq(Nat) /\ Len(text) = m /\ \A n \in 1 .. m : text[n] = o + n
  BY <1>3
<1> QED BY <1>1, <1>2, <1>4

\* find_end_of_command finds the end of the command that is executed next, when it
\* has arrived, and nothing otherwise.
LEMMA FirstEnd ==
  ASSUME FrameType, Frame
  PROVE  /\ Ends # {} => /\ done < Len(script) /\ Offset(done + 1) <= got
                         /\ Min(Ends) = Offset(done + 1) - Offset(done)
         /\ done < Len(script) /\ Offset(done + 1) <= got => Ends # {}
<1>o. PICK o \in Nat : o = Offset(done) /\ got - o \in Nat
  BY RestIs DEF Frame
<1>m. PICK m \in Nat : m = got - o
  BY <1>o
<1>L. PICK L \in Nat : L = Len(script) /\ DOMAIN script = 1 .. L
  BY DEF FrameType
<1>1. /\ o = Offset(done) /\ m = got - o /\ L = Len(script) /\ o + m = got
      /\ DOMAIN script = 1 .. L /\ script \in Seq(Command) /\ done \in 0 .. L
  BY <1>o, <1>m, <1>L DEF FrameType
<1>2. Len(text) = m /\ \A n \in 1 .. m : text[n] = o + n
  BY <1>1, RestIs DEF Frame
<1>3. ASSUME NEW n \in 2 .. m, NEW i \in 1 .. L, o + n = Offset(i)
      PROVE  done < L /\ Offset(done + 1) - o \in 2 .. n /\ Offset(done + 1) \in Nat
  <2>1. done < i
    <3> SUFFICES ASSUME i <= done PROVE FALSE
      BY <1>1
    <3>1. CASE i = done
      BY <1>1, <1>3, <3>1
    <3>2. CASE i < done
      <4>1. Offset(i) + 2 <= Offset(i + 1) /\ Offset(i + 1) <= Offset(done) /\ Offset(i + 1) \in Nat
            /\ Offset(i) \in Nat
        BY <1>1, <3>2, Grow
      <4> QED BY SMTT(60), <1>1, <1>3, <4>1
    <3> QED BY <1>1, <3>1, <3>2
  <2>2. /\ Offset(done) + 2 <= Offset(done + 1) /\ Offset(done + 1) <= Offset(i)
        /\ Offset(done + 1) \in Nat
    BY <1>1, <2>1, Grow
  <2>3. PICK q \in Nat : q = Offset(done + 1)
    BY <2>2
  <2>4. o + 2 <= q /\ q <= o + n
    BY <1>1, <1>3, <2>2, <2>3
  <2>5. q - o \in 2 .. n
    BY <2>4
  <2> QED BY <1>1, <2>1, <2>3, <2>5
<1>4. ASSUME done < L, Offset(done + 1) <= got
      PROVE  Offset(done + 1) - o \in Ends
  <2>1. /\ o + 2 <= Offset(done + 1) /\ Offset(done + 1) \in Nat /\ done + 1 \in 1 .. L
    BY <1>1, <1>4, Grow
  <2>q. PICK q \in Nat : q = Offset(done + 1) /\ o + 2 <= q /\ q <= o + m
    BY <1>1, <1>4, <2>1
  <2>n. PICK n \in 2 .. m : n = q - o
    BY <2>q
  <2>2. n = Offset(done + 1) - o /\ o + n = Offset(done + 1) /\ n - 1 \in 1 .. m
        /\ n \in 1 .. m /\ o + (n - 1) = o + n - 1
    BY <2>q, <2>n
  <2>3. text[n] = Offset(done + 1) /\ text[n - 1] = text[n] - 1
    BY <1>2, <2>2
  <2> QED BY <1>1, <1>2, <2>1, <2>2, <2>3 DEF Ends
<1>5. ASSUME NEW n \in Ends PROVE n \in 2 .. m /\ \E i \in 1 .. L : o + n = Offset(i)
  <2>1. n \in 2 .. m /\ \E i \in 1 .. L : text[n] = Offset(i)
    BY <1>1, <1>2, <1>5 DEF Ends
  <2> QED BY <1>2, <2>1
<1>6. ASSUME Ends # {}
      PROVE  done < L /\ Offset(done + 1) <= got /\ Min(Ends) = Offset(done + 1) - o
  <2>1. PICK n \in 2 .. m, i \in 1 .. L : o + n = Offset(i)
    BY <1>5, <1>6
  <2>2. done < L /\ Offset(done + 1) - o \in 2 .. n /\ Offset(done + 1) \in Nat
    BY <1>3, <2>1
  <2>3. PICK e \in Nat : e = Offset(done + 1) - o
    BY <2>2
  <2>4. e \in Ends
    BY SMTT(60), <1>1, <1>4, <2>1, <2>2, <2>3
  <2>5. ASSUME NEW x \in Ends PROVE e <= x /\ x \in Nat
    <3>1. PICK k \in 1 .. L : x \in 2 .. m /\ o + x = Offset(k)
      BY <1>5
    <3> QED BY <1>3, <2>3, <3>1
  <2>6. \A x \in Ends : (\A y \in Ends : x <= y) => x = e
    BY <2>3, <2>4, <2>5
  <2>7. Min(Ends) = e
    BY <2>4, <2>5, <2>6 DEF Min
  <2>8. Offset(done + 1) = o + e /\ e <= m
    <3>1. PICK q \in Nat : q = Offset(done + 1)
      BY <2>2
    <3>2. q - o = e /\ e \in 2 .. n
      BY <2>2, <2>3, <3>1
    <3> QED BY <3>1, <3>2
  <2> QED BY <1>1, <2>2, <2>3, <2>7, <2>8
<1> QED BY <1>1, <1>4, <1>6

LEMMA FrameInit == Init => FrameInv
<1> SUFFICES ASSUME Init PROVE FrameInv
  OBVIOUS
<1>1. /\ script \in Seq(Command) /\ got = 0 /\ text = <<>> /\ command_cur = 0 /\ at = "read" /\ done = 0
  BY HandlerConstants DEF Init
<1>2. PICK L \in Nat : L = Len(script)
  BY <1>1
<1>3. Offset(0) = 0 /\ Sent \in Nat
  BY <1>1, <1>2, Offsets DEF Sent
<1>4. FrameType
  BY <1>1, <1>2, <1>3 DEF FrameType
<1>5. Rest = <<>>
  BY <1>1, <1>3 DEF Rest
<1>6. done < L => got < Offset(done + 1)
  <2> SUFFICES ASSUME 0 < L PROVE 0 < Offset(0 + 1)
    BY <1>1
  <2>1. Offset(0) + 2 <= Offset(0 + 1) /\ Offset(0 + 1) \in Nat
    BY <1>1, <1>2, Grow
  <2> QED BY <1>3, <2>1
<1> QED BY <1>1, <1>2, <1>3, <1>4, <1>5, <1>6 DEF FrameInv, Frame

\* The smaller of two numbers.
LEMMA MinOfTwo ==
  ASSUME NEW a \in Int, NEW b \in Int
  PROVE  Min({a, b}) \in Int /\ Min({a, b}) <= b
<1>1. \E x \in {a, b} : \A y \in {a, b} : x <= y
  <2>1. CASE a <= b
    BY <2>1
  <2>2. CASE ~ (a <= b)
    BY <2>2
  <2> QED BY <2>1, <2>2
<1>2. Min({a, b}) \in {a, b} /\ \A y \in {a, b} : Min({a, b}) <= y
  BY <1>1 DEF Min
<1> QED BY <1>2

\* More bytes behind those of the buffer.
LEMMA Behind ==
  ASSUME NEW s \in Seq(Nat), NEW b \in Seq(Nat)
  PROVE  LET r == SubSeq(s, 1, Len(s)) \o b \o SubSeq(s, Len(s) + Len(b) + 1, Len(s))
         IN  r = s \o b
<1>1. SubSeq(s, 1, Len(s)) = s
  OBVIOUS
<1>2. PICK m \in Nat, n \in Nat : m = Len(s) /\ n = Len(b)
  OBVIOUS
<1>3. SubSeq(s, m + n + 1, m) = <<>>
  BY <1>2
<1>4. PICK t : t = s \o b
  OBVIOUS
<1>5. t \in Seq(Nat) /\ t \o <<>> = t
  <2>1. t \in Seq(Nat)
    BY <1>4
  <2> QED BY <2>1
<1> QED BY <1>1, <1>2, <1>3, <1>4, <1>5

LEMMA Joined ==
  ASSUME NEW s \in Seq(Nat), NEW b \in Seq(Nat), NEW m \in Nat, NEW n \in Nat, m = Len(s), n = Len(b)
  PROVE  /\ s \o b \in Seq(Nat) /\ Len(s \o b) = m + n
         /\ \A i \in 1 .. m : (s \o b)[i] = s[i]
         /\ \A i \in 1 .. n : (s \o b)[m + i] = b[i]
OBVIOUS

LEMMA ReadKeeps ==
  ASSUME FrameInv, ~spoiled, Read
  PROVE  FrameInv'
<1>1. FrameType /\ Frame
  BY DEF FrameInv
<1>o. PICK o \in Nat : o = Offset(done) /\ got - o \in Nat
  BY <1>1, RestIs DEF Frame
<1>m. PICK m \in Nat : m = got - o /\ m = command_cur
  BY <1>1, <1>o DEF Frame
<1>2. got \in Nat /\ o + m = got /\ Sent \in Nat
  <2>1. Len(script) \in 0 .. Len(script)
    BY <1>1 DEF FrameType
  <2> QED BY <1>1, <1>o, <1>m, <2>1, Offsets DEF FrameType, Sent
<1>3. text \in Seq(Nat) /\ Len(text) = m /\ \A i \in 1 .. m : text[i] = o + i
  BY <1>1, <1>o, <1>m, RestIs DEF Frame
<1>4. PICK n \in 1 .. Min({BUFFER_SIZE - 1, Sent - got}) :
        got' = got + n /\ command_cur' = command_cur + n /\ text' = Stored([i \in 1 .. n |-> got + i])
  BY DEF Read
<1>5. n \in Nat /\ got + n <= Sent
  <2>1. Sent - got \in Int /\ BUFFER_SIZE - 1 \in Int
    BY <1>2 DEF BUFFER_SIZE
  <2>2. Min({BUFFER_SIZE - 1, Sent - got}) \in Int /\ Min({BUFFER_SIZE - 1, Sent - got}) <= Sent - got
    BY <2>1, MinOfTwo
  <2>3. PICK q \in Int : q = Min({BUFFER_SIZE - 1, Sent - got})
    BY <2>2
  <2>4. n \in 1 .. q /\ q <= Sent - got
    BY <2>2, <2>3
  <2> QED BY <1>2, <2>4
<1>6. PICK b : b = [i \in 1 .. n |-> got + i]
  OBVIOUS
<1>7. b \in Seq(Nat) /\ Len(b) = n /\ \A i \in 1 .. n : b[i] = got + i
  BY <1>2, <1>5, <1>6
<1>8. text' = text \o b
  <2>1. text' = SubSeq(text, 1, Len(text)) \o b \o SubSeq(text, Len(text) + Len(b) + 1, Len(text))
    BY <1>m, <1>3, <1>4, <1>6 DEF Stored
  <2> QED BY <1>3, <1>7, <2>1, Behind
<1>9. PICK t : t = text \o b
  OBVIOUS
<1>10. t \in Seq(Nat) /\ Len(t) = m + n /\ \A i \in 1 .. m : t[i] = text[i]
  <2>1. text \in Seq(Nat) /\ b \in Seq(Nat) /\ m = Len(text) /\ n = Len(b) /\ m \in Nat /\ n \in Nat
    BY <1>3, <1>5, <1>7
  <2>2. /\ text \o b \in Seq(Nat) /\ Len(text \o b) = m + n
        /\ \A i \in 1 .. m : (text \o b)[i] = text[i]
    BY <2>1, Joined
  <2> QED BY <1>9, <2>2
<1>11. \A i \in 1 .. n : t[m + i] = b[i]
  <2>1. text \in Seq(Nat) /\ b \in Seq(Nat) /\ m \in Nat /\ n \in Nat /\ m = Len(text) /\ n = Len(b)
    BY <1>3, <1>5, <1>7
  <2>2. \A i \in 1 .. n : (text \o b)[m + i] = b[i]
    BY <2>1, Joined
  <2> QED BY <1>9, <2>2
<1>12. ASSUME NEW i \in 1 .. m + n PROVE t[i] = o + i
  <2>1. CASE i <= m
    BY <1>3, <1>10, <2>1
  <2>2. CASE ~ (i <= m)
    <3>1. PICK j \in 1 .. n : m + j = i
      <4>1. i - m \in 1 .. n /\ m + (i - m) = i
        BY <1>5, <2>2
      <4> QED BY <4>1
    <3>2. t[i] = got + j
      BY <1>7, <1>11, <3>1
    <3> QED BY <1>2, <3>1, <3>2
  <2> QED BY <2>1, <2>2
<1>13. t = [i \in 1 .. m + n |-> o + i]
  BY <1>10, <1>12
<1>14. UNCHANGED <<script, done>> /\ at' = "consume" /\ Sent' = Sent /\ Offset(done)' = Offset(done)
  BY DEF Read, Sent, Offset, LineEnds
<1>15. got' - o = m + n /\ got' \in Nat /\ got' <= Sent
  BY <1>2, <1>4, <1>5
<1>16. FrameType'
  BY <1>1, <1>14, <1>15 DEF FrameType
<1>17. Rest' = t
  BY <1>o, <1>13, <1>14, <1>15 DEF Rest
<1>18. Frame'
  BY <1>o, <1>m, <1>4, <1>5, <1>8, <1>9, <1>14, <1>15, <1>17 DEF Frame
<1> QED BY <1>16, <1>18 DEF FrameInv

LEMMA ConsumeKeeps ==
  ASSUME FrameInv, ~spoiled, Consume
  PROVE  FrameInv'
<1>1. FrameType /\ Frame
  BY DEF FrameInv
<1>o. PICK o \in Nat : o = Offset(done) /\ got - o \in Nat
  BY <1>1, RestIs DEF Frame
<1>m. PICK m \in Nat : m = got - o
  BY <1>o
<1>2. text \in Seq(Nat) /\ Len(text) = m /\ \A i \in 1 .. m : text[i] = o + i
  BY <1>1, <1>o, <1>m, RestIs DEF Frame
<1>3. PICK end \in Ends : /\ end = Min(Ends) /\ text' = SubSeq(text, end + 1, Len(text))
                          /\ command_cur' = Len(text) - end
  BY DEF Consume
<1>4. done < Len(script) /\ Offset(done + 1) <= got /\ end = Offset(done + 1) - o
  BY <1>1, <1>o, <1>3, FirstEnd
<1>5. PICK q \in Nat : q = Offset(done + 1) /\ o + 2 <= q /\ q <= got
  <2>1. done \in 0 .. Len(script) /\ Len(script) \in 0 .. Len(script) /\ script \in Seq(Command)
    BY <1>1 DEF FrameType
  <2>2. Offset(done + 1) \in Nat /\ Offset(done) + 2 <= Offset(done + 1)
    BY <1>4, <2>1, Grow
  <2> QED BY <1>o, <1>4, <2>2
<1>6. end \in Nat /\ o + end = q /\ end <= m /\ m - end = got - q /\ got \in Nat /\ got - q \in Nat
  <2>1. end = q - o /\ got \in Nat
    BY <1>1, <1>4, <1>5 DEF FrameType
  <2> QED BY <1>m, <1>5, <2>1
<1>7. PICK t : t = SubSeq(text, end + 1, m)
  OBVIOUS
<1>8. t \in Seq(Nat) /\ Len(t) = m - end /\ \A i \in 1 .. m - end : t[i] = text[end + i]
  BY <1>2, <1>6, <1>7
<1>9. \A i \in 1 .. m - end : t[i] = q + i
  <2> SUFFICES ASSUME NEW i \in 1 .. m - end PROVE t[i] = q + i
    OBVIOUS
  <2>1. end + i \in 1 .. m
    BY <1>6
  <2>2. text[end + i] = o + (end + i)
    BY <1>2, <2>1
  <2>3. t[i] = o + (end + i)
    BY <1>8, <2>2
  <2> QED BY <1>6, <2>3
<1>10. t = [i \in 1 .. got - q |-> q + i]
  BY <1>6, <1>8, <1>9
<1>11. UNCHANGED <<script, got>> /\ done' = done + 1 /\ at' = "answer" /\ Sent' = Sent
       /\ Offset(done') = q
  BY <1>5 DEF Consume, Sent, Offset, LineEnds
<1>12. LineEnds' = LineEnds
  BY <1>11 DEF LineEnds
<1>13. Offset(done)' = q
  BY <1>11, <1>12 DEF Offset
<1>14. FrameType'
  BY <1>1, <1>4, <1>11 DEF FrameType
<1>15. Rest' = t
  BY <1>10, <1>11, <1>13 DEF Rest
<1>16. Frame'
  BY <1>2, <1>3, <1>5, <1>6, <1>7, <1>11, <1>13, <1>15 DEF Frame
<1> QED BY <1>14, <1>16 DEF FrameInv

\* A step that takes nothing in and nothing out.
LEMMA FrameStays ==
  ASSUME FrameInv, UNCHANGED <<script, got, text, command_cur, done, spoiled>>,
         at' \in {"read", "consume", "answer", "closed", "killed"},
         at' = "read" /\ done < Len(script) /\ ~spoiled => got < Offset(done + 1)
  PROVE  FrameInv'
<1>1. LineEnds' = LineEnds
  BY DEF LineEnds
<1>2. Sent' = Sent /\ Rest' = Rest
  BY <1>1 DEF Sent, Rest, Offset
<1>3. FrameType'
  BY <1>2 DEF FrameInv, FrameType
<1>4. ~spoiled => Frame'
  BY <1>1, <1>2 DEF FrameInv, Frame, Offset
<1> QED BY <1>3, <1>4 DEF FrameInv

LEMMA FrameNext == FrameInv /\ [Next]_vars => FrameInv'
<1> SUFFICES ASSUME FrameInv, [Next]_vars PROVE FrameInv'
  OBVIOUS
<1>1. CASE UNCHANGED vars
  <2>1. UNCHANGED <<script, got, text, command_cur, done, spoiled, at>>
    BY <1>1 DEF vars, connVars
  <2> QED BY <2>1, FrameStays DEF FrameInv, FrameType, Frame
<1>2. CASE ~spoiled /\ Read
  BY <1>2, ReadKeeps
<1>3. CASE ~spoiled /\ Consume
  BY <1>3, ConsumeKeeps
<1>4. CASE ~spoiled /\ NothingToConsume
  <2>1. UNCHANGED <<script, got, text, command_cur, done, spoiled>> /\ at' = "read" /\ Ends = {}
    BY <1>4 DEF NothingToConsume
  <2>2. FrameType /\ Frame
    BY <1>4 DEF FrameInv
  <2>3. done < Len(script) => got < Offset(done + 1)
    <3> SUFFICES ASSUME done < Len(script) PROVE got < Offset(done + 1)
      OBVIOUS
    <3>1. done \in 0 .. Len(script) /\ Len(script) \in 0 .. Len(script) /\ script \in Seq(Command)
          /\ got \in Nat
      BY <2>2 DEF FrameType
    <3>2. Offset(done + 1) \in Nat
      BY <3>1, Grow
    <3>3. ~ (Offset(done + 1) <= got)
      BY <2>1, <2>2, FirstEnd
    <3> QED BY <3>1, <3>2, <3>3
  <2> QED BY <2>1, <2>3, FrameStays
<1>5. CASE ReadEnd \/ Answer \/ AnswerFails
  <2>1. UNCHANGED <<script, got, text, command_cur, done, spoiled>>
        /\ at' \in {"consume", "closed", "killed"}
    BY <1>5 DEF ReadEnd, Answer, AnswerFails
  <2> QED BY <2>1, FrameStays
<1>6. CASE PeerCloses
  <2>1. UNCHANGED <<script, got, text, command_cur, done, spoiled, at>>
    BY <1>6 DEF PeerCloses
  <2> QED BY <2>1, FrameStays DEF FrameInv, FrameType, Frame
<1> QED BY <1>1, <1>2, <1>3, <1>4, <1>5, <1>6 DEF Next, Handling

\* Of the bytes a client sends, whatever parts they arrive in, command holds those
\* that were read and are of no command executed yet; the handler waits for more
\* only when they are no whole command.
THEOREM CommandsInOrder == Spec => []RestInBuffer
<1>1. FrameInv => RestInBuffer
  <2> SUFFICES ASSUME FrameInv, ~spoiled PROVE RestInBuffer
    BY DEF RestInBuffer
  <2>1. FrameType /\ Frame
    BY DEF FrameInv
  <2>2. command_cur = Len(text)
    BY <2>1, RestIs DEF Frame
  <2> QED BY <2>1, <2>2 DEF RestInBuffer, Frame, Rest
<1> QED BY FrameInit, FrameNext, <1>1, PTL DEF Spec

(***************************************************************************)
(* The table and the log.                                                  *)
(***************************************************************************)
Datum == [name : Name \cup {Nothing.name, Garbled}, len : Nat]
LogLine == [clr : BOOLEAN, key : Datum, old : Datum, new : Datum]

\* No key has the value NULL.
Tables == UNION {[D -> Datum \ {Nothing}] : D \in SUBSET Datum}

LEMMA TableIs ==
  ASSUME NEW tab
  PROVE  tab \in Tables <=> /\ tab = [k \in DOMAIN tab |-> tab[k]] /\ DOMAIN tab \subseteq Datum
                            /\ \A k \in DOMAIN tab : tab[k] \in Datum \ {Nothing}
<1>1. ASSUME tab \in Tables
      PROVE  /\ tab = [k \in DOMAIN tab |-> tab[k]] /\ DOMAIN tab \subseteq Datum
             /\ \A k \in DOMAIN tab : tab[k] \in Datum \ {Nothing}
  <2>1. PICK D \in SUBSET Datum : tab \in [D -> Datum \ {Nothing}]
    BY <1>1 DEF Tables
  <2> QED BY <2>1
<1>2. ASSUME tab = [k \in DOMAIN tab |-> tab[k]], DOMAIN tab \subseteq Datum,
             \A k \in DOMAIN tab : tab[k] \in Datum \ {Nothing}
      PROVE  tab \in Tables
  <2>1. PICK D \in SUBSET Datum : D = DOMAIN tab
    BY <1>2
  <2>2. tab \in [D -> Datum \ {Nothing}]
    BY <1>2, <2>1
  <2> QED BY <2>2 DEF Tables
<1> QED BY <1>1, <1>2

\* NULL is a datum, and no word.
LEMMA Words ==
  /\ Nothing \in Datum /\ Word \subseteq Datum \ {Nothing} /\ Nothing.len = 0
<1>1. Nothing \in Datum /\ Nothing.len = 0
  BY DEF Nothing, Datum
<1>2. ASSUME NEW x \in Word PROVE x \in Datum /\ x # Nothing
  <2>1. x.name # Nothing.name
    BY HandlerConstants DEF Word
  <2> QED BY <2>1 DEF Datum, Word
<1> QED BY <1>1, <1>2

LEMMA WithType ==
  ASSUME NEW tab \in Tables, NEW k \in Datum, NEW v \in Datum \ {Nothing}
  PROVE  With(tab, k, v) \in Tables
<1>1. PICK t : t = With(tab, k, v)
  OBVIOUS
<1>2. DOMAIN tab \subseteq Datum /\ \A j \in DOMAIN tab : tab[j] \in Datum \ {Nothing}
  BY TableIs
<1>3. /\ DOMAIN t = DOMAIN tab \cup {k} /\ t = [j \in DOMAIN t |-> t[j]]
      /\ \A j \in DOMAIN t : t[j] = IF j = k THEN v ELSE tab[j]
  BY <1>1 DEF With
<1>4. DOMAIN t \subseteq Datum /\ \A j \in DOMAIN t : t[j] \in Datum \ {Nothing}
  BY <1>2, <1>3
<1> QED BY <1>1, <1>3, <1>4, TableIs

LEMMA WithoutType ==
  ASSUME NEW tab \in Tables, NEW k
  PROVE  Without(tab, k) \in Tables
<1>1. PICK t : t = Without(tab, k)
  OBVIOUS
<1>2. DOMAIN tab \subseteq Datum /\ \A j \in DOMAIN tab : tab[j] \in Datum \ {Nothing}
  BY TableIs
<1>3. /\ DOMAIN t = DOMAIN tab \ {k} /\ t = [j \in DOMAIN t |-> t[j]]
      /\ \A j \in DOMAIN t : t[j] = tab[j]
  BY <1>1 DEF Without
<1>4. DOMAIN t \subseteq Datum /\ \A j \in DOMAIN t : t[j] \in Datum \ {Nothing}
  BY <1>2, <1>3
<1> QED BY <1>1, <1>3, <1>4, TableIs

LEMMA EmptyTableType == EmptyTable \in Tables
<1>1. PICK t : t = EmptyTable
  OBVIOUS
<1>2. DOMAIN t = {} /\ t = [k \in DOMAIN t |-> t[k]]
  BY <1>1 DEF EmptyTable
<1> QED BY <1>1, <1>2, TableIs

\* Two tables are the same that have the same keys and values.
LEMMA SameTable ==
  ASSUME NEW s \in Tables, NEW t \in Tables, DOMAIN s = DOMAIN t, \A k \in DOMAIN s : s[k] = t[k]
  PROVE  s = t
<1>1. s = [k \in DOMAIN s |-> s[k]] /\ t = [k \in DOMAIN t |-> t[k]]
  BY TableIs
<1> QED BY <1>1

(***************************************************************************)
(* What a line gives back.                                                 *)
(***************************************************************************)
LEMMA ReadBackIs ==
  ASSUME NEW n \in Nat
  PROVE  ReadBack(n) \in Nat /\ (n < 16 => ReadBack(n) = n)
<1>1. Digits(n)[1] = (n \div 16) % 16 /\ Digits(n)[2] = n % 16
  BY DEF Digits
<1>2. ReadBack(n) = 2 * ((n \div 16) % 16) + (n % 16)
  BY <1>1 DEF ReadBack, FromDigits
<1>3. (n \div 16) % 16 \in Nat /\ n % 16 \in Nat
  <2>1. n \div 16 \in Nat
    OBVIOUS
  <2> QED BY <2>1
<1>4. n < 16 => (n \div 16) % 16 = 0 /\ n % 16 = n
  <2>1. n < 16 => n \div 16 = 0 /\ n % 16 = n
    OBVIOUS
  <2>2. 0 % 16 = 0
    OBVIOUS
  <2> QED BY <2>1, <2>2
<1> QED BY <1>2, <1>3, <1>4

LEMMA PartIs ==
  ASSUME NEW x \in Datum
  PROVE  /\ Prefix(x) \in Datum /\ Shifted(x) \in Datum
         /\ x.len < 16 => Prefix(x) = x /\ Exact(x)
<1>1. x.len \in Nat /\ x = [name |-> x.name, len |-> x.len]
  BY DEF Datum
<1>2. ReadBack(x.len) \in Nat /\ (x.len < 16 => ReadBack(x.len) = x.len)
  BY <1>1, ReadBackIs
<1>3. PICK n \in Nat : n = ReadBack(x.len)
  BY <1>2
<1>4. Prefix(x) = [x EXCEPT !.len = n] /\ Shifted(x) = [name |-> Garbled, len |-> n]
  BY <1>3 DEF Prefix, Shifted
<1>5. [x EXCEPT !.len = n] \in Datum /\ [name |-> Garbled, len |-> n] \in Datum
  BY DEF Datum
<1>6. n = x.len => [x EXCEPT !.len = n] = x
  BY DEF Datum
<1> QED BY <1>2, <1>3, <1>4, <1>5, <1>6 DEF Exact

LEMMA ReadLineIs ==
  ASSUME NEW l \in LogLine
  PROVE  /\ ReadLine(l) \in LogLine
         /\ l.key.len < 16 /\ l.old.len < 16 /\ l.new.len < 16 => ReadLine(l) = l
<1>1. l.clr \in BOOLEAN /\ l.key \in Datum /\ l.old \in Datum /\ l.new \in Datum
      /\ l = [clr |-> l.clr, key |-> l.key, old |-> l.old, new |-> l.new]
  BY DEF LogLine
<1>2. PICK r : r = ReadLine(l)
  OBVIOUS
<1>3. r = [clr |-> l.clr, key |-> Prefix(l.key),
           old |-> IF Exact(l.key) THEN Prefix(l.old) ELSE Shifted(l.old),
           new |-> IF Exact(l.key) /\ Exact(l.old) THEN Prefix(l.new) ELSE Shifted(l.new)]
  BY <1>2 DEF ReadLine
<1>4. r \in LogLine
  <2>1. Prefix(l.key) \in Datum
    BY <1>1, PartIs
  <2>2. Prefix(l.old) \in Datum /\ Shifted(l.old) \in Datum
    BY <1>1, PartIs
  <2>3. Prefix(l.new) \in Datum /\ Shifted(l.new) \in Datum
    BY <1>1, PartIs
  <2> QED BY <1>1, <1>3, <2>1, <2>2, <2>3 DEF LogLine
<1>5. ASSUME l.key.len < 16, l.old.len < 16, l.new.len < 16 PROVE r = l
  <2>1. Prefix(l.key) = l.key /\ Exact(l.key)
    BY <1>1, <1>5, PartIs
  <2>2. Prefix(l.old) = l.old /\ Exact(l.old)
    BY <1>1, <1>5, PartIs
  <2>3. Prefix(l.new) = l.new
    BY <1>1, <1>5, PartIs
  <2> QED BY <1>1, <1>3, <2>1, <2>2, <2>3
<1> QED BY <1>2, <1>4, <1>5

LEMMA RedoType ==
  ASSUME NEW tab \in Tables, NEW l \in LogLine
  PROVE  RedoLine(tab, l) \in Tables
<1>1. PICK r : r = ReadLine(l)
  OBVIOUS
<1>2. r.key \in Datum /\ r.new \in Datum
  BY <1>1, ReadLineIs DEF LogLine
<1>3. RedoLine(tab, l) = IF r.new.len = 0 THEN Without(tab, r.key) ELSE With(tab, r.key, r.new)
  BY <1>1 DEF RedoLine
<1>4. r.new.len # 0 => r.new # Nothing
  BY Words
<1> QED BY <1>2, <1>3, <1>4, WithType, WithoutType

LEMMA UndoType ==
  ASSUME NEW tab \in Tables, NEW l \in LogLine
  PROVE  Undone(tab, l) \in Tables
<1>1. PICK r : r = ReadLine(l)
  OBVIOUS
<1>2. r.key \in Datum /\ r.old \in Datum
  BY <1>1, ReadLineIs DEF LogLine
<1>3. Undone(tab, l) = IF ~Empty(r.old) THEN With(tab, r.key, r.old)
                       ELSE IF Empty(r.new) THEN tab ELSE Without(tab, r.key)
  BY <1>1 DEF Undone
<1>4. ~Empty(r.old) => r.old # Nothing
  BY Words DEF Empty
<1> QED BY <1>2, <1>3, <1>4, WithType, WithoutType

(***************************************************************************)
(* Lines redone or undone one after the other.                             *)
(***************************************************************************)
Redoes(f, t, s) == f[0] = t /\ \A i \in 1 .. Len(s) : f[i] = RedoLine(f[i - 1], s[i])
RedoGives(t, s, u) == \E f : Redoes(f, t, s) /\ f[Len(s)] = u

Undoes(f, t, s) == f[0] = t /\ \A i \in 1 .. Len(s) : f[i] = Undone(f[i - 1], s[i])
UndoGives(t, s, u) == \E f : Undoes(f, t, s) /\ f[Len(s)] = u

LEMMA RedoneIs ==
  ASSUME log \in Seq(LogLine)
  PROVE  RedoGives(EmptyTable, log, Redone)
<1>1. PICK L \in Nat : L = Len(log) /\ \A i \in 1 .. L : log[i] \in LogLine
  OBVIOUS
<1> DEFINE F == [i \in 1 .. L |-> [x \in Tables |-> RedoLine(x, log[i])]]
           Is(f) == f = [n \in 0 .. Len(log) |->
                          IF n = 0 THEN EmptyTable ELSE RedoLine(f[n - 1], log[n])]
<1>2. \A i \in 1 .. L : \A x \in Tables : F[i][x] = RedoLine(x, log[i]) /\ F[i][x] \in Tables
  BY <1>1, RedoType
<1>3. PICK h : Recursion(h, L, EmptyTable, F) /\ \A i \in 0 .. L : h[i] \in Tables
  <2>1. \A i \in 1 .. L : \A x \in Tables : F[i][x] \in Tables
    BY <1>2
  <2> HIDE DEF F
  <2> QED BY <2>1, EmptyTableType, Iterated
<1>4. \A i \in 1 .. L : h[i] = RedoLine(h[i - 1], log[i])
  <2> SUFFICES ASSUME NEW i \in 1 .. L PROVE h[i] = RedoLine(h[i - 1], log[i])
    OBVIOUS
  <2>1. h[i] = F[i][h[i - 1]] /\ h[i - 1] \in Tables
    <3> HIDE DEF F
    <3> QED BY <1>3 DEF Recursion
  <2> QED BY <1>2, <2>1
<1> DEFINE g == [i \in 0 .. L |-> h[i]]
<1>5. Is(g)
  <2>1. g[0] = EmptyTable
    BY <1>3 DEF Recursion
  <2>2. \A i \in 1 .. L : g[i] = RedoLine(g[i - 1], log[i])
    BY <1>4
  <2>3. ASSUME NEW i \in 0 .. L
        PROVE  g[i] = IF i = 0 THEN EmptyTable ELSE RedoLine(g[i - 1], log[i])
    <3>1. CASE i = 0
      BY <2>1, <3>1
    <3>2. CASE i # 0
      <4>1. i \in 1 .. L
        BY <3>2
      <4> HIDE DEF g
      <4> QED BY <2>2, <3>2, <4>1
    <3> QED BY <3>1, <3>2
  <2>4. g = [i \in 0 .. L |-> g[i]]
    OBVIOUS
  <2> HIDE DEF g
  <2> QED BY <1>1, <2>3, <2>4
<1> DEFINE e == CHOOSE f : Is(f)
<1>6. Is(e)
  <2> HIDE DEF Is, g
  <2> QED BY <1>5
<1>7. Redone = e[Len(log)]
  BY DEF Redone, RedoneTo
<1> HIDE DEF e
<1>8. e[0] = EmptyTable /\ \A i \in 1 .. L : e[i] = RedoLine(e[i - 1], log[i])
  BY <1>1, <1>6
<1>9. Redoes(e, EmptyTable, log)
  BY <1>1, <1>8 DEF Redoes
<1> QED BY <1>7, <1>9 DEF RedoGives

LEMMA UndoneIs ==
  ASSUME table \in Tables, NEW s \in Seq(LogLine)
  PROVE  UndoGives(table, s, UndoneAll(s)) /\ UndoneAll(s) \in Tables
<1>1. PICK L \in Nat : L = Len(s) /\ \A i \in 1 .. L : s[i] \in LogLine
  OBVIOUS
<1> DEFINE F == [i \in 1 .. L |-> [x \in Tables |-> Undone(x, s[i])]]
           Is(f) == f = [n \in 0 .. Len(s) |-> IF n = 0 THEN table ELSE Undone(f[n - 1], s[n])]
<1>2. \A i \in 1 .. L : \A x \in Tables : F[i][x] = Undone(x, s[i]) /\ F[i][x] \in Tables
  BY <1>1, UndoType
<1>3. PICK h : Recursion(h, L, table, F) /\ \A i \in 0 .. L : h[i] \in Tables
  <2>1. \A i \in 1 .. L : \A x \in Tables : F[i][x] \in Tables
    BY <1>2
  <2> HIDE DEF F
  <2> QED BY <2>1, Iterated
<1>4. \A i \in 1 .. L : h[i] = Undone(h[i - 1], s[i])
  <2> SUFFICES ASSUME NEW i \in 1 .. L PROVE h[i] = Undone(h[i - 1], s[i])
    OBVIOUS
  <2>1. h[i] = F[i][h[i - 1]] /\ h[i - 1] \in Tables
    <3> HIDE DEF F
    <3> QED BY <1>3 DEF Recursion
  <2> QED BY <1>2, <2>1
<1> DEFINE g == [i \in 0 .. L |-> h[i]]
<1>5. Is(g)
  <2>1. g[0] = table
    BY <1>3 DEF Recursion
  <2>2. \A i \in 1 .. L : g[i] = Undone(g[i - 1], s[i])
    BY <1>4
  <2>3. ASSUME NEW i \in 0 .. L
        PROVE  g[i] = IF i = 0 THEN table ELSE Undone(g[i - 1], s[i])
    <3>1. CASE i = 0
      BY <2>1, <3>1
    <3>2. CASE i # 0
      <4>1. i \in 1 .. L
        BY <3>2
      <4> HIDE DEF g
      <4> QED BY <2>2, <3>2, <4>1
    <3> QED BY <3>1, <3>2
  <2>4. g = [i \in 0 .. L |-> g[i]]
    OBVIOUS
  <2> HIDE DEF g
  <2> QED BY <1>1, <2>3, <2>4
<1> DEFINE e == CHOOSE f : Is(f)
<1>6. Is(e)
  <2> HIDE DEF Is, g
  <2> QED BY <1>5
<1>7. UndoneAll(s) = e[Len(s)]
  BY DEF UndoneAll
<1> HIDE DEF e
<1>8. e[0] = table /\ \A i \in 1 .. L : e[i] = Undone(e[i - 1], s[i])
  BY <1>1, <1>6
<1>9. Undoes(e, table, s)
  BY <1>1, <1>8 DEF Undoes
<1>10. e[L] \in Tables
  <2> DEFINE T == {i \in 0 .. L : e[i] \in Tables}
  <2>1. 0 \in T
    BY <1>8
  <2>2. ASSUME NEW i \in 0 .. L - 1, i \in T PROVE i + 1 \in T
    <3>1. PICK j \in 1 .. L : j = i + 1 /\ j - 1 = i
      OBVIOUS
    <3>2. e[j] = Undone(e[i], s[j]) /\ e[i] \in Tables
      BY <1>8, <2>2, <3>1
    <3>3. e[j] \in Tables
      BY <1>1, <3>2, UndoType
    <3> QED BY <3>1, <3>3
  <2>3. \A i \in 0 .. L : i \in T
    <3> HIDE DEF T
    <3> QED BY <2>1, <2>2, Upward
  <2> QED BY <2>3
<1> QED BY <1>1, <1>7, <1>9, <1>10 DEF UndoGives

\* Redoing gives one table.
LEMMA RedoSame ==
  ASSUME NEW S, NEW s \in Seq(S), NEW t, NEW u, NEW v, RedoGives(t, s, u), RedoGives(t, s, v)
  PROVE  u = v
<1>1. PICK f : Redoes(f, t, s) /\ f[Len(s)] = u
  BY DEF RedoGives
<1>2. PICK g : Redoes(g, t, s) /\ g[Len(s)] = v
  BY DEF RedoGives
<1>3. PICK L \in Nat : L = Len(s)
  OBVIOUS
<1> DEFINE T == {i \in 0 .. L : f[i] = g[i]}
<1>4. 0 \in T
  BY <1>1, <1>2 DEF Redoes
<1>5. ASSUME NEW i \in 0 .. L - 1, i \in T PROVE i + 1 \in T
  <2>1. PICK j \in 1 .. L : j = i + 1 /\ j - 1 = i
    OBVIOUS
  <2>2. f[j] = RedoLine(f[j - 1], s[j]) /\ g[j] = RedoLine(g[j - 1], s[j])
    BY <1>1, <1>2, <1>3 DEF Redoes
  <2> QED BY <1>5, <2>1, <2>2
<1>6. \A i \in 0 .. L : i \in T
  <2> HIDE DEF T
  <2> QED BY <1>4, <1>5, Upward
<1> QED BY <1>1, <1>2, <1>3, <1>6

LEMMA UndoSame ==
  ASSUME NEW S, NEW s \in Seq(S), NEW t, NEW u, NEW v, UndoGives(t, s, u), UndoGives(t, s, v)
  PROVE  u = v
<1>1. PICK f : Undoes(f, t, s) /\ f[Len(s)] = u
  BY DEF UndoGives
<1>2. PICK g : Undoes(g, t, s) /\ g[Len(s)] = v
  BY DEF UndoGives
<1>3. PICK L \in Nat : L = Len(s)
  OBVIOUS
<1> DEFINE T == {i \in 0 .. L : f[i] = g[i]}
<1>4. 0 \in T
  BY <1>1, <1>2 DEF Undoes
<1>5. ASSUME NEW i \in 0 .. L - 1, i \in T PROVE i + 1 \in T
  <2>1. PICK j \in 1 .. L : j = i + 1 /\ j - 1 = i
    OBVIOUS
  <2>2. f[j] = Undone(f[j - 1], s[j]) /\ g[j] = Undone(g[j - 1], s[j])
    BY <1>1, <1>2, <1>3 DEF Undoes
  <2> QED BY <1>5, <2>1, <2>2
<1>6. \A i \in 0 .. L : i \in T
  <2> HIDE DEF T
  <2> QED BY <1>4, <1>5, Upward
<1> QED BY <1>1, <1>2, <1>3, <1>6

\* Lines redone behind others.
LEMMA RedoThen ==
  ASSUME NEW S, NEW s \in Seq(S), NEW r \in Seq(S), NEW t, NEW u, NEW v,
         RedoGives(t, s, u), RedoGives(u, r, v)
  PROVE  RedoGives(t, s \o r, v)
<1>1. PICK f : Redoes(f, t, s) /\ f[Len(s)] = u
  BY DEF RedoGives
<1>2. PICK g : Redoes(g, u, r) /\ g[Len(r)] = v
  BY DEF RedoGives
<1>3. PICK m \in Nat : m = Len(s)
  OBVIOUS
<1>4. PICK n \in Nat : n = Len(r)
  OBVIOUS
<1>5. PICK q : q = s \o r
  OBVIOUS
<1>6. /\ Len(q) = m + n
      /\ \A i \in 1 .. m : q[i] = s[i]
      /\ \A i \in 1 .. m + n : i > m => i - m \in 1 .. n /\ q[i] = r[i - m]
  BY <1>3, <1>4, <1>5
<1>7. PICK h : h = [i \in 0 .. m + n |-> IF i <= m THEN f[i] ELSE g[i - m]]
  OBVIOUS
<1>8. /\ \A i \in 0 .. m : h[i] = f[i]
      /\ \A i \in 0 .. m + n : i >= m => h[i] = g[i - m]
  <2>1. f[m] = g[0]
    BY <1>1, <1>2, <1>3 DEF Redoes
  <2>2. ASSUME NEW i \in 0 .. m + n, i >= m PROVE h[i] = g[i - m]
    <3>1. CASE i = m
      BY <1>7, <2>1, <3>1
    <3>2. CASE i > m
      BY <1>7, <2>2, <3>2
    <3> QED BY <2>2, <3>1, <3>2
  <2> QED BY <1>7, <2>2
<1>9. h[0] = t /\ h[m + n] = v
  BY <1>1, <1>2, <1>3, <1>4, <1>8 DEF Redoes
<1>10. ASSUME NEW i \in 1 .. m + n PROVE h[i] = RedoLine(h[i - 1], q[i])
  <2>1. CASE i <= m
    <3>1. f[i] = RedoLine(f[i - 1], s[i])
      BY <1>1, <1>3, <2>1 DEF Redoes
    <3>2. h[i] = f[i] /\ h[i - 1] = f[i - 1] /\ q[i] = s[i]
      BY <1>6, <1>8, <2>1
    <3> QED BY <3>1, <3>2
  <2>2. CASE i > m
    <3>1. PICK j \in 1 .. n : j = i - m
      BY <2>2
    <3>2. g[j] = RedoLine(g[j - 1], r[j])
      BY <1>2, <1>4, <3>1 DEF Redoes
    <3>3. h[i] = g[j] /\ q[i] = r[j]
      BY <1>6, <1>8, <2>2, <3>1
    <3>4. h[i - 1] = g[j - 1]
      <4>1. PICK k \in 0 .. m + n : k = i - 1 /\ k >= m /\ k - m = j - 1
        BY <2>2, <3>1
      <4> QED BY <1>8, <4>1
    <3> QED BY <3>2, <3>3, <3>4
  <2> QED BY <2>1, <2>2
<1>11. Redoes(h, t, q) /\ h[Len(q)] = v
  BY <1>6, <1>9, <1>10 DEF Redoes
<1> QED BY <1>5, <1>11 DEF RedoGives

LEMMA RedoMore ==
  ASSUME NEW s \in Seq(LogLine), NEW x \in LogLine, NEW t, NEW u, NEW v,
         RedoGives(t, s, u), v = RedoLine(u, x)
  PROVE  RedoGives(t, Append(s, x), v)
<1>0. PICK r : r = <<x>>
  OBVIOUS
<1>1. r \in Seq(LogLine)
  BY <1>0
<1>2. RedoGives(u, r, v)
  <2>1. PICK h : h = [i \in 0 .. 1 |-> IF i = 0 THEN u ELSE v]
    OBVIOUS
  <2>2. h[0] = u /\ h[1] = v /\ Len(r) = 1 /\ r[1] = x
    BY <1>0, <2>1
  <2>3. Redoes(h, u, r)
    BY <2>2 DEF Redoes
  <2> QED BY <2>2, <2>3 DEF RedoGives
<1>3. RedoGives(t, s \o r, v)
  BY <1>1, <1>2, RedoThen
<1>4. Append(s, x) = s \o r
  BY <1>0
<1> QED BY <1>3, <1>4

\* One more line, undone before the others.
LEMMA UndoBefore ==
  ASSUME NEW s \in Seq(LogLine), NEW r \in Seq(LogLine), NEW x, NEW t, NEW u, NEW v,
         UndoGives(u, s, v), u = Undone(t, x),
         Len(r) = Len(s) + 1, r[1] = x, \A i \in 1 .. Len(s) : r[i + 1] = s[i]
  PROVE  UndoGives(t, r, v)
<1>1. PICK f : Undoes(f, u, s) /\ f[Len(s)] = v
  BY DEF UndoGives
<1>2. PICK n \in Nat : n = Len(s)
  OBVIOUS
<1>3. PICK h : h = [i \in 0 .. n + 1 |-> IF i = 0 THEN t ELSE f[i - 1]]
  OBVIOUS
<1>4. h[0] = t /\ \A i \in 1 .. n + 1 : h[i] = f[i - 1]
  BY <1>3
<1>5. ASSUME NEW i \in 1 .. n + 1 PROVE h[i] = Undone(h[i - 1], r[i])
  <2>1. CASE i = 1
    BY <1>1, <1>4, <2>1 DEF Undoes
  <2>2. CASE i > 1
    <3>1. PICK j \in 1 .. n : j = i - 1 /\ j + 1 = i
      BY <2>2
    <3>2. f[j] = Undone(f[j - 1], s[j])
      BY <1>1, <1>2 DEF Undoes
    <3>3. h[i] = f[j] /\ h[j] = f[j - 1] /\ r[i] = s[j]
      BY <1>2, <1>4, <3>1
    <3> QED BY <3>1, <3>2, <3>3
  <2> QED BY <2>1, <2>2
<1>6. Undoes(h, t, r) /\ h[Len(r)] = v
  <2>1. Len(r) = n + 1 /\ h[n + 1] = v
    BY <1>1, <1>2, <1>4
  <2> QED BY <1>4, <1>5, <2>1 DEF Undoes
<1> QED BY <1>6 DEF UndoGives

(***************************************************************************)
(* What an update, its undoing and its compensation do.                    *)
(***************************************************************************)
LEMMA PutBack ==
  ASSUME NEW tab \in Tables, NEW k \in Datum, NEW v \in Datum \ {Nothing}
  PROVE  /\ k \in DOMAIN tab => /\ With(With(tab, k, v), k, tab[k]) = tab
                                /\ With(Without(tab, k), k, tab[k]) = tab
         /\ k \notin DOMAIN tab => Without(With(tab, k, v), k) = tab
<1>1. PICK w : w = With(tab, k, v)
  OBVIOUS
<1>2. PICK o : o = Without(tab, k)
  OBVIOUS
<1>3. w \in Tables /\ o \in Tables
  BY <1>1, <1>2, WithType, WithoutType
<1>4. DOMAIN w = DOMAIN tab \cup {k} /\ \A j \in DOMAIN w : w[j] = IF j = k THEN v ELSE tab[j]
  BY <1>1 DEF With
<1>5. DOMAIN o = DOMAIN tab \ {k} /\ \A j \in DOMAIN o : o[j] = tab[j]
  BY <1>2 DEF Without
<1>6. ASSUME k \in DOMAIN tab PROVE With(w, k, tab[k]) = tab /\ With(o, k, tab[k]) = tab
  <2>1. tab[k] \in Datum \ {Nothing}
    BY <1>6, TableIs
  <2>2. PICK x : x = With(w, k, tab[k])
    OBVIOUS
  <2>3. PICK y : y = With(o, k, tab[k])
    OBVIOUS
  <2>4. x \in Tables /\ y \in Tables
    BY <1>3, <2>1, <2>2, <2>3, WithType
  <2>5. DOMAIN x = DOMAIN tab /\ \A j \in DOMAIN tab : x[j] = tab[j]
    BY <1>4, <1>6, <2>2 DEF With
  <2>6. DOMAIN y = DOMAIN tab /\ \A j \in DOMAIN tab : y[j] = tab[j]
    BY <1>5, <1>6, <2>3 DEF With
  <2> QED BY <2>2, <2>3, <2>4, <2>5, <2>6, SameTable
<1>7. ASSUME k \notin DOMAIN tab PROVE Without(w, k) = tab
  <2>1. PICK x : x = Without(w, k)
    OBVIOUS
  <2>2. x \in Tables
    BY <1>3, <2>1, WithoutType
  <2>3. DOMAIN x = DOMAIN tab /\ \A j \in DOMAIN tab : x[j] = tab[j]
    BY <1>4, <1>7, <2>1 DEF Without
  <2> QED BY <2>1, <2>2, <2>3, SameTable
<1> QED BY <1>1, <1>2, <1>6, <1>7

\* A short line is read as it was written.
LEMMA ShortLine ==
  ASSUME NEW l \in LogLine, Short(l), NEW tab
  PROVE  /\ ReadLine(l) = l
         /\ RedoLine(tab, l) = IF Empty(l.new) THEN Without(tab, l.key) ELSE With(tab, l.key, l.new)
         /\ Undone(tab, l) = IF ~Empty(l.old) THEN With(tab, l.key, l.old)
                             ELSE IF Empty(l.new) THEN tab ELSE Without(tab, l.key)
         /\ Empty(l.old) <=> l.old = Nothing
         /\ Empty(l.new) <=> l.new = Nothing
<1>1. ReadLine(l) = l
  BY ReadLineIs DEF Short
<1>2. l.old.len = 0 <=> l.old = Nothing
  BY Words DEF Short
<1>3. l.new.len = 0 <=> l.new = Nothing
  BY Words DEF Short
<1> QED BY <1>1, <1>2, <1>3 DEF RedoLine, Undone, Empty

\* A line that changes something, if its lengths are read as they are.
Telling(l) == Short(l) => ~Empty(l.old) \/ ~Empty(l.new)

LEMMA ValueIs ==
  ASSUME table \in Tables, NEW k
  PROVE  /\ Value(k) \in Datum
         /\ k \in DOMAIN table => Value(k) = table[k] /\ Value(k) # Nothing
         /\ k \notin DOMAIN table => Value(k) = Nothing
BY TableIs, Words DEF Value

LEMMA SetEffect ==
  ASSUME table \in Tables, NEW k \in Word, NEW v \in Word,
         NEW l, l = Line(FALSE, k, Value(k), v), NEW t, t = With(table, k, v)
  PROVE  /\ l \in LogLine /\ t \in Tables /\ Telling(l)
         /\ Short(l) => RedoLine(table, l) = t /\ Undone(t, l) = table
<1>1. k \in Datum /\ v \in Datum \ {Nothing} /\ Value(k) \in Datum
  BY Words, ValueIs
<1>2. l \in LogLine /\ l.key = k /\ l.old = Value(k) /\ l.new = v
  BY <1>1 DEF Line, LogLine
<1>3. t \in Tables
  BY <1>1, WithType
<1>4. ASSUME Short(l) PROVE ~Empty(l.new) /\ RedoLine(table, l) = t /\ Undone(t, l) = table
  <2>1. ~Empty(l.new) /\ (Empty(l.old) <=> l.old = Nothing)
    BY <1>1, <1>2, <1>4, ShortLine
  <2>2. RedoLine(table, l) = t
    BY <1>2, <1>4, <2>1, ShortLine
  <2>3. Undone(t, l) = IF ~Empty(l.old) THEN With(t, k, l.old) ELSE Without(t, k)
    BY <1>2, <1>4, <2>1, ShortLine
  <2>4. CASE k \in DOMAIN table
    <3>1. l.old = table[k] /\ ~Empty(l.old)
      BY <1>2, <2>1, <2>4, ValueIs
    <3>2. With(t, k, table[k]) = table
      BY <1>1, <2>4, PutBack
    <3> QED BY <2>1, <2>2, <2>3, <3>1, <3>2
  <2>5. CASE k \notin DOMAIN table
    <3>1. Empty(l.old)
      BY <1>2, <2>1, <2>5, ValueIs
    <3>2. Without(t, k) = table
      BY <1>1, <2>5, PutBack
    <3> QED BY <2>1, <2>2, <2>3, <3>1, <3>2
  <2> QED BY <2>4, <2>5
<1> QED BY <1>2, <1>3, <1>4 DEF Telling

LEMMA DelEffect ==
  ASSUME table \in Tables, NEW k \in Word, k \in DOMAIN table,
         NEW l, l = Line(FALSE, k, Value(k), Nothing), NEW t, t = Without(table, k)
  PROVE  /\ l \in LogLine /\ t \in Tables /\ Telling(l)
         /\ Short(l) => RedoLine(table, l) = t /\ Undone(t, l) = table
<1>1. k \in Datum /\ Nothing \in Datum /\ Value(k) \in Datum
  BY Words, ValueIs
<1>2. l \in LogLine /\ l.key = k /\ l.old = Value(k) /\ l.new = Nothing
  BY <1>1 DEF Line, LogLine
<1>3. t \in Tables
  BY WithoutType
<1>4. ASSUME Short(l) PROVE ~Empty(l.old) /\ RedoLine(table, l) = t /\ Undone(t, l) = table
  <2>1. Empty(l.new) /\ ~Empty(l.old) /\ l.old = table[k]
    BY <1>2, <1>4, ShortLine, ValueIs
  <2>2. RedoLine(table, l) = t /\ Undone(t, l) = With(t, k, table[k])
    BY <1>2, <1>4, <2>1, ShortLine
  <2>3. With(t, k, table[k]) = table
    <3>1. Value(k) \in Datum \ {Nothing}
      BY ValueIs
    <3> QED BY <1>1, <3>1, PutBack
  <2> QED BY <2>1, <2>2, <2>3
<1> QED BY <1>2, <1>3, <1>4 DEF Telling

LEMMA CompensationEffect ==
  ASSUME NEW l \in LogLine, NEW c, c = Compensation(l), NEW tab
  PROVE  /\ c \in LogLine
         /\ Short(l) /\ Telling(l) => RedoLine(tab, c) = Undone(tab, l)
<1>1. PICK r : r = ReadLine(l)
  OBVIOUS
<1>2. r \in LogLine /\ r.key \in Datum /\ r.old \in Datum /\ r.new \in Datum
  BY <1>1, ReadLineIs DEF LogLine
<1>3. PICK o \in Datum : o = IF Empty(r.new) THEN Nothing ELSE r.new
  BY <1>2, Words
<1>4. PICK n \in Datum : n = IF Empty(r.old) THEN Nothing ELSE r.old
  BY <1>2, Words
<1>5. c = Line(TRUE, r.key, o, n)
  BY <1>1, <1>3, <1>4 DEF Compensation
<1>6. c \in LogLine /\ c.key = r.key /\ c.old = o /\ c.new = n
  BY <1>2, <1>5 DEF Line, LogLine
<1>7. ASSUME Short(l), Telling(l) PROVE RedoLine(tab, c) = Undone(tab, l)
  <2>1. r = l /\ (Empty(l.old) <=> l.old = Nothing) /\ (Empty(l.new) <=> l.new = Nothing)
    BY <1>1, <1>7, ShortLine
  <2>2. c.key = l.key /\ c.old = l.new /\ c.new = l.old
    BY <1>3, <1>4, <1>6, <2>1
  <2>3. Short(c)
    BY <1>7, <2>2 DEF Short
  <2>4. RedoLine(tab, c) = IF Empty(l.old) THEN Without(tab, l.key) ELSE With(tab, l.key, l.old)
    BY <1>6, <2>2, <2>3, ShortLine
  <2> QED BY <1>7, <2>4, ShortLine DEF Telling
<1> QED BY <1>6, <1>7

(***************************************************************************)
(* The log gives the table, and the lines of a transaction undone give the *)
(* table at its begin.                                                     *)
(***************************************************************************)
DataType ==
  /\ table \in Tables /\ begun \in Tables /\ log \in Seq(LogLine)
  /\ tx \in [open : BOOLEAN, lines : 0 .. Len(log)]

AllShort(lines) == \A n \in DOMAIN lines : Short(lines[n])

RedoInv == AllShort(log) => RedoGives(EmptyTable, log, table)

UndoInv ==
  tx.open => /\ \A n \in DOMAIN TxLines : Telling(TxLines[n])
             /\ AllShort(TxLines) => UndoGives(table, Reverse(TxLines), begun)

DataInv == DataType /\ RedoInv /\ UndoInv

LEMMA Back ==
  ASSUME NEW m \in Nat, NEW i \in 1 .. m
  PROVE  m - i + 1 \in 1 .. m
OBVIOUS

LEMMA ReverseIs ==
  ASSUME NEW s \in Seq(LogLine), NEW m \in Nat, m = Len(s), NEW r, r = Reverse(s)
  PROVE  r \in Seq(LogLine) /\ Len(r) = m /\ \A i \in 1 .. m : r[i] = s[m - i + 1]
<1>1. r = [i \in 1 .. m |-> s[m - i + 1]]
  BY DEF Reverse
<1>2. ASSUME NEW i \in 1 .. m PROVE s[m - i + 1] \in LogLine
  <2>1. PICK j : j = m - i + 1
    OBVIOUS
  <2>2. j \in 1 .. m
    BY <2>1, Back
  <2> QED BY <2>1, <2>2
<1>3. r \in [1 .. m -> LogLine]
  BY <1>1, <1>2
<1> QED BY <1>1, <1>3

\* The lines behind the first k.
LinesFrom(lg, k) == SubSeq(lg, k + 1, Len(lg))

\* The lines of a transaction, and in the order they are undone.
LEMMA LinesFromIs ==
  ASSUME NEW lg \in Seq(LogLine), NEW k \in Nat, NEW m \in Nat, Len(lg) = k + m
  PROVE  /\ LinesFrom(lg, k) \in Seq(LogLine) /\ Len(LinesFrom(lg, k)) = m
         /\ \A i \in 1 .. m : LinesFrom(lg, k)[i] = lg[k + i]
BY SMTT(60) DEF LinesFrom

LEMMA DataInit == Init => DataInv
<1> SUFFICES ASSUME Init PROVE DataInv
  OBVIOUS
<1>1. table = EmptyTable /\ begun = EmptyTable /\ log = <<>> /\ tx = NoTx
  BY DEF Init
<1>2. Len(log) = 0 /\ log \in Seq(LogLine)
  BY <1>1
<1>3. DataType
  BY <1>1, <1>2, EmptyTableType DEF DataType, NoTx
<1>4. RedoGives(EmptyTable, log, table)
  <2>1. PICK f : f = [i \in 0 .. 0 |-> EmptyTable]
    OBVIOUS
  <2>2. f[0] = EmptyTable
    BY <2>1
  <2>3. Redoes(f, EmptyTable, log)
    BY <1>2, <2>2 DEF Redoes
  <2> QED BY <1>1, <1>2, <2>2, <2>3 DEF RedoGives
<1> QED BY <1>1, <1>3, <1>4 DEF DataInv, RedoInv, UndoInv, NoTx

\* One update.
LEMMA UpdateKeeps ==
  ASSUME DataInv, NEW l \in LogLine, table' \in Tables, Telling(l),
         Short(l) => RedoLine(table, l) = table' /\ Undone(table', l) = table,
         log' = Append(log, l), UNCHANGED <<tx, begun>>
  PROVE  DataInv'
<1>1. DataType /\ RedoInv /\ UndoInv
  BY DEF DataInv
<1>2. PICK m \in Nat : m = Len(log)
  BY <1>1 DEF DataType
<1>3. /\ log \in Seq(LogLine) /\ log' \in Seq(LogLine) /\ Len(log') = m + 1
      /\ \A i \in 1 .. m : log'[i] = log[i]
      /\ log'[m + 1] = l
  BY <1>1, <1>2 DEF DataType
<1>4. DataType'
  BY <1>1, <1>2, <1>3 DEF DataType
<1>5. RedoInv'
  <2> SUFFICES ASSUME AllShort(log)' PROVE RedoGives(EmptyTable, log, table)'
    BY DEF RedoInv
  <2>1. Short(l) /\ AllShort(log)
    BY <1>2, <1>3 DEF AllShort
  <2>2. RedoGives(EmptyTable, log, table)
    BY <1>1, <2>1 DEF RedoInv
  <2>3. PICK t : t = table'
    OBVIOUS
  <2>4. RedoGives(EmptyTable, Append(log, l), t)
    BY <1>3, <2>1, <2>2, <2>3, RedoMore
  <2>5. PICK lg : lg = log'
    OBVIOUS
  <2>6. RedoGives(EmptyTable, lg, t)
    BY <2>4, <2>5
  <2>7. EmptyTable' = EmptyTable
    BY DEF EmptyTable
  <2> QED BY <2>3, <2>5, <2>6, <2>7 DEF RedoGives, Redoes, RedoLine
<1>6. UndoInv'
  <2> SUFFICES ASSUME tx.open
               PROVE  /\ \A i \in DOMAIN TxLines' : Telling(TxLines'[i])
                      /\ AllShort(TxLines)' => UndoGives(table, Reverse(TxLines), begun)'
    BY DEF UndoInv
  <2>1. PICK k \in 0 .. m : k = tx.lines
    BY <1>1, <1>2 DEF DataType
  <2>2. PICK s : s = TxLines
    OBVIOUS
  <2>3. PICK q : q = TxLines'
    OBVIOUS
  <2>4. PICK r : r = Reverse(s)
    OBVIOUS
  <2>5. PICK p : p = Reverse(q)
    OBVIOUS
  <2>n. PICK n \in Nat : n = m - k
    OBVIOUS
  <2>a. k \in Nat /\ n \in Nat /\ k + n = m
    BY <2>n
  <2>6. /\ s \in Seq(LogLine) /\ Len(s) = n /\ \A i \in 1 .. n : s[i] = log[k + i]
        /\ r \in Seq(LogLine) /\ Len(r) = n /\ \A i \in 1 .. n : r[i] = s[n - i + 1]
    <3>1. log \in Seq(LogLine) /\ k \in Nat /\ n \in Nat /\ Len(log) = k + n
      BY <1>2, <1>3, <2>a
    <3>2. s = LinesFrom(log, k)
      BY <2>1, <2>2 DEF TxLines, LinesFrom
    <3>3. s \in Seq(LogLine) /\ Len(s) = n /\ \A i \in 1 .. n : s[i] = log[k + i]
      BY <3>1, <3>2, LinesFromIs
    <3> QED BY <2>4, <3>3, ReverseIs
  <2>7. /\ q \in Seq(LogLine) /\ Len(q) = n + 1 /\ \A i \in 1 .. n + 1 : q[i] = log'[k + i]
        /\ p \in Seq(LogLine) /\ Len(p) = n + 1 /\ \A i \in 1 .. n + 1 : p[i] = q[n + 1 - i + 1]
    <3>1. PICK lg \in Seq(LogLine) : lg = log'
      BY <1>3
    <3>2. PICK o \in Nat : o = n + 1
      OBVIOUS
    <3>3. lg \in Seq(LogLine) /\ k \in Nat /\ o \in Nat /\ Len(lg) = k + o
      <4>1. lg \in Seq(LogLine) /\ Len(lg) = m + 1
        BY <1>3, <3>1
      <4>2. k + o = m + 1
        BY <2>a, <3>2
      <4> QED BY <2>a, <4>1, <4>2
    <3>4. q = LinesFrom(lg, k)
      BY <2>1, <2>3, <3>1 DEF TxLines, LinesFrom
    <3>5. q \in Seq(LogLine) /\ Len(q) = o /\ \A i \in 1 .. o : q[i] = lg[k + i]
      BY <3>3, <3>4, LinesFromIs
    <3>6. p \in Seq(LogLine) /\ Len(p) = o /\ \A i \in 1 .. o : p[i] = q[o - i + 1]
      BY <2>5, <3>3, <3>5, ReverseIs
    <3>7. q \in Seq(LogLine) /\ Len(q) = n + 1 /\ \A i \in 1 .. n + 1 : q[i] = log'[k + i]
      BY <3>1, <3>2, <3>5
    <3>8. p \in Seq(LogLine) /\ Len(p) = n + 1 /\ \A i \in 1 .. n + 1 : p[i] = q[n + 1 - i + 1]
      BY <3>2, <3>6
    <3> QED BY <3>7, <3>8
  <2>8. q[n + 1] = l /\ \A i \in 1 .. n : q[i] = s[i]
    <3>1. q[n + 1] = l
      <4>1. PICK e : e = n + 1
        OBVIOUS
      <4>2. e \in 1 .. n + 1 /\ k + e = m + 1
        BY <2>a, <4>1
      <4>3. q[e] = log'[k + e]
        BY <2>7, <4>2
      <4> QED BY <1>3, <4>1, <4>2, <4>3
    <3>2. ASSUME NEW i \in 1 .. n PROVE q[i] = s[i]
      <4>1. PICK j : j = k + i
        OBVIOUS
      <4>2. j \in 1 .. m /\ i \in 1 .. n + 1
        BY <2>a, <4>1
      <4>3. q[i] = log'[j] /\ s[i] = log[j]
        BY <2>6, <2>7, <4>1, <4>2
      <4> QED BY <1>3, <4>2, <4>3
    <3> QED BY <3>1, <3>2
  <2>d. DOMAIN q = 1 .. n + 1 /\ DOMAIN s = 1 .. n
    BY <2>6, <2>7
  <2>9. \A i \in DOMAIN q : Telling(q[i])
    <3>1. \A i \in DOMAIN s : Telling(s[i])
      BY <1>1, <2>2 DEF UndoInv
    <3>2. ASSUME NEW i \in 1 .. n + 1 PROVE Telling(q[i])
      <4>1. CASE i \in 1 .. n
        BY <2>8, <2>d, <3>1, <4>1
      <4>2. CASE i = n + 1
        BY <2>8, <4>2
      <4> QED BY <4>1, <4>2
    <3> QED BY <2>d, <3>2
  <2>10. ASSUME AllShort(q) PROVE UndoGives(table', p, begun)
    <3>0. \A i \in 1 .. n + 1 : Short(q[i])
      BY <2>d, <2>10 DEF AllShort
    <3>1. Short(l) /\ AllShort(s)
      BY <2>8, <2>d, <3>0 DEF AllShort
    <3>2. UndoGives(table, r, begun)
      BY <1>1, <2>2, <2>4, <3>1 DEF UndoInv
    <3>3. Len(p) = Len(r) + 1 /\ p[1] = l
      BY <2>6, <2>7, <2>8
    <3>4. ASSUME NEW i \in 1 .. Len(r) PROVE p[i + 1] = r[i]
      <4>1. PICK j \in 1 .. n : j = n - i + 1 /\ i \in 1 .. n
        BY <2>6
      <4>2. r[i] = s[j] /\ s[j] = q[j]
        BY <2>6, <2>8, <4>1
      <4>3. p[i + 1] = q[j]
        <5>1. PICK e \in 1 .. n + 1 : e = i + 1 /\ n + 1 - e + 1 = j
          BY <4>1
        <5> QED BY <2>7, <5>1
      <4> QED BY <4>2, <4>3
    <3>5. PICK t : t = table'
      OBVIOUS
    <3>6. Undone(t, l) = table
      BY <3>1, <3>5
    <3>7. UndoGives(t, p, begun)
      BY <2>6, <2>7, <3>2, <3>3, <3>4, <3>6, UndoBefore
    <3> QED BY <3>5, <3>7
  <2> QED BY <2>3, <2>5, <2>9, <2>10
<1> QED BY <1>4, <1>5, <1>6 DEF DataInv

\* Compensations redone do what undoing their lines does.
LEMMA CompensationsGive ==
  ASSUME NEW r \in Seq(LogLine), NEW c \in Seq(LogLine), NEW m \in Nat, Len(r) = m, Len(c) = m,
         \A i \in 1 .. m : Short(r[i]) /\ Telling(r[i]) /\ c[i] = Compensation(r[i]),
         NEW t, NEW u, UndoGives(t, r, u)
  PROVE  RedoGives(t, c, u)
<1>1. PICK f : Undoes(f, t, r) /\ f[Len(r)] = u
  BY DEF UndoGives
<1>2. ASSUME NEW i \in 1 .. m PROVE f[i] = RedoLine(f[i - 1], c[i])
  <2>1. PICK x : x = r[i]
    OBVIOUS
  <2>2. PICK y : y = c[i]
    OBVIOUS
  <2>3. x \in LogLine /\ Short(x) /\ Telling(x) /\ y = Compensation(x)
    BY <2>1, <2>2
  <2>4. f[i] = Undone(f[i - 1], x)
    BY <1>1, <2>1 DEF Undoes
  <2>5. PICK w : w = f[i - 1]
    OBVIOUS
  <2>6. RedoLine(w, y) = Undone(w, x)
    BY <2>3, CompensationEffect
  <2> QED BY <2>2, <2>4, <2>5, <2>6
<1>3. Redoes(f, t, c)
  BY <1>1, <1>2 DEF Redoes, Undoes
<1> QED BY <1>1, <1>3 DEF RedoGives

LEMMA BeginKeeps ==
  ASSUME DataInv, NEW c, BeginCommand(c)
  PROVE  DataInv'
<1>1. DataType /\ RedoInv
  BY DEF DataInv
<1>2. PICK m \in Nat : m = Len(log)
  BY <1>1 DEF DataType
<1>3. /\ tx' = [open |-> TRUE, lines |-> m] /\ begun' = table
      /\ table' = table /\ log' = log
  BY <1>2 DEF BeginCommand
<1>4. DataType'
  BY <1>1, <1>2, <1>3 DEF DataType
<1>5. EmptyTable' = EmptyTable
  BY DEF EmptyTable
<1>6. RedoInv'
  BY <1>1, <1>3, <1>5 DEF RedoInv, AllShort, RedoGives, Redoes, RedoLine
<1>7. UndoInv'
  <2>1. PICK q : q = TxLines'
    OBVIOUS
  <2>2. PICK p : p = Reverse(q)
    OBVIOUS
  <2>3. log \in Seq(LogLine) /\ 0 \in Nat /\ Len(log) = m + 0
    BY <1>1, <1>2 DEF DataType
  <2>4. q = LinesFrom(log, m)
    BY <1>3, <2>1 DEF TxLines, LinesFrom
  <2>5. q \in Seq(LogLine) /\ Len(q) = 0
    BY <2>3, <2>4, LinesFromIs
  <2>6. Len(p) = 0
    BY <2>2, <2>3, <2>5, ReverseIs
  <2>7. UndoGives(table, p, table)
    <3>1. PICK f : f = [i \in 0 .. 0 |-> table]
      OBVIOUS
    <3>2. f[0] = table
      BY <3>1
    <3>3. Undoes(f, table, p)
      BY <2>6, <3>2 DEF Undoes
    <3> QED BY <2>6, <3>2, <3>3 DEF UndoGives
  <2>8. UndoGives(table', p, begun')
    BY <1>3, <2>7
  <2>9. DOMAIN q = {}
    BY <2>5
  <2> QED BY <2>1, <2>2, <2>8, <2>9 DEF UndoInv
<1> QED BY <1>4, <1>6, <1>7 DEF DataInv

LEMMA CommitKeeps ==
  ASSUME DataInv, NEW c, CommitCommand(c)
  PROVE  DataInv'
<1>1. DataType /\ RedoInv
  BY DEF DataInv
<1>2. tx' = NoTx /\ table' = table /\ log' = log /\ begun' = begun
  BY DEF CommitCommand
<1>3. DataType'
  BY <1>1, <1>2 DEF DataType, NoTx
<1>4. EmptyTable' = EmptyTable
  BY DEF EmptyTable
<1>5. RedoInv'
  BY <1>1, <1>2, <1>4 DEF RedoInv, AllShort, RedoGives, Redoes, RedoLine
<1>6. UndoInv'
  BY <1>2 DEF UndoInv, NoTx
<1> QED BY <1>3, <1>5, <1>6 DEF DataInv

LEMMA Longer ==
  ASSUME NEW a \in Seq(LogLine), NEW c \in Seq(LogLine), NEW q, q = a \o c
  PROVE  /\ q \in Seq(LogLine) /\ Len(q) = Len(a) + Len(c)
         /\ \A i \in 1 .. Len(a) : q[i] = a[i]
OBVIOUS

\* A rollback.
LEMMA AbortKeeps ==
  ASSUME DataInv, NEW cmd, AbortCommand(cmd)
  PROVE  DataInv' /\ (AllShort(TxLines) => table' = begun)
<1>1. DataType /\ RedoInv /\ UndoInv /\ tx.open
  BY DEF DataInv, AbortCommand
<1>2. PICK m \in Nat : m = Len(log)
  BY <1>1 DEF DataType
<1>3. PICK k \in 0 .. m : k = tx.lines
  BY <1>1, <1>2 DEF DataType
<1>n. PICK n \in Nat : n = m - k
  OBVIOUS
<1>a. k \in Nat /\ n \in Nat /\ k + n = m
  BY <1>n
<1>4. PICK s : s = TxLines
  OBVIOUS
<1>5. PICK r : r = Reverse(s)
  OBVIOUS
<1>6. s \in Seq(LogLine) /\ Len(s) = n /\ \A i \in 1 .. n : s[i] = log[k + i]
  <2>1. log \in Seq(LogLine) /\ Len(log) = k + n
    BY <1>1, <1>2, <1>a DEF DataType
  <2>2. s = LinesFrom(log, k)
    BY <1>3, <1>4 DEF TxLines, LinesFrom
  <2> QED BY <1>a, <2>1, <2>2, LinesFromIs
<1>7. r \in Seq(LogLine) /\ Len(r) = n /\ \A i \in 1 .. n : r[i] = s[n - i + 1]
  BY SMTT(60), <1>5, <1>6, ReverseIs
<1>8. PICK c : c = [i \in 1 .. n |-> Compensation(r[i])]
  OBVIOUS
<1>9. c \in Seq(LogLine) /\ Len(c) = n /\ \A i \in 1 .. n : c[i] = Compensation(r[i])
  <2>1. ASSUME NEW i \in 1 .. n PROVE Compensation(r[i]) \in LogLine
    <3>1. PICK x : x = r[i]
      OBVIOUS
    <3>2. PICK y : y = Compensation(x)
      OBVIOUS
    <3>3. x \in LogLine
      BY <1>7, <3>1
    <3>4. y \in LogLine
      BY <3>2, <3>3, CompensationEffect
    <3> QED BY <3>1, <3>2, <3>4
  <2>2. c \in [1 .. n -> LogLine]
    BY <1>8, <2>1
  <2> QED BY <1>8, <2>2
<1>10. log' = log \o c /\ tx' = NoTx /\ begun' = begun
  <2>1. DOMAIN TxLines = 1 .. n
    BY <1>4, <1>6
  <2>2. [i \in DOMAIN TxLines |-> Compensation(Reverse(TxLines)[i])] = c
    BY <1>4, <1>5, <1>8, <2>1
  <2> QED BY <2>2 DEF AbortCommand
<1>11. table' = UndoneAll(r)
  BY <1>4, <1>5 DEF AbortCommand, RolledBack
<1>12. PICK t : t = table'
  OBVIOUS
<1>13. UndoGives(table, r, t) /\ t \in Tables
  BY <1>1, <1>7, <1>11, <1>12, UndoneIs DEF DataType
<1>14. \A i \in 1 .. n : Telling(s[i])
  BY <1>1, <1>4, <1>6 DEF UndoInv
<1>15. DataType'
  <2>1. log' \in Seq(LogLine) /\ Len(log') = m + n
    <3>1. log \in Seq(LogLine) /\ Len(log) = m /\ m \in Nat
      BY <1>1, <1>2 DEF DataType
    <3>2. PICK lg : lg = log \o c
      OBVIOUS
    <3>3. lg \in Seq(LogLine) /\ Len(lg) = Len(log) + Len(c)
      <4>1. log \in Seq(LogLine) /\ c \in Seq(LogLine)
        BY <1>9, <3>1
      <4> QED BY <3>2, <4>1, Longer
    <3> QED BY <1>9, <1>10, <3>1, <3>2, <3>3
  <2>2. 0 \in 0 .. m + n
    BY <1>2, <1>a
  <2>3. tx' \in [open : BOOLEAN, lines : 0 .. m + n]
    BY <1>10, <2>2 DEF NoTx
  <2> QED BY <1>1, <1>10, <1>12, <1>13, <2>1, <2>3 DEF DataType
<1>16. RedoInv'
  <2> SUFFICES ASSUME AllShort(log)' PROVE RedoGives(EmptyTable, log, table)'
    BY DEF RedoInv
  <2>1. PICK lg : lg = log \o c
    OBVIOUS
  <2>2. log \in Seq(LogLine) /\ DOMAIN log = 1 .. m
    BY <1>1, <1>2 DEF DataType
  <2>3. DOMAIN lg = 1 .. m + n /\ \A i \in 1 .. m : lg[i] = log[i]
    <3>1. /\ lg \in Seq(LogLine) /\ Len(lg) = Len(log) + Len(c)
          /\ \A i \in 1 .. Len(log) : lg[i] = log[i]
      <4>1. log \in Seq(LogLine) /\ c \in Seq(LogLine)
        BY <1>9, <2>2
      <4> QED BY <2>1, <4>1, Longer
    <3>2. Len(log) = m /\ Len(c) = n
      BY <1>2, <1>9
    <3> QED BY <3>1, <3>2
  <2>4. \A i \in 1 .. m + n : Short(lg[i])
    BY <1>10, <2>1, <2>3 DEF AllShort
  <2>5. \A i \in 1 .. m : Short(log[i])
    BY <2>3, <2>4
  <2>6. AllShort(log)
    BY <2>2, <2>5 DEF AllShort
  <2>7. ASSUME NEW i \in 1 .. n PROVE Short(s[i])
    <3>1. PICK j : j = k + i
      OBVIOUS
    <3>2. j \in 1 .. m
      BY <1>a, <3>1
    <3> QED BY <1>6, <2>5, <3>1, <3>2
  <2>8. ASSUME NEW i \in 1 .. n PROVE Short(r[i]) /\ Telling(r[i])
    <3>1. PICK j : j = n - i + 1
      OBVIOUS
    <3>2. j \in 1 .. n
      BY <3>1, Back
    <3> QED BY <1>7, <1>14, <2>7, <3>1, <3>2
  <2>9. RedoGives(table, c, t)
    BY <1>7, <1>9, <1>13, <2>8, CompensationsGive
  <2>10. RedoGives(EmptyTable, log, table)
    BY <1>1, <2>6 DEF RedoInv
  <2>11. RedoGives(EmptyTable, lg, t)
    BY <1>9, <2>1, <2>2, <2>9, <2>10, RedoThen
  <2>12. EmptyTable' = EmptyTable
    BY DEF EmptyTable
  <2> QED BY <1>10, <1>12, <2>1, <2>11, <2>12 DEF RedoGives, Redoes, RedoLine
<1>17. UndoInv'
  BY <1>10 DEF UndoInv, NoTx
<1>18. AllShort(TxLines) => table' = begun
  <2>1. AllShort(TxLines) => UndoGives(table, r, begun)
    BY <1>1, <1>4, <1>5 DEF UndoInv
  <2> QED BY <1>7, <1>12, <1>13, <2>1, UndoSame
<1> QED BY <1>15, <1>16, <1>17, <1>18 DEF DataInv

LEMMA DataStays ==
  ASSUME DataInv, UNCHANGED dataVars
  PROVE  DataInv'
<1>1. table' = table /\ log' = log /\ tx' = tx /\ begun' = begun
  BY DEF dataVars
<1>2. EmptyTable' = EmptyTable
  BY DEF EmptyTable
<1>3. TxLines' = TxLines
  BY <1>1 DEF TxLines
<1>4. DataType'
  BY <1>1 DEF DataInv, DataType
<1>5. RedoInv'
  BY <1>1, <1>2 DEF DataInv, RedoInv, AllShort, RedoGives, Redoes, RedoLine
<1>6. UndoInv'
  BY <1>1, <1>3 DEF DataInv, UndoInv, AllShort
<1> QED BY <1>4, <1>5, <1>6 DEF DataInv

\* What a step may do to the table when it ends a transaction.
Restores == tx.open /\ ~tx'.open /\ log' # log /\ AllShort(TxLines) => table' = begun

LEMMA CommandKeeps ==
  ASSUME DataInv, NEW c, c \in Command \/ c = [op |-> "invalid"], RunCommand(c)
  PROVE  DataInv' /\ Restores
<1>t. table \in Tables
  BY DEF DataInv, DataType
<1>1. CASE SetCommand(c)
  <2>1. UNCHANGED <<tx, begun>> /\ c.key \in Word /\ c.val \in Word
    BY <1>1 DEF SetCommand, Command
  <2>2. CASE UNCHANGED <<table, log>>
    BY <2>1, <2>2, DataStays DEF dataVars, Restores
  <2>3. CASE Logs(Line(FALSE, c.key, Value(c.key), c.val)) /\ table' = With(table, c.key, c.val)
    <3>1. PICK k \in Word : k = c.key
      BY <2>1
    <3>2. PICK v \in Word : v = c.val
      BY <2>1
    <3>3. PICK l : l = Line(FALSE, k, Value(k), v)
      OBVIOUS
    <3>4. PICK t : t = With(table, k, v)
      OBVIOUS
    <3>5. /\ l \in LogLine /\ t \in Tables /\ Telling(l)
          /\ Short(l) => RedoLine(table, l) = t /\ Undone(t, l) = table
      BY ZenonT(60), <1>t, <3>1, <3>2, <3>3, <3>4, SetEffect
    <3>6. log' = Append(log, l) /\ table' = t
      BY <2>3, <3>1, <3>2, <3>3, <3>4 DEF Logs
    <3> QED BY <2>1, <3>5, <3>6, UpdateKeeps DEF Restores
  <2> QED BY <1>1, <2>2, <2>3 DEF SetCommand
<1>2. CASE DelCommand(c)
  <2>1. UNCHANGED <<tx, begun>> /\ c.key \in Word
    BY <1>2 DEF DelCommand, Command
  <2>2. CASE UNCHANGED <<table, log>>
    BY <2>1, <2>2, DataStays DEF dataVars, Restores
  <2>3. CASE /\ c.key \in DOMAIN table /\ Logs(Line(FALSE, c.key, Value(c.key), Nothing))
             /\ table' = Without(table, c.key)
    <3>1. PICK k \in Word : k = c.key
      BY <2>1
    <3>2. PICK l : l = Line(FALSE, k, Value(k), Nothing)
      OBVIOUS
    <3>3. PICK t : t = Without(table, k)
      OBVIOUS
    <3>4. /\ l \in LogLine /\ t \in Tables /\ Telling(l)
          /\ Short(l) => RedoLine(table, l) = t /\ Undone(t, l) = table
      BY <1>t, <2>3, <3>1, <3>2, <3>3, DelEffect
    <3>5. log' = Append(log, l) /\ table' = t
      BY <2>3, <3>1, <3>2, <3>3 DEF Logs
    <3> QED BY <2>1, <3>4, <3>5, UpdateKeeps DEF Restores
  <2> QED BY <1>2, <2>2, <2>3 DEF DelCommand
<1>3. CASE BeginCommand(c)
  BY <1>3, BeginKeeps DEF BeginCommand, Restores
<1>4. CASE CommitCommand(c)
  BY <1>4, CommitKeeps DEF CommitCommand, Restores
<1>5. CASE AbortCommand(c)
  BY <1>5, AbortKeeps DEF Restores
<1>6. CASE GetCommand(c) \/ OtherCommand(c)
  <2>1. UNCHANGED dataVars
    BY <1>6 DEF GetCommand, OtherCommand
  <2> QED BY <2>1, DataStays DEF dataVars, Restores
<1> QED BY <1>1, <1>2, <1>3, <1>4, <1>5, <1>6 DEF RunCommand

LEMMA DataNext ==
  ASSUME FrameInv, DataInv, [Next]_vars
  PROVE  DataInv' /\ Restores
<1>1. CASE UNCHANGED dataVars
  BY <1>1, DataStays DEF dataVars, Restores
<1>2. CASE Consume
  <2>1. PICK b : RunBytes(b)
    BY <1>2 DEF Consume
  <2>2. CASE \E i \in DOMAIN script : RunCommand(script[i])
    <3>1. PICK i \in DOMAIN script : RunCommand(script[i])
      BY <2>2
    <3>2. PICK c : c = script[i]
      OBVIOUS
    <3>3. c \in Command
      BY <3>1, <3>2 DEF FrameInv, FrameType
    <3> QED BY <3>1, <3>2, <3>3, CommandKeeps
  <2>3. CASE RunCommand([op |-> "invalid"])
    <3>1. PICK c : c = [op |-> "invalid"]
      OBVIOUS
    <3> QED BY <2>3, <3>1, CommandKeeps
  <2> QED BY <2>1, <2>2, <2>3 DEF RunBytes
<1> QED
  <2>1. Next => Consume \/ UNCHANGED dataVars
    BY DEF Next, Handling, Read, ReadEnd, NothingToConsume, Answer, AnswerFails, PeerCloses
  <2>2. UNCHANGED vars => UNCHANGED dataVars
    BY DEF vars
  <2> QED BY <1>1, <1>2, <2>1, <2>2

\* As long as the keys and values of its lines have at most 15 bytes and no value is
\* empty, the log redone from its first line on gives the table.
THEOREM RedoGivesTable == Spec => []RedoRestores
<1>1. DataInv => RedoRestores
  <2> SUFFICES ASSUME DataInv, \A n \in DOMAIN log : Short(log[n]) PROVE Redone = table
    BY DEF RedoRestores
  <2>1. log \in Seq(LogLine) /\ RedoGives(EmptyTable, log, table)
    BY DEF DataInv, DataType, RedoInv, AllShort
  <2>2. RedoGives(EmptyTable, log, Redone)
    BY <2>1, RedoneIs
  <2>3. PICK t : t = Redone
    OBVIOUS
  <2>4. PICK e : e = EmptyTable
    OBVIOUS
  <2>5. t = table
    BY <2>1, <2>2, <2>3, <2>4, RedoSame
  <2> QED BY <2>3, <2>5
<1>2. FrameInv /\ DataInv /\ [Next]_vars => FrameInv' /\ DataInv'
  BY FrameNext, DataNext
<1> QED BY FrameInit, DataInit, <1>1, <1>2, PTL DEF Spec

\* A rollback gives back the table as it was at the begin, when the keys and values
\* of the transaction's lines have at most 15 bytes and no value is empty.
THEOREM RollbackGivesBegin == Spec => RollbackRestores
<1>1. FrameInv /\ DataInv /\ [Next]_vars =>
        [tx.open /\ ~tx'.open /\ log' # log /\ (\A n \in DOMAIN TxLines : Short(TxLines[n]))
           => table' = begun]_vars
  BY DataNext DEF Restores, AllShort
<1>2. FrameInv /\ DataInv /\ [Next]_vars => FrameInv' /\ DataInv'
  BY FrameNext, DataNext
<1> QED BY FrameInit, DataInit, <1>1, <1>2, PTL DEF Spec, RollbackRestores

=============================================================================
